-------------------------- MODULE ReceiverDB_proof --------------------------
(* Theorems about ReceiverDB, for every value of its constants: parameters,   *)
(* batches, labels, OPRF outputs, filters and number of calls.  From bottom   *)
(* to top: the folds of the model round by round, sequences, the lengths of   *)
(* the polynomials, their values, items and labels as field elements, the     *)
(* cuckoo filter, one bundle, the workers, the database, the query, the       *)
(* caches, the filters, the item count.  Arithmetic the provers lack is a     *)
(* hypothesis of the theorems that need it, and TLC evaluates it:             *)
(* PowersOfTwo, InversesRight and BucketsPaired.                              *)
EXTENDS ReceiverDB, FoldTheorems, SequenceTheorems, TLAPS
-----------------------------------------------------------------------------
(* The folds of the model: each is a recursive function on the sets of places *)
(* of a sequence, which takes the largest place last (FoldLeft) or the least  *)
(* one (FoldRight).                                                           *)

\* One round of an insertion into a filter, with the other bucket of a tag.
Other(b, tag) == AltIndex(EmptyFilter(max_bin_size), b, tag)

Kick(s, k) ==
  LET t == InsertTag(s.table, s.idx, s.tag, k > 1, k)
  IN  IF s.done THEN s
      ELSE IF t.done THEN [s EXCEPT !.table = t.table, !.done = TRUE]
      ELSE [table |-> t.table, idx |-> Other(s.idx, t.old), tag |-> t.old, done |-> FALSE]

\* One round of each: a place kept or not, an entry worked on, a tag kicked, a felt added to a
\* filter, a root or a point multiplied in, a coefficient of Horner's method, a bit of a number.
Round(kind, ctx, x, acc) ==
  IF kind = "kept" THEN IF x \in ctx.places THEN Append(acc, ctx.seq[x]) ELSE acc
  ELSE IF kind = "work" THEN WorkOn(ctx, acc, x)
  ELSE IF kind = "kick" THEN Kick(acc, x)
  ELSE IF kind = "add" THEN FilterAdd(acc, x)
  ELSE IF kind = "roots" THEN MulMonicMonomial(acc, x)
  ELSE IF kind = "value" THEN (x + ctx * acc) % mod
  ELSE IF kind = "bits" THEN x + 2 * acc
  ELSE MulMonicMonomial([acc EXCEPT ![1] = (@ + ctx.dd[x][1]) % mod], ctx.points[x])

Loop == INSTANCE FoldTheorems WITH OneRound <- Round

-----------------------------------------------------------------------------
(* Sequences whose elements need no type. *)

LEMMA ListingRemoveAt ==
  ASSUME NEW s, Listing(s), NEW p \in 1..Len(s)
  PROVE  /\ Listing(RemoveAt(s, p)) /\ Len(RemoveAt(s, p)) = Len(s) - 1
         /\ \A k \in 1..(Len(s) - 1) : \E j \in 1..Len(s) : RemoveAt(s, p)[k] = s[j]
<1> DEFINE S == {s[k] : k \in 1..Len(s)}
           n == Len(s)
<1>0. n \in Nat /\ p \in 1..n /\ \A k \in 1..n : s[k] \in S BY DEF Listing
<1> HIDE DEF S, n
<1>1. SubSeq(s, 1, p - 1) \in Seq(S) /\ Len(SubSeq(s, 1, p - 1)) = p - 1
  <2>1. 1 \in Int /\ p - 1 \in Int /\ \A i \in 1..(p - 1) : s[i] \in S BY <1>0
  <2>2. (IF 1 <= p - 1 THEN (p - 1) - 1 + 1 ELSE 0) = p - 1 BY <1>0
  <2> QED BY <2>1, <2>2, SubSeqProperties
<1>2. SubSeq(s, p + 1, n) \in Seq(S) /\ Len(SubSeq(s, p + 1, n)) = n - p
  <2>1. p + 1 \in Int /\ n \in Int /\ \A i \in (p + 1)..n : s[i] \in S BY <1>0
  <2>2. (IF p + 1 <= n THEN n - (p + 1) + 1 ELSE 0) = n - p BY <1>0
  <2> QED BY <2>1, <2>2, SubSeqProperties
<1>3. RemoveAt(s, p) = SubSeq(s, 1, p - 1) \o SubSeq(s, p + 1, n) BY DEF RemoveAt, n
<1>4. RemoveAt(s, p) \in Seq(S) /\ Len(RemoveAt(s, p)) = (p - 1) + (n - p)
  BY <1>1, <1>2, <1>3, ConcatProperties
<1>5. (p - 1) + (n - p) = n - 1 BY <1>0
<1>6. \A k \in 1..(n - 1) : RemoveAt(s, p)[k] \in S BY <1>4, <1>5, ElementOfSeq
<1> QED BY <1>4, <1>5, <1>6, ListingSeq DEF n, S

LEMMA ListingExcept ==
  ASSUME NEW s, Listing(s), NEW p, NEW x
  PROVE  Listing([s EXCEPT ![p] = x]) /\ Len([s EXCEPT ![p] = x]) = Len(s)
<1> DEFINE f == [s EXCEPT ![p] = x]
<1>1. DOMAIN s = 1..Len(s) /\ Len(s) \in Nat BY ListingSeq DEF Listing
<1>2. f = [k \in 1..Len(s) |-> f[k]] BY <1>1
<1> HIDE DEF f
<1> QED BY <1>1, <1>2, ListingOf DEF f

LEMMA ListingConcat ==
  ASSUME NEW s, Listing(s), NEW t, Listing(t)
  PROVE  /\ Listing(s \o t) /\ Len(s \o t) = Len(s) + Len(t)
         /\ \A k \in 1..Len(s \o t) : \/ \E j \in 1..Len(s) : (s \o t)[k] = s[j]
                                      \/ \E j \in 1..Len(t) : (s \o t)[k] = t[j]
<1> DEFINE S == {s[k] : k \in 1..Len(s)} \cup {t[k] : k \in 1..Len(t)}
<1>1. s \in Seq(S)
  <2>1. s \in Seq({s[k] : k \in 1..Len(s)}) BY ListingSeq
  <2> QED BY <2>1, SeqMonotonic
<1>2. t \in Seq(S)
  <2>1. t \in Seq({t[k] : k \in 1..Len(t)}) BY ListingSeq
  <2> QED BY <2>1, SeqMonotonic
<1>3. s \o t \in Seq(S) /\ Len(s \o t) = Len(s) + Len(t) BY <1>1, <1>2, ConcatProperties
<1>4. \A k \in 1..Len(s \o t) : (s \o t)[k] \in S BY <1>3, ElementOfSeq
<1> QED BY <1>3, <1>4, ListingSeq

-----------------------------------------------------------------------------
(* Each fold of the model, round by round. *)

LEMMA KeptRounds ==
  ASSUME NEW seq, Listing(seq), NEW places
  PROVE  \E g : /\ g[0] = <<>> /\ g[Len(seq)] = KeptAt(seq, places)
                /\ \A k \in 0..(Len(seq) - 1) :
                     g[k + 1] = IF k + 1 \in places THEN Append(g[k], seq[k + 1]) ELSE g[k]
<1> DEFINE n == Len(seq)
           ctx == [seq |-> seq, places |-> places]
           at == [k \in 1..n |-> k]
           h == CHOOSE h : Loop!IsUnrolling(h, "left", "kept", ctx, <<>>, at, n)
<1>0. n \in Nat /\ DOMAIN seq = 1..n BY ListingSeq DEF Listing
<1>1. Loop!IsUnrolling(h, "left", "kept", ctx, <<>>, at, n) BY <1>0, Loop!UnrollingExists
<1>2. KeptAt(seq, places) = h[1..n]
  BY <1>0 DEF KeptAt, FoldLeft, MapThenFoldSet, Round, Max, Min, Loop!Max, Loop!Min,
     Loop!IsUnrolling, Loop!Unrolled, Loop!LastTaken
<1> HIDE DEF h, ctx, at
<1>3. PICK g : Loop!AreRounds(g, "left", "kept", ctx, <<>>, at, n) /\ g[n] = h[1..n]
  BY ONLY <1>0, <1>1, Loop!RoundByRound
<1>r. /\ g[0] = <<>>
      /\ \A k \in 0..(n - 1) : g[k + 1] = Round("kept", ctx, at[k + 1], g[k])
  BY <1>3 DEF Loop!AreRounds
<1>4. ASSUME NEW k \in 0..(n - 1)
      PROVE  g[k + 1] = IF k + 1 \in places THEN Append(g[k], seq[k + 1]) ELSE g[k]
  <2>1. at[k + 1] = k + 1 BY <1>0 DEF at
  <2>2. ctx.seq = seq /\ ctx.places = places BY DEF ctx
  <2>3. g[k + 1] = Round("kept", ctx, at[k + 1], g[k]) BY <1>r
  <2> QED BY <2>1, <2>2, <2>3 DEF Round
<1> QED BY <1>2, <1>3, <1>r, <1>4

\* What a worker makes of its entries.
Task(work, base, entries) == FoldLeft(LAMBDA s, e : WorkOn(work, s, e), base, entries)

LEMMA WorkRounds ==
  ASSUME NEW work, NEW base, NEW entries, Listing(entries)
  PROVE  \E g : /\ g[0] = base
                /\ g[Len(entries)] = Task(work, base, entries)
                /\ \A k \in 0..(Len(entries) - 1) : g[k + 1] = WorkOn(work, g[k], entries[k + 1])
<1> DEFINE n == Len(entries)
           h == CHOOSE h : Loop!IsUnrolling(h, "left", "work", work, base, entries, n)
<1>0. n \in Nat /\ DOMAIN entries = 1..n BY ListingSeq DEF Listing
<1>1. Loop!IsUnrolling(h, "left", "work", work, base, entries, n) BY <1>0, Loop!UnrollingExists
<1>2. Task(work, base, entries) = h[1..n]
  BY <1>0 DEF Task, FoldLeft, MapThenFoldSet, Round, Max, Min, Loop!Max, Loop!Min,
     Loop!IsUnrolling, Loop!Unrolled, Loop!LastTaken
<1> HIDE DEF h
<1>3. PICK g : Loop!AreRounds(g, "left", "work", work, base, entries, n) /\ g[n] = h[1..n]
  BY ONLY <1>0, <1>1, Loop!RoundByRound
<1>r. /\ g[0] = base
      /\ \A k \in 0..(n - 1) : g[k + 1] = Round("work", work, entries[k + 1], g[k])
  BY <1>3 DEF Loop!AreRounds
<1>4. \A k \in 0..(n - 1) : g[k + 1] = WorkOn(work, g[k], entries[k + 1]) BY <1>r DEF Round
<1> QED BY <1>2, <1>3, <1>r, <1>4

LEMMA RootRounds ==
  ASSUME NEW roots, Listing(roots)
  PROVE  \E g : /\ g[0] = <<1>> /\ g[Len(roots)] = PolynWithRoots(roots)
                /\ \A k \in 0..(Len(roots) - 1) :
                     g[k + 1] = MulMonicMonomial(g[k], roots[k + 1])
<1> DEFINE n == Len(roots)
           h == CHOOSE h : Loop!IsUnrolling(h, "left", "roots", 0, <<1>>, roots, n)
<1>0. n \in Nat /\ DOMAIN roots = 1..n BY ListingSeq DEF Listing
<1>1. Loop!IsUnrolling(h, "left", "roots", 0, <<1>>, roots, n) BY <1>0, Loop!UnrollingExists
<1>2. PolynWithRoots(roots) = h[1..n]
  BY <1>0 DEF PolynWithRoots, FoldLeft, MapThenFoldSet, Round, Max, Min, Loop!Max, Loop!Min,
     Loop!IsUnrolling, Loop!Unrolled, Loop!LastTaken
<1> HIDE DEF h
<1>3. PICK g : Loop!AreRounds(g, "left", "roots", 0, <<1>>, roots, n) /\ g[n] = h[1..n]
  BY ONLY <1>0, <1>1, Loop!RoundByRound
<1>r. /\ g[0] = <<1>>
      /\ \A k \in 0..(n - 1) : g[k + 1] = Round("roots", 0, roots[k + 1], g[k])
  BY <1>3 DEF Loop!AreRounds
<1>4. \A k \in 0..(n - 1) : g[k + 1] = MulMonicMonomial(g[k], roots[k + 1]) BY <1>r DEF Round
<1> QED BY <1>2, <1>3, <1>r, <1>4

\* The inner part of the Newton form, from the last point but one down to the first.
Horner(dd, points, m) ==
  FoldRight(LAMBDA i, p : MulMonicMonomial([p EXCEPT ![1] = (@ + dd[i][1]) % mod], points[i]),
            [i \in 1..m |-> i], <<0>>)

AreHornerRounds(g, dd, points, m) ==
  /\ g[0] = <<0>>
  /\ \A k \in 0..(m - 1) :
       g[k + 1] = MulMonicMonomial([g[k] EXCEPT ![1] = (@ + dd[m - k][1]) % mod], points[m - k])

LEMMA NewtonRounds ==
  ASSUME NEW m \in Nat, NEW dd, NEW points
  PROVE  \E g : AreHornerRounds(g, dd, points, m) /\ g[m] = Horner(dd, points, m)
<1> DEFINE ctx == [dd |-> dd, points |-> points]
           at == [k \in 1..m |-> k]
           h == CHOOSE h : Loop!IsUnrolling(h, "right", "newton", ctx, <<0>>, at, m)
<1>1. Loop!IsUnrolling(h, "right", "newton", ctx, <<0>>, at, m) BY Loop!UnrollingExists
<1>2. Horner(dd, points, m) = h[1..m]
  BY DEF Horner, FoldRight, MapThenFoldSet, Round, Max, Min, Loop!Max, Loop!Min,
     Loop!IsUnrolling, Loop!Unrolled, Loop!LastTaken
<1> HIDE DEF h, ctx, at
<1>3. PICK g : Loop!AreRounds(g, "right", "newton", ctx, <<0>>, at, m) /\ g[m] = h[1..m]
  BY ONLY m \in Nat, <1>1, Loop!RoundByRound
<1>r. /\ g[0] = <<0>>
      /\ \A k \in 0..(m - 1) : g[k + 1] = Round("newton", ctx, at[m - k], g[k])
  BY <1>3 DEF Loop!AreRounds
<1>4. ASSUME NEW k \in 0..(m - 1)
      PROVE  g[k + 1] = MulMonicMonomial([g[k] EXCEPT ![1] = (@ + dd[m - k][1]) % mod], points[m - k])
  <2>1. at[m - k] = m - k BY DEF at
  <2>2. ctx.dd = dd /\ ctx.points = points BY DEF ctx
  <2>3. g[k + 1] = Round("newton", ctx, m - k, g[k]) BY <1>r, <2>1
  <2> QED BY <2>2, <2>3 DEF Round
<1>5. AreHornerRounds(g, dd, points, m) BY <1>r, <1>4 DEF AreHornerRounds
<1> QED BY <1>2, <1>3, <1>5

-----------------------------------------------------------------------------
(* What the folds give: elements from where they come, lengths of polynomials. *)

LEMMA KeptFrom ==
  ASSUME NEW seq, Listing(seq), NEW places
  PROVE  /\ Listing(KeptAt(seq, places))
         /\ \A k \in DOMAIN KeptAt(seq, places) :
              \E j \in DOMAIN seq \cap places : KeptAt(seq, places)[k] = seq[j]
<1> DEFINE n == Len(seq)
           From(s) == /\ Listing(s)
                      /\ \A k \in 1..Len(s) : \E j \in 1..n : j \in places /\ s[k] = seq[j]
<1>0. n \in Nat /\ DOMAIN seq = 1..n BY ListingSeq DEF Listing
<1>1. PICK g : /\ g[0] = <<>> /\ g[n] = KeptAt(seq, places)
               /\ \A k \in 0..(n - 1) :
                    g[k + 1] = IF k + 1 \in places THEN Append(g[k], seq[k + 1]) ELSE g[k]
  BY KeptRounds
<1> DEFINE T == {k \in Nat : k <= n => From(g[k])}
<1>2. 0 \in T
  <2>1. Listing(<<>>) /\ Len(<<>>) = 0 BY DEF Listing
  <2> QED BY <1>1, <2>1
<1>3. ASSUME NEW k \in T PROVE k + 1 \in T
  <2> SUFFICES ASSUME k + 1 <= n PROVE From(g[k + 1]) OBVIOUS
  <2>1. k \in 0..(n - 1) /\ k + 1 \in 1..n /\ From(g[k]) BY <1>0
  <2>2. CASE k + 1 \notin places BY <1>1, <2>1, <2>2
  <2>3. CASE k + 1 \in places
    <3>1. PICK s : s = g[k] /\ From(s) BY <2>1
    <3>2. g[k + 1] = Append(s, seq[k + 1]) BY <1>1, <2>1, <2>3, <3>1
    <3>3. /\ Listing(Append(s, seq[k + 1])) /\ Len(Append(s, seq[k + 1])) = Len(s) + 1
          /\ \A i \in 1..Len(s) : Append(s, seq[k + 1])[i] = s[i]
          /\ Append(s, seq[k + 1])[Len(s) + 1] = seq[k + 1]
      BY <3>1, ListingAppend
    <3>4. ASSUME NEW i \in 1..(Len(s) + 1)
          PROVE  \E j \in 1..n : j \in places /\ Append(s, seq[k + 1])[i] = seq[j]
      <4>0. Len(s) \in Nat BY <3>1 DEF Listing
      <4>1. CASE i \in 1..Len(s) BY <3>1, <3>3, <4>1
      <4>2. CASE i = Len(s) + 1 BY <2>1, <2>3, <3>3, <4>2
      <4> QED BY <4>0, <4>1, <4>2
    <3> QED BY <3>2, <3>3, <3>4
  <2> QED BY <2>2, <2>3
<1> HIDE DEF From
<1>4. T = Nat BY <1>2, <1>3, InductionOnNat
<1>5. From(KeptAt(seq, places)) BY <1>0, <1>1, <1>4
<1> USE DEF From
<1>6. DOMAIN KeptAt(seq, places) = 1..Len(KeptAt(seq, places)) BY <1>5, ListingSeq
<1> QED BY <1>0, <1>5, <1>6

LEMMA MonomialLength ==
  ASSUME NEW polyn, Listing(polyn), NEW x
  PROVE  Listing(MulMonicMonomial(polyn, x)) /\ Len(MulMonicMonomial(polyn, x)) = Len(polyn) + 1
<1> DEFINE c == polyn \o <<0>>
           f == [i \in 1..Len(c) |-> ((IF i > 1 THEN c[i - 1] ELSE 0) - x * c[i]) % mod]
<1>1. Listing(<<0>>) /\ Len(<<0>>) = 1
  <2>1. <<0>> \in Seq({0}) /\ Len(<<0>>) = 1 OBVIOUS
  <2> QED BY <2>1, ListingSeq
<1>2. Len(c) = Len(polyn) + 1 /\ Len(polyn) \in Nat BY <1>1, ListingConcat DEF Listing
<1>3. MulMonicMonomial(polyn, x) = f BY DEF MulMonicMonomial
<1>4. f = [i \in 1..Len(c) |-> f[i]] /\ Len(c) \in Nat BY <1>2
<1> HIDE DEF f, c
<1> QED BY <1>2, <1>3, <1>4, ListingOf

LEMMA RootsLength ==
  ASSUME NEW roots, Listing(roots)
  PROVE  Len(PolynWithRoots(roots)) = Len(roots) + 1
<1> DEFINE n == Len(roots)
<1>0. n \in Nat BY DEF Listing
<1>1. PICK g : /\ g[0] = <<1>> /\ g[n] = PolynWithRoots(roots)
               /\ \A k \in 0..(n - 1) : g[k + 1] = MulMonicMonomial(g[k], roots[k + 1])
  BY RootRounds
<1> DEFINE T == {k \in Nat : k <= n => Listing(g[k]) /\ Len(g[k]) = k + 1}
<1>2. 0 \in T
  <2>1. <<1>> \in Seq({1}) /\ Len(<<1>>) = 1 OBVIOUS
  <2>2. Listing(<<1>>) BY <2>1, ListingSeq
  <2> QED BY <1>1, <2>1, <2>2
<1>3. ASSUME NEW k \in T PROVE k + 1 \in T
  <2> SUFFICES ASSUME k + 1 <= n PROVE Listing(g[k + 1]) /\ Len(g[k + 1]) = (k + 1) + 1 OBVIOUS
  <2>1. k \in 0..(n - 1) /\ Listing(g[k]) /\ Len(g[k]) = k + 1 BY <1>0
  <2>2. g[k + 1] = MulMonicMonomial(g[k], roots[k + 1]) BY <1>1, <2>1
  <2> QED BY <2>1, <2>2, MonomialLength
<1>4. T = Nat BY <1>2, <1>3, InductionOnNat
<1> QED BY <1>0, <1>1, <1>4

LEMMA NewtonLength ==
  ASSUME NEW points, Listing(points), NEW values, Listing(values), Len(values) = Len(points)
  PROVE  Len(NewtonInterpolatePolyn(points, values)) = IF points = <<>> THEN 1 ELSE Len(points)
<1> DEFINE n == Len(points)
           m == n - 1
           dd == DividedDifferences(points, values)
           AddTo(p, c) == [p EXCEPT ![1] = (@ + c) % mod]
           inner == Horner(dd, points, m)
<1>0. n \in Nat /\ (points = <<>> <=> n = 0)
  <2>1. n \in Nat /\ points = [k \in 1..n |-> points[k]] BY DEF Listing
  <2>2. n = 0 => points = <<>> BY <2>1
  <2> QED BY <2>1, <2>2
<1>1. CASE \A i \in DOMAIN values : values[i] = 0
  <2> DEFINE z == IF points = <<>> THEN 1 ELSE n
             f == [i \in 1..z |-> 0]
  <2>1. NewtonInterpolatePolyn(points, values) = f BY <1>1 DEF NewtonInterpolatePolyn
  <2>2. z \in Nat /\ f = [i \in 1..z |-> f[i]] BY <1>0
  <2> HIDE DEF z, f
  <2>3. Len(f) = z BY <2>2, ListingOf
  <2> QED BY <2>1, <2>3 DEF z
<1>2. CASE ~\A i \in DOMAIN values : values[i] = 0
  <2>0. n # 0
    <3>1. DOMAIN values = 1..n BY ListingSeq
    <3> QED BY <1>2, <3>1
  <2>1. NewtonInterpolatePolyn(points, values) = AddTo(inner, dd[0][1])
    BY <1>2 DEF NewtonInterpolatePolyn, Horner
  <2>2. m \in Nat BY <1>0, <2>0
  <2> HIDE DEF dd
  <2>g. PICK g : AreHornerRounds(g, dd, points, m) /\ g[m] = inner
    BY ONLY <2>2, NewtonRounds
  <2>3. /\ g[0] = <<0>>
        /\ \A k \in 0..(m - 1) :
             g[k + 1] = MulMonicMonomial([g[k] EXCEPT ![1] = (@ + dd[m - k][1]) % mod],
                                         points[m - k])
    BY <2>g DEF AreHornerRounds
  <2> HIDE DEF inner, m
  <2> DEFINE T == {k \in Nat : k <= m => Listing(g[k]) /\ Len(g[k]) = k + 1}
  <2>4. 0 \in T
    <3>1. <<0>> \in Seq({0}) /\ Len(<<0>>) = 1 OBVIOUS
    <3>2. Listing(<<0>>) BY <3>1, ListingSeq
    <3> QED BY <2>3, <3>1, <3>2
  <2>5. ASSUME NEW k \in T PROVE k + 1 \in T
    <3> SUFFICES ASSUME k + 1 <= m PROVE Listing(g[k + 1]) /\ Len(g[k + 1]) = (k + 1) + 1 OBVIOUS
    <3> DEFINE e == [g[k] EXCEPT ![1] = (@ + dd[m - k][1]) % mod]
    <3>1. k \in 0..(m - 1) /\ Listing(g[k]) /\ Len(g[k]) = k + 1 BY <2>2
    <3>2. g[k + 1] = MulMonicMonomial(e, points[m - k]) BY <2>3, <3>1
    <3>3. Listing(e) /\ Len(e) = k + 1 BY <3>1, ListingExcept
    <3> HIDE DEF e
    <3> QED BY <3>2, <3>3, MonomialLength
  <2>6. T = Nat BY <2>4, <2>5, InductionOnNat
  <2>7. Listing(inner) /\ Len(inner) = m + 1 BY <2>2, <2>g, <2>6
  <2>8. Len(AddTo(inner, dd[0][1])) = m + 1 BY <2>7, ListingExcept
  <2>9. m + 1 = n BY <1>0 DEF m
  <2> HIDE DEF AddTo
  <2> QED BY <1>0, <2>0, <2>1, <2>8, <2>9
<1> QED BY <1>1, <1>2

-----------------------------------------------------------------------------
(* The values of the polynomials, by Horner's method: at a root of             *)
(* PolynWithRoots and nowhere else the value is zero.                          *)

\* Integers, and nothing else.
Ints(c) == Listing(c) /\ \A k \in 1..Len(c) : c[k] \in Int

\* Horner's method, from the last coefficient to the first.
AreValues(g, c, x) ==
  /\ g[0] = 0
  /\ \A k \in 0..(Len(c) - 1) : g[k + 1] = (c[Len(c) - k] + x * g[k]) % mod

LEMMA ValueRounds ==
  ASSUME NEW c, Listing(c), NEW x
  PROVE  \E g : AreValues(g, c, x) /\ g[Len(c)] = ValueAt(c, x)
<1> DEFINE n == Len(c)
           h == CHOOSE h : Loop!IsUnrolling(h, "right", "value", x, 0, c, n)
<1>0. n \in Nat /\ DOMAIN c = 1..n BY ListingSeq DEF Listing
<1>1. Loop!IsUnrolling(h, "right", "value", x, 0, c, n) BY <1>0, Loop!UnrollingExists
<1>2. ValueAt(c, x) = h[1..n]
  BY <1>0 DEF ValueAt, FoldRight, MapThenFoldSet, Round, Max, Min, Loop!Max, Loop!Min,
     Loop!IsUnrolling, Loop!Unrolled, Loop!LastTaken
<1> HIDE DEF h
<1>3. PICK g : Loop!AreRounds(g, "right", "value", x, 0, c, n) /\ g[n] = h[1..n]
  BY ONLY <1>0, <1>1, Loop!RoundByRound
<1>r. /\ g[0] = 0
      /\ \A k \in 0..(n - 1) : g[k + 1] = Round("value", x, c[n - k], g[k])
  BY <1>3 DEF Loop!AreRounds
<1>4. \A k \in 0..(n - 1) : g[k + 1] = (c[n - k] + x * g[k]) % mod BY <1>r DEF Round
<1>5. AreValues(g, c, x) BY <1>r, <1>4 DEF AreValues
<1> QED BY <1>2, <1>3, <1>5

\* All of it is below the modulus.
LEMMA ValuesTyped ==
  ASSUME NEW c, Ints(c), NEW x \in Int, NEW g, AreValues(g, c, x)
  PROVE  \A k \in 0..Len(c) : g[k] \in Int /\ g[k] \in Felt
<1> DEFINE n == Len(c)
           T == {k \in Nat : k <= n => g[k] \in Felt}
<1>0. n \in Nat /\ mod \in Nat \ {0} /\ Felt \subseteq Int
  BY ModAssumption DEF Ints, Listing, Felt
<1>1. 0 \in T BY <1>0, ModAssumption DEF AreValues, Felt
<1>2. ASSUME NEW k \in T PROVE k + 1 \in T
  <2> SUFFICES ASSUME k + 1 <= n PROVE g[k + 1] \in Felt OBVIOUS
  <2>0. k \in Nat /\ k <= n
    <3>1. k \in Nat OBVIOUS
    <3> QED BY <1>0, <3>1
  <2>a. g[k] \in Felt BY <2>0
  <2>b. k \in 0..(n - 1) /\ n - k \in 1..n BY <1>0, <2>0
  <2>1. k \in 0..(n - 1) /\ n - k \in 1..n /\ g[k] \in Int BY <1>0, <2>a, <2>b
  <2>2. c[n - k] \in Int BY <2>1 DEF Ints
  <2>3. c[n - k] + x * g[k] \in Int BY <2>1, <2>2, SMT
  <2>4. g[k + 1] = (c[n - k] + x * g[k]) % mod BY <2>1 DEF AreValues
  <2>5. \A y \in Int : y % mod \in Felt BY <1>0, Remainder DEF Felt
  <2> QED BY <2>3, <2>4, <2>5
<1> HIDE DEF T
<1>t. T \in SUBSET Nat BY DEF T
<1>3. T = Nat BY <1>t, <1>1, <1>2, InductionOnNat
<1>4. ASSUME NEW k \in 0..n PROVE g[k] \in Felt
  <2>1. k \in Nat /\ k <= n BY <1>0
  <2> QED BY <1>3, <2>1 DEF T
<1> QED BY <1>0, <1>4

\* The coefficients with a zero on either side.
Coeffs(c) == [i \in 0..(Len(c) + 1) |-> IF i \in 1..Len(c) THEN c[i] ELSE 0]

\* A coefficient of the product with a monomial.
LEMMA MonomialTyped ==
  ASSUME NEW c, Ints(c), NEW a \in Int
  PROVE  /\ Ints(MulMonicMonomial(c, a)) /\ Len(MulMonicMonomial(c, a)) = Len(c) + 1
         /\ \A i \in 0..(Len(c) + 1) : Coeffs(c)[i] \in Int
         /\ \A i \in 1..(Len(c) + 1) :
              MulMonicMonomial(c, a)[i] = (Coeffs(c)[i - 1] - a * Coeffs(c)[i]) % mod
<1> DEFINE n == Len(c)
           m == MulMonicMonomial(c, a)
           d == c \o <<0>>
           e == Coeffs(c)
<1> USE DEF Coeffs
<1>0. Listing(c) /\ n \in Nat /\ mod \in Nat \ {0} BY ModAssumption DEF Ints, Listing
<1>1. Listing(m) /\ Len(m) = n + 1 BY <1>0, MonomialLength
<1>2. Listing(<<0>>) /\ Len(<<0>>) = 1
  <2>1. <<0>> \in Seq({0}) /\ Len(<<0>>) = 1 OBVIOUS
  <2> QED BY <2>1, ListingSeq
<1>3. Len(d) = n + 1 /\ d = [i \in 1..(n + 1) |-> IF i <= n THEN c[i] ELSE <<0>>[i - n]]
  <2>1. d = [i \in 1..(n + 1) |-> IF i <= n THEN c[i] ELSE <<0>>[i - n]] BY <1>0, <1>2
  <2>2. Len(d) = n + 1 BY <1>0, <1>2, ListingConcat
  <2> QED BY <2>1, <2>2
<1>4. \A i \in 0..(n + 1) : e[i] \in Int BY <1>0 DEF Ints
<1>5. \A i \in 1..(n + 1) : d[i] = e[i]
  <2> SUFFICES ASSUME NEW i \in 1..(n + 1) PROVE d[i] = e[i] OBVIOUS
  <2> HIDE DEF d
  <2>1. CASE i <= n BY <1>0, <1>3, <2>1
  <2>2. CASE i = n + 1 BY <1>0, <1>3, <2>2
  <2> QED BY <1>0, <2>1, <2>2
<1>6. ASSUME NEW i \in 1..(n + 1)
      PROVE  e[i - 1] - a * e[i] \in Int /\ m[i] = (e[i - 1] - a * e[i]) % mod
  <2> HIDE DEF d
  <2>1. (IF i > 1 THEN d[i - 1] ELSE 0) = e[i - 1]
    <3>1. CASE i > 1
      <4>1. i - 1 \in 1..(n + 1) BY <1>0, <3>1
      <4> QED BY <1>5, <3>1, <4>1
    <3>2. CASE ~ (i > 1)
      <4>1. i - 1 = 0 /\ e[0] = 0 BY <1>0, <3>2
      <4> QED BY <3>2, <4>1
    <3> QED BY <3>1, <3>2
  <2>2. m[i] = ((IF i > 1 THEN d[i - 1] ELSE 0) - a * d[i]) % mod BY <1>3 DEF MulMonicMonomial, d
  <2>3. e[i - 1] \in Int /\ e[i] \in Int
    <3>1. i \in 0..(n + 1) /\ i - 1 \in 0..(n + 1) BY <1>0
    <3> QED BY <1>4, <3>1
  <2>4. e[i - 1] - a * e[i] \in Int BY <2>3, SMT
  <2> HIDE DEF m
  <2> QED BY <1>5, <2>1, <2>2, <2>4
<1>7. Ints(m)
  <2>1. ASSUME NEW i \in 1..Len(m) PROVE m[i] \in Int
    <3>1. PICK y \in Int : m[i] = y % mod BY <1>1, <1>6
    <3>2. y % mod \in Int BY <1>0, Remainder, SMT
    <3> QED BY <3>1, <3>2
  <2> QED BY <1>1, <2>1 DEF Ints
<1> QED BY <1>1, <1>4, <1>6, <1>7

\* One coefficient further in Horner's method on the product.
LEMMA MonomialStep ==
  ASSUME NEW q \in Nat \ {0}, NEW x \in Int, NEW a \in Int, NEW u \in Int, NEW v \in Int,
         NEW y \in Int, NEW z \in Int, NEW h \in Int,
         Congruent(q, h, v + (x - a) * y), Congruent(q, z, v + x * y)
  PROVE  Congruent(q, (((u - a * v) % q) + x * h) % q, u + (x - a) * z)
<1>1. PICK k \in Int : h = (v + (x - a) * y) + q * k BY DEF Congruent
<1>2. PICK l \in Int : z = (v + x * y) + q * l BY DEF Congruent
<1> DEFINE p == u - a * v
<1>3. p \in Int BY SMT
<1>4. PICK r \in Int : r = p % q
  <2> HIDE DEF p
  <2>1. p % q \in 0..(q - 1) BY <1>3, Remainder
  <2>2. p % q \in Int BY <2>1
  <2> QED BY <2>2
<1>5. Congruent(q, r, p)
  <2> HIDE DEF p
  <2> QED BY <1>3, <1>4, Congruence
<1>6. PICK j \in Int : r = p + q * j BY <1>5 DEF Congruent
<1>7. r + x * h = (u + (x - a) * z) + q * (j + x * k - (x - a) * l)
  BY <1>1, <1>2, <1>6, SMT
<1>8. j + x * k - (x - a) * l \in Int /\ r + x * h \in Int /\ u + (x - a) * z \in Int BY SMT
<1>9. Congruent(q, r + x * h, u + (x - a) * z) BY <1>7, <1>8 DEF Congruent
<1>10. Congruent(q, (r + x * h) % q, u + (x - a) * z)
  <2>1. PICK s \in Int, t \in Int : s = r + x * h /\ t = u + (x - a) * z BY <1>8
  <2>2. Congruent(q, s, t) BY <1>9, <2>1
  <2>3. Congruent(q, s % q, t)
    BY ONLY q \in Nat \ {0}, s \in Int, t \in Int, <2>2, CongruentRemainder
  <2> QED BY <2>1, <2>3
<1> QED BY <1>4, <1>10

\* The value of a product with a monomial.
LEMMA MonomialValue ==
  ASSUME NEW c, Ints(c), NEW a \in Int, NEW x \in Int
  PROVE  /\ ValueAt(c, x) \in Int /\ ValueAt(MulMonicMonomial(c, a), x) \in Int
         /\ Congruent(mod, ValueAt(MulMonicMonomial(c, a), x), (x - a) * ValueAt(c, x))
<1> DEFINE n == Len(c)
           m == MulMonicMonomial(c, a)
           e == Coeffs(c)
<1>0. Listing(c) /\ n \in Nat /\ mod \in Nat \ {0} BY ModAssumption DEF Ints, Listing
<1>1. /\ Ints(m) /\ Len(m) = n + 1 /\ \A i \in 0..(n + 1) : e[i] \in Int
      /\ \A i \in 1..(n + 1) : m[i] = (e[i - 1] - a * e[i]) % mod
  BY MonomialTyped
<1>2. e[0] = 0 /\ e[n + 1] = 0 BY <1>0 DEF Coeffs
<1> HIDE DEF m, e
<1>3. PICK g : AreValues(g, c, x) /\ g[n] = ValueAt(c, x) BY <1>0, ValueRounds
<1>4. PICK h : AreValues(h, m, x) /\ h[n + 1] = ValueAt(m, x)
  BY <1>1, ValueRounds DEF Ints
<1>5. \A k \in 0..n : g[k] \in Int BY <1>3, ValuesTyped
<1>6. \A k \in 0..(n + 1) : h[k] \in Int BY <1>1, <1>4, ValuesTyped
<1>7. g[0] = 0 /\ \A k \in 0..(n - 1) : g[k + 1] = (c[n - k] + x * g[k]) % mod
  BY <1>3 DEF AreValues
<1>8. h[0] = 0 /\ \A k \in 0..n : h[k + 1] = (m[(n + 1) - k] + x * h[k]) % mod
  <2>1. 0..((n + 1) - 1) = 0..n BY <1>0
  <2> QED BY <1>1, <1>4, <2>1 DEF AreValues
<1>9. ASSUME NEW k \in 0..n
      PROVE  h[k + 1] = (((e[n - k] - a * e[(n + 1) - k]) % mod) + x * h[k]) % mod
  <2>1. (n + 1) - k \in 1..(n + 1) /\ ((n + 1) - k) - 1 = n - k BY <1>0
  <2>2. m[(n + 1) - k] = (e[n - k] - a * e[(n + 1) - k]) % mod BY <1>1, <2>1
  <2> QED BY <1>8, <2>2
<1> DEFINE P(k) == Congruent(mod, h[k + 1], e[n - k] + (x - a) * g[k])
           T == {k \in Nat : k <= n => P(k)}
<1>10. 0 \in T
  <2>1. PICK u \in Int : u = e[n] BY <1>0, <1>1
  <2>2. h[0 + 1] = (((u - a * 0) % mod) + x * 0) % mod
    <3>1. 0 \in 0..n /\ n - 0 = n /\ (n + 1) - 0 = n + 1 BY <1>0
    <3> QED BY <1>2, <1>8, <1>9, <2>1, <3>1
  <2>3. (x - a) * 0 = 0 /\ x * 0 = 0 /\ 0 + 0 = 0 BY SMT
  <2>4. Congruent(mod, 0, 0) BY <1>0, Congruence
  <2>5. Congruent(mod, (((u - a * 0) % mod) + x * 0) % mod, u + (x - a) * 0)
    <3>1. Congruent(mod, 0, 0 + (x - a) * 0) /\ Congruent(mod, 0, 0 + x * 0) BY <2>3, <2>4
    <3> QED BY ONLY <1>0, x \in Int, a \in Int, u \in Int, 0 \in Int, <3>1, MonomialStep
  <2>6. n - 0 = n BY <1>0
  <2> QED BY <1>7, <2>1, <2>2, <2>5, <2>6
<1>11. ASSUME NEW k \in T PROVE k + 1 \in T
  <2>0. k \in Nat BY <1>11
  <2> SUFFICES ASSUME k + 1 <= n PROVE P(k + 1) BY <2>0
  <2>1. k \in 0..n /\ k + 1 \in 0..n /\ k \in 0..(n - 1) /\ n - k \in 1..n /\ n - k \in 0..(n + 1)
        /\ n - (k + 1) \in 0..(n + 1) /\ (n + 1) - (k + 1) = n - k /\ k + 1 \in 0..(n + 1)
    BY <1>0, <2>0
  <2>2. P(k) BY <1>11, <2>0, <2>1
  <2>3. PICK u \in Int, v \in Int : u = e[n - (k + 1)] /\ v = e[n - k] BY <1>1, <2>1
  <2>4. PICK y \in Int, z \in Int, f \in Int : y = g[k] /\ z = g[k + 1] /\ f = h[k + 1]
    BY <1>5, <1>6, <2>1
  <2>5. Congruent(mod, f, v + (x - a) * y) BY <2>2, <2>3, <2>4
  <2>6. z = (v + x * y) % mod
    <3>1. v = c[n - k] BY <2>1, <2>3 DEF e, Coeffs
    <3> QED BY <1>7, <2>1, <2>4, <3>1
  <2>7. Congruent(mod, z, v + x * y)
    <3>1. PICK w \in Int : w = v + x * y BY SMT
    <3> QED BY <1>0, <2>6, <3>1, Congruence
  <2>8. h[(k + 1) + 1] = (((u - a * v) % mod) + x * f) % mod BY <1>9, <2>1, <2>3, <2>4
  <2>9. Congruent(mod, (((u - a * v) % mod) + x * f) % mod, u + (x - a) * z)
    BY ONLY <1>0, x \in Int, a \in Int, u \in Int, v \in Int, y \in Int, z \in Int, f \in Int,
       <2>5, <2>7, MonomialStep
  <2> QED BY <2>3, <2>4, <2>8, <2>9
<1> HIDE DEF P
<1>t. T \in SUBSET Nat OBVIOUS
<1> HIDE DEF T
<1>12. T = Nat BY <1>t, <1>10, <1>11, InductionOnNat
<1>13. P(n) BY <1>0, <1>12 DEF T
<1>14. g[n] \in Int /\ h[n + 1] \in Int BY <1>0, <1>5, <1>6
<1>15. Congruent(mod, h[n + 1], (x - a) * g[n])
  <2>1. n - n = 0 BY <1>0
  <2>2. (x - a) * g[n] \in Int BY <1>14, SMT
  <2>3. 0 + (x - a) * g[n] = (x - a) * g[n] BY <2>2
  <2> QED BY <1>2, <1>13, <2>1, <2>3 DEF P
<1> QED BY <1>3, <1>4, <1>14, <1>15 DEF m

\* The polynomial with the roots vanishes at those and nowhere else.
LEMMA RootsValue ==
  ASSUME NEW roots, Ints(roots), NEW x \in Int
  PROVE  /\ Ints(PolynWithRoots(roots)) /\ ValueAt(PolynWithRoots(roots), x) \in Felt
         /\ ValueAt(PolynWithRoots(roots), x) = 0
              <=> \E k \in 1..Len(roots) : (x - roots[k]) % mod = 0
<1> DEFINE n == Len(roots)
           Zero(k) == \E j \in 1..k : (x - roots[j]) % mod = 0
<1>0. Listing(roots) /\ n \in Nat /\ mod \in Nat \ {0} /\ mod \in Nat /\ mod >= 2
  BY ModAssumption DEF Ints, Listing
<1>1. PICK g : /\ g[0] = <<1>> /\ g[n] = PolynWithRoots(roots)
               /\ \A k \in 0..(n - 1) : g[k + 1] = MulMonicMonomial(g[k], roots[k + 1])
  BY <1>0, RootRounds
<1> DEFINE P(k) == /\ Ints(g[k]) /\ ValueAt(g[k], x) \in Int
                   /\ ValueAt(g[k], x) % mod = 0 <=> Zero(k)
           T == {k \in Nat : k <= n => P(k)}
<1>2. 0 \in T
  <2>1. <<1>> \in Seq({1}) /\ Len(<<1>>) = 1 /\ <<1>>[1] = 1 OBVIOUS
  <2>2. Ints(<<1>>)
    <3>1. PICK o : o = <<1>> OBVIOUS
    <3>2. Listing(o) /\ Len(o) = 1 /\ o[1] = 1 BY <2>1, <3>1, ListingSeq
    <3>3. Ints(o) BY <3>2 DEF Ints
    <3> QED BY <3>1, <3>3
  <2>3. PICK v : AreValues(v, <<1>>, x) /\ v[1] = ValueAt(<<1>>, x)
    BY <2>1, <2>2, ValueRounds DEF Ints
  <2>4. v[0] = 0 /\ v[0 + 1] = (<<1>>[1 - 0] + x * v[0]) % mod
    <3>1. 0 \in 0..(1 - 1) OBVIOUS
    <3> QED BY <2>1, <2>3, <3>1 DEF AreValues
  <2>5. v[1] = 1 % mod
    <3>1. x * 0 = 0 BY SMT
    <3>2. 1 - 0 = 1 /\ 0 + 1 = 1 /\ 1 + 0 = 1 OBVIOUS
    <3> QED BY <2>1, <2>4, <3>1, <3>2
  <2>6. 1 % mod = 1 BY <1>0, SMT
  <2>7. ~Zero(0) OBVIOUS
  <2> QED BY <1>1, <2>2, <2>3, <2>5, <2>6, <2>7
<1>3. ASSUME NEW k \in T PROVE k + 1 \in T
  <2>0. k \in Nat BY <1>3
  <2> SUFFICES ASSUME k + 1 <= n PROVE P(k + 1) BY <2>0
  <2>1. k \in 0..(n - 1) /\ k + 1 \in 1..n /\ k <= n BY <1>0, <2>0
  <2>2. P(k) BY <1>3, <2>0, <2>1
  <2>3. PICK p : p = g[k] OBVIOUS
  <2>4. PICK a \in Int : a = roots[k + 1] BY <2>1 DEF Ints
  <2>5. g[k + 1] = MulMonicMonomial(p, a) BY <1>1, <2>1, <2>3, <2>4
  <2>6. Ints(p) BY <2>2, <2>3
  <2>7. /\ ValueAt(p, x) \in Int /\ ValueAt(g[k + 1], x) \in Int
        /\ Congruent(mod, ValueAt(g[k + 1], x), (x - a) * ValueAt(p, x))
    BY <2>5, <2>6, MonomialValue
  <2>8. Ints(g[k + 1]) BY <2>5, <2>6, MonomialTyped
  <2>9. PICK y \in Int, z \in Int, d \in Int :
          y = ValueAt(p, x) /\ z = ValueAt(g[k + 1], x) /\ d = x - a
    BY <2>7
  <2>10. z % mod = (d * y) % mod
    <3>1. PICK f \in Int : f = d * y BY SMT
    <3>2. Congruent(mod, z, f) BY <2>7, <2>9, <3>1
    <3>3. z % mod = f % mod BY ONLY <1>0, z \in Int, f \in Int, <3>2, Congruence
    <3> QED BY <3>1, <3>3
  <2>11. (d * y) % mod = 0 <=> d % mod = 0 \/ y % mod = 0 BY <1>0, ModAssumption, EuclidBoth
  <2>12. y % mod = 0 <=> Zero(k) BY <2>2, <2>3, <2>9
  <2>13. Zero(k + 1) <=> Zero(k) \/ d % mod = 0
    <3>1. \A j : j \in 1..(k + 1) <=> j \in 1..k \/ j = k + 1 BY <2>0
    <3> QED BY <2>4, <2>9, <3>1
  <2> HIDE DEF Zero
  <2> QED BY <2>8, <2>9, <2>10, <2>11, <2>12, <2>13
<1> HIDE DEF P
<1>t. T \in SUBSET Nat OBVIOUS
<1> HIDE DEF T
<1>4. T = Nat BY <1>t, <1>2, <1>3, InductionOnNat
<1>5. P(n) BY <1>0, <1>4 DEF T
<1> DEFINE p == PolynWithRoots(roots)
<1>6. Ints(p) /\ (ValueAt(p, x) % mod = 0 <=> Zero(n)) BY <1>1, <1>5 DEF P
<1> HIDE DEF p
<1>7. ValueAt(p, x) \in Felt
  <2>1. Listing(p) /\ Len(p) \in Nat BY <1>6 DEF Ints, Listing
  <2>2. PICK v : AreValues(v, p, x) /\ v[Len(p)] = ValueAt(p, x) BY <2>1, ValueRounds
  <2>3. Len(p) \in 0..Len(p) BY <2>1
  <2> QED BY <1>6, <2>2, <2>3, ValuesTyped
<1>8. ValueAt(p, x) % mod = ValueAt(p, x)
  <2>1. PICK y : y = ValueAt(p, x) OBVIOUS
  <2>2. y \in 0..(mod - 1) BY <1>7, <2>1 DEF Felt
  <2>3. y % mod = y BY ONLY <1>0, <2>2, SMT
  <2> QED BY <2>1, <2>3
<1> QED BY <1>6, <1>7, <1>8 DEF p

\* A polynomial with zeros behind its last coefficient.
Padded(p, m) == [i \in 1..m |-> IF i <= Len(p) THEN p[i] ELSE 0]

LEMMA PaddedValue ==
  ASSUME NEW p, Ints(p), NEW m \in Nat, Len(p) <= m, NEW x \in Int
  PROVE  ValueAt(Padded(p, m), x) = ValueAt(p, x)
<1> DEFINE n == Len(p)
           c == Padded(p, m)
<1>0. Listing(p) /\ n \in Nat /\ mod \in Nat \ {0} /\ n <= m /\ m - n \in Nat
  BY ModAssumption DEF Ints, Listing
<1>1. Listing(c) /\ Len(c) = m /\ \A i \in 1..m : c[i] = IF i <= n THEN p[i] ELSE 0
  <2>1. c = [i \in 1..m |-> c[i]] /\ \A i \in 1..m : c[i] = IF i <= n THEN p[i] ELSE 0 BY DEF Padded
  <2> HIDE DEF c
  <2> QED BY <2>1, ListingOf
<1> HIDE DEF c
<1>2. PICK g : AreValues(g, p, x) /\ g[n] = ValueAt(p, x) BY <1>0, ValueRounds
<1>3. PICK h : AreValues(h, c, x) /\ h[m] = ValueAt(c, x) BY <1>1, ValueRounds
<1>4. g[0] = 0 /\ \A k \in 0..(n - 1) : g[k + 1] = (p[n - k] + x * g[k]) % mod
  BY <1>2 DEF AreValues
<1>5. h[0] = 0 /\ \A k \in 0..(m - 1) : h[k + 1] = (c[m - k] + x * h[k]) % mod
  BY <1>1, <1>3 DEF AreValues
<1> DEFINE T == {k \in Nat : k <= m - n => h[k] = 0}
<1>6. 0 \in T BY <1>5
<1>7. ASSUME NEW k \in T PROVE k + 1 \in T
  <2>0. k \in Nat BY <1>7
  <2> SUFFICES ASSUME k + 1 <= m - n PROVE h[k + 1] = 0 BY <2>0
  <2>1. k \in 0..(m - 1) /\ m - k \in 1..m /\ ~(m - k <= n) /\ k <= m - n BY <1>0, <2>0
  <2>2. h[k] = 0 BY <1>7, <2>0, <2>1
  <2>3. h[k + 1] = (0 + x * 0) % mod BY <1>1, <1>5, <2>1, <2>2
  <2>4. x * 0 = 0 /\ 0 + 0 = 0 BY SMT
  <2>5. 0 % mod = 0 BY <1>0, SMT
  <2> QED BY <2>3, <2>4, <2>5
<1>t. T \in SUBSET Nat OBVIOUS
<1> HIDE DEF T
<1>8. T = Nat BY <1>t, <1>6, <1>7, InductionOnNat
<1>9. h[m - n] = 0 BY <1>0, <1>8 DEF T
<1> DEFINE U == {k \in Nat : k <= n => h[(m - n) + k] = g[k]}
<1>10. 0 \in U
  <2>1. (m - n) + 0 = m - n BY <1>0
  <2> QED BY <1>4, <1>9, <2>1
<1>11. ASSUME NEW k \in U PROVE k + 1 \in U
  <2>0. k \in Nat BY <1>11
  <2> SUFFICES ASSUME k + 1 <= n PROVE h[(m - n) + (k + 1)] = g[k + 1] BY <2>0
  <2>1. PICK j \in Nat : j = (m - n) + k BY <1>0, <2>0
  <2>2. /\ j \in 0..(m - 1) /\ m - j = n - k /\ n - k \in 1..m /\ n - k <= n /\ k <= n
        /\ k \in 0..(n - 1) /\ (m - n) + (k + 1) = j + 1
    BY <1>0, <2>0, <2>1
  <2>3. h[j] = g[k] BY <1>11, <2>0, <2>1, <2>2
  <2>4. c[m - j] = p[n - k] BY <1>1, <2>2
  <2>5. h[j + 1] = (c[m - j] + x * h[j]) % mod BY <1>5, <2>2
  <2>6. g[k + 1] = (p[n - k] + x * g[k]) % mod BY <1>4, <2>2
  <2> QED BY <2>2, <2>3, <2>4, <2>5, <2>6
<1>u. U \in SUBSET Nat OBVIOUS
<1> HIDE DEF U
<1>12. U = Nat BY <1>u, <1>10, <1>11, InductionOnNat
<1>13. h[(m - n) + n] = g[n] BY <1>0, <1>12 DEF U
<1>14. (m - n) + n = m BY <1>0
<1> QED BY <1>2, <1>3, <1>13, <1>14 DEF c

-----------------------------------------------------------------------------
(* The interpolation polynomial takes the value of each point.  The Newton     *)
(* form of the divided differences does not depend on which end the last point *)
(* is added at, so that it takes the value of the first point and of the last. *)

\* The divided differences, unfolded.
LEMMA Differences ==
  ASSUME NEW points, NEW values, Len(points) \in Nat \ {0}
  PROVE  LET n == Len(points)
             dd == DividedDifferences(points, values)
         IN  /\ dd[0] = values
             /\ \A j \in 1..(n - 1) : \A i \in 1..(n - j) :
                  dd[j][i] = ((dd[j - 1][i + 1] - dd[j - 1][i])
                               * InverseMod((points[i + j] - points[i]) % mod)) % mod
<1> DEFINE n == Len(points)
           Row(p, j) == [i \in 1..(n - j) |->
                          ((p[i + 1] - p[i])
                             * InverseMod((points[i + j] - points[i]) % mod)) % mod]
           Are(f, m) == f = [j \in 0..m |-> IF j = 0 THEN values ELSE Row(f[j - 1], j)]
           U == {m \in Nat : \E f : Are(f, m)}
           dd == DividedDifferences(points, values)
<1>0. n \in Nat \ {0} /\ n - 1 \in Nat OBVIOUS
<1>1. 0 \in U
  <2> DEFINE f == [j \in 0..0 |-> values]
  <2>1. Are(f, 0)
    <3>1. \A j \in 0..0 : j = 0 OBVIOUS
    <3>2. f = [j \in 0..0 |-> IF j = 0 THEN values ELSE Row(f[j - 1], j)] BY <3>1
    <3> QED BY <3>2
  <2> HIDE DEF Are, f
  <2> QED BY <2>1
<1>2. ASSUME NEW m \in U PROVE m + 1 \in U
  <2>0. m \in Nat BY <1>2
  <2>1. PICK f : Are(f, m) BY <1>2
  <2> DEFINE g == [j \in 0..(m + 1) |-> IF j <= m THEN f[j] ELSE Row(f[j - 1], j)]
  <2>2. ASSUME NEW j \in 0..(m + 1) PROVE g[j] = IF j = 0 THEN values ELSE Row(g[j - 1], j)
    <3>1. CASE j <= m
      <4>1. j \in 0..m BY <2>0, <3>1
      <4>2. f[j] = IF j = 0 THEN values ELSE Row(f[j - 1], j) BY <2>1, <4>1
      <4>3. j # 0 => Row(g[j - 1], j) = Row(f[j - 1], j)
        <5>1. j # 0 => g[j - 1] = f[j - 1] BY <2>0, <3>1
        <5> HIDE DEF Row, g
        <5> QED BY <5>1
      <4>4. g[j] = f[j] BY <3>1
      <4> HIDE DEF Row, g
      <4> QED BY <4>2, <4>3, <4>4
    <3>2. CASE ~(j <= m)
      <4>1. g[j] = Row(f[j - 1], j) /\ j # 0 BY <2>0, <3>2
      <4>2. g[j - 1] = f[j - 1] BY <2>0, <3>2
      <4>3. Row(g[j - 1], j) = Row(f[j - 1], j)
        <5> HIDE DEF Row, g
        <5> QED BY <4>2
      <4> HIDE DEF Row, g
      <4> QED BY <4>1, <4>3
    <3> QED BY <3>1, <3>2
  <2>3. g = [j \in 0..(m + 1) |-> g[j]] OBVIOUS
  <2> HIDE DEF g, Row
  <2>4. Are(g, m + 1) BY <2>2, <2>3
  <2> HIDE DEF Are
  <2> QED BY <2>0, <2>4
<1> HIDE DEF Are
<1>t. U \in SUBSET Nat OBVIOUS
<1>3. U = Nat
  <2> HIDE DEF U
  <2> QED BY <1>t, <1>1, <1>2, InductionOnNat
<1> DEFINE f == CHOOSE f : Are(f, n - 1)
<1>4. Are(f, n - 1) BY <1>0, <1>3
<1>5. dd = f BY DEF DividedDifferences, Are
<1> HIDE DEF f, dd
<1>6. \A j \in 0..(n - 1) : dd[j] = IF j = 0 THEN values ELSE Row(dd[j - 1], j)
  <2> HIDE DEF Row
  <2> QED BY <1>4, <1>5 DEF Are
<1>7. dd[0] = values
  <2>1. 0 \in 0..(n - 1) BY <1>0
  <2> QED BY <1>6, <2>1
<1>8. ASSUME NEW j \in 1..(n - 1), NEW i \in 1..(n - j)
      PROVE  dd[j][i] = ((dd[j - 1][i + 1] - dd[j - 1][i])
                          * InverseMod((points[i + j] - points[i]) % mod)) % mod
  <2>1. dd[j] = Row(dd[j - 1], j)
    <3>1. j \in 0..(n - 1) /\ j # 0 BY <1>0
    <3> HIDE DEF Row
    <3> QED BY <1>6, <3>1
  <2> QED BY <2>1
<1> QED BY <1>7, <1>8 DEF dd

\* They are field elements, and each times the distance of its points is a difference.
LEMMA DifferenceTyped ==
  ASSUME InversesRight, NEW points, NEW values, Ints(points), Ints(values), Len(points) # 0,
         Len(values) = Len(points), \A k \in 1..Len(points) : points[k] \in Felt,
         \A k, l \in 1..Len(points) : points[k] = points[l] => k = l
  PROVE  LET n == Len(points)
             dd == DividedDifferences(points, values)
         IN  /\ \A j \in 0..(n - 1) : \A i \in 1..(n - j) : dd[j][i] \in Int
             /\ \A j \in 1..(n - 1) : \A i \in 1..(n - j) :
                  Congruent(mod, dd[j][i] * (points[i + j] - points[i]),
                            dd[j - 1][i + 1] - dd[j - 1][i])
<1> DEFINE n == Len(points)
           dd == DividedDifferences(points, values)
<1>0. n \in Nat \ {0} /\ mod \in Nat \ {0} /\ mod >= 2
  BY ModAssumption DEF Ints, Listing
<1>1. /\ dd[0] = values
      /\ \A j \in 1..(n - 1) : \A i \in 1..(n - j) :
           dd[j][i] = ((dd[j - 1][i + 1] - dd[j - 1][i])
                        * InverseMod((points[i + j] - points[i]) % mod)) % mod
  BY <1>0, Differences
<1> HIDE DEF dd
<1> DEFINE Good(j) == \A i \in 1..(n - j) : dd[j][i] \in Int
           T == {j \in Nat : j <= n - 1 => Good(j)}
<1>2. 0 \in T BY <1>0, <1>1 DEF Ints
<1>i. ASSUME NEW j \in 1..(n - 1), NEW i \in 1..(n - j)
      PROVE  LET d == (points[i + j] - points[i]) % mod
             IN  /\ points[i + j] \in Felt /\ points[i] \in Felt
                 /\ d \in Felt \ {0} /\ InverseMod(d) \in Int /\ (d * InverseMod(d)) % mod = 1
  <2>1. i + j \in 1..n /\ i \in 1..n /\ i + j # i BY <1>0
  <2>2. PICK u \in Felt, v \in Felt : u = points[i + j] /\ v = points[i] BY <2>1
  <2>3. u # v BY <2>1, <2>2
  <2>4. u \in 0..(mod - 1) /\ v \in 0..(mod - 1) BY DEF Felt
  <2>5. (u - v) % mod \in 0..(mod - 1) /\ (u - v) % mod # 0 BY ONLY <1>0, <2>3, <2>4, SMT
  <2>6. PICK d : d = (u - v) % mod OBVIOUS
  <2>7. d \in Felt \ {0} BY <2>5, <2>6 DEF Felt
  <2>8. InverseMod(d) \in Felt /\ (d * InverseMod(d)) % mod = 1 BY <2>7 DEF InversesRight
  <2>9. Felt \subseteq Int BY <1>0 DEF Felt
  <2> QED BY <2>2, <2>6, <2>7, <2>8, <2>9
<1>3. ASSUME NEW j \in T PROVE j + 1 \in T
  <2>0. j \in Nat BY <1>3
  <2> SUFFICES ASSUME j + 1 <= n - 1, NEW i \in 1..(n - (j + 1)) PROVE dd[j + 1][i] \in Int BY <2>0
  <2>1. /\ j + 1 \in 1..(n - 1) /\ (j + 1) - 1 = j /\ j <= n - 1
        /\ i \in 1..(n - j) /\ i + 1 \in 1..(n - j)
    BY <1>0, <2>0
  <2>2. Good(j) BY <1>3, <2>0, <2>1
  <2>3. PICK a \in Int, b \in Int : a = dd[j][i + 1] /\ b = dd[j][i] BY <2>1, <2>2
  <2>4. PICK c \in Int : c = InverseMod((points[i + (j + 1)] - points[i]) % mod) BY <1>i, <2>1
  <2>5. PICK y \in Int : y = (a - b) * c BY SMT
  <2>6. dd[j + 1][i] = y % mod BY <1>1, <2>1, <2>3, <2>4, <2>5
  <2>7. y % mod \in 0..(mod - 1) BY <1>0, Remainder
  <2> QED BY <1>0, <2>6, <2>7
<1> HIDE DEF Good
<1>t. T \in SUBSET Nat OBVIOUS
<1>4. T = Nat
  <2> HIDE DEF T
  <2> QED BY <1>t, <1>2, <1>3, InductionOnNat
<1>5. \A j \in 0..(n - 1) : \A i \in 1..(n - j) : dd[j][i] \in Int
  <2> SUFFICES ASSUME NEW j \in 0..(n - 1) PROVE \A i \in 1..(n - j) : dd[j][i] \in Int OBVIOUS
  <2>1. Good(j) BY <1>0, <1>4
  <2> QED BY <2>1 DEF Good
<1>6. ASSUME NEW j \in 1..(n - 1), NEW i \in 1..(n - j)
      PROVE  Congruent(mod, dd[j][i] * (points[i + j] - points[i]), dd[j - 1][i + 1] - dd[j - 1][i])
  <2>1. j - 1 \in 0..(n - 1) /\ i + 1 \in 1..(n - (j - 1)) /\ i \in 1..(n - (j - 1)) BY <1>0
  <2>2. PICK a \in Int, b \in Int : a = dd[j - 1][i + 1] /\ b = dd[j - 1][i] BY <1>5, <2>1
  <2>3. Felt \subseteq Int BY <1>0 DEF Felt
  <2>4. PICK u \in Int, v \in Int : u = points[i + j] /\ v = points[i] BY <1>i, <2>3
  <2>5. PICK d \in Int, c \in Int : /\ d = (u - v) % mod /\ c = InverseMod(d)
                                    /\ (d * c) % mod = 1
    <3>1. (u - v) % mod \in Felt \ {0} /\ InverseMod((u - v) % mod) \in Int
          /\ (((u - v) % mod) * InverseMod((u - v) % mod)) % mod = 1
      BY <1>i, <2>4
    <3> QED BY <2>3, <3>1
  <2>6. dd[j][i] = ((a - b) * c) % mod BY <1>1, <2>2, <2>4, <2>5
  <2>7. PICK e \in Int : e = ((a - b) * c) % mod
    <3>1. (a - b) * c \in Int BY SMT
    <3>2. ((a - b) * c) % mod \in 0..(mod - 1) BY <1>0, <3>1, Remainder
    <3> QED BY <3>2
  <2>8. PICK k \in Int : e = (a - b) * c + mod * k
    <3>1. PICK y \in Int : y = (a - b) * c BY SMT
    <3>2. Congruent(mod, e, y) BY <1>0, <2>7, <3>1, Congruence
    <3>3. \E k \in Int : e = y + mod * k BY <3>2 DEF Congruent
    <3> QED BY <3>1, <3>3
  <2>9. PICK l \in Int : d = (u - v) + mod * l
    <3>1. PICK y \in Int : y = u - v OBVIOUS
    <3>2. Congruent(mod, d, y) BY <1>0, <2>5, <3>1, Congruence
    <3>3. \E m \in Int : d = y + mod * m BY <3>2 DEF Congruent
    <3> QED BY <3>1, <3>3
  <2>10. PICK r \in Int : d * c = 1 + mod * r
    <3>1. PICK y \in Int : y = d * c BY SMT
    <3>2. y = mod * (y \div mod) + (y % mod) /\ y \div mod \in Int BY <1>0, Remainder
    <3>3. PICK r \in Int : r = y \div mod BY <3>2
    <3>4. y % mod = 1 BY <2>5, <3>1
    <3>5. y = 1 + mod * r
      <4>1. y = mod * r + 1 BY <3>2, <3>3, <3>4
      <4> QED BY <4>1, <1>0, SMT
    <3> QED BY <3>1, <3>5
  <2>11. e * (u - v) = (a - b) + mod * ((a - b) * (r - c * l) + k * (u - v))
    BY ONLY <1>0, a \in Int, b \in Int, c \in Int, d \in Int, e \in Int, k \in Int,
       l \in Int, r \in Int, u \in Int, v \in Int, <2>8, <2>9, <2>10, SMT
  <2>12. (a - b) * (r - c * l) + k * (u - v) \in Int BY SMT
  <2>13. Congruent(mod, e * (u - v), a - b) BY <2>11, <2>12 DEF Congruent
  <2> QED BY <2>2, <2>4, <2>6, <2>7, <2>13
<1> QED BY <1>5, <1>6 DEF dd

\* The product of the distances of x from m points, the first of them point i.
Distances(points, x, i, m) ==
  ProductOnSet([t \in 1..Len(points) |-> x - points[t]], i..(i + m - 1))

\* The value at x of the Newton form for the points i..i+m.
NewtonForm(dd, points, x, i, m) ==
  SumFunctionOnSet([j \in 0..m |-> dd[j][i] * Distances(points, x, i, j)], 0..m)

LEMMA DistancesFacts ==
  ASSUME NEW points, Ints(points), NEW x \in Int, NEW i \in Nat \ {0}, NEW m \in Nat,
         i + m <= Len(points) + 1
  PROVE  /\ Distances(points, x, i, m) \in Int
         /\ m = 0 => Distances(points, x, i, m) = 1
         /\ m # 0 => /\ Distances(points, x, i, m) =
                          (x - points[i]) * Distances(points, x, i + 1, m - 1)
                     /\ Distances(points, x, i, m) =
                          Distances(points, x, i, m - 1) * (x - points[i + m - 1])
         /\ \A k \in i..(i + m - 1) : x = points[k] => Distances(points, x, i, m) = 0
<1> DEFINE n == Len(points)
           f == [t \in 1..n |-> x - points[t]]
           S == i..(i + m - 1)
<1>0. n \in Nat /\ i + m - 1 \in Int /\ S \subseteq 1..n
  <2>1. n \in Nat BY DEF Ints, Listing
  <2> QED BY <2>1
<1>1. IsFiniteSet(S)
  <2>1. i \in Int /\ i + m - 1 \in Int BY <1>0
  <2> QED BY <2>1, FS_Interval
<1>2. \A t \in S : f[t] \in Int /\ f[t] = x - points[t]
  <2> SUFFICES ASSUME NEW t \in S PROVE f[t] \in Int /\ f[t] = x - points[t] OBVIOUS
  <2>1. t \in 1..n BY <1>0
  <2>2. points[t] \in Int BY <2>1 DEF Ints
  <2>3. f[t] = x - points[t] BY <2>1
  <2> QED BY <2>2, <2>3
<1> HIDE DEF f, S
<1>3. /\ ProductOnSet(f, S) \in Int
      /\ S = {} => ProductOnSet(f, S) = 1
      /\ \A t \in S : ProductOnSet(f, S) = f[t] * ProductOnSet(f, S \ {t})
  BY <1>1, <1>2, ProductFacts
<1>4. Distances(points, x, i, m) = ProductOnSet(f, S) BY DEF Distances, f, S
<1>5. m = 0 => S = {} BY DEF S
<1>6. ASSUME m # 0
      PROVE  /\ i \in S /\ i + m - 1 \in S
             /\ ProductOnSet(f, S \ {i}) = Distances(points, x, i + 1, m - 1)
             /\ ProductOnSet(f, S \ {i + m - 1}) = Distances(points, x, i, m - 1)
  <2>1. i \in S /\ i + m - 1 \in S BY <1>6 DEF S
  <2>2. S \ {i} = (i + 1)..((i + 1) + (m - 1) - 1) BY <1>6 DEF S
  <2>3. S \ {i + m - 1} = i..(i + (m - 1) - 1) BY <1>6 DEF S
  <2> QED BY <2>1, <2>2, <2>3 DEF Distances, f
<1>7. ASSUME m # 0
      PROVE  /\ Distances(points, x, i, m) =
                  (x - points[i]) * Distances(points, x, i + 1, m - 1)
             /\ Distances(points, x, i, m) =
                  Distances(points, x, i, m - 1) * (x - points[i + m - 1])
  <2>1. /\ ProductOnSet(f, S) = f[i] * ProductOnSet(f, S \ {i})
        /\ ProductOnSet(f, S) = f[i + m - 1] * ProductOnSet(f, S \ {i + m - 1})
        /\ f[i] = x - points[i] /\ f[i + m - 1] = x - points[i + m - 1] /\ f[i + m - 1] \in Int
    BY <1>2, <1>3, <1>6, <1>7
  <2>2. ProductOnSet(f, S \ {i + m - 1}) \in Int
    <3>1. IsFiniteSet(S \ {i + m - 1}) BY <1>1, FS_RemoveElement
    <3> QED BY <1>2, <3>1, ProductFacts
  <2>3. \A u \in Int, v \in Int : u * v = v * u BY SMT
  <2> QED BY <1>4, <1>6, <1>7, <2>1, <2>2, <2>3
<1>8. ASSUME NEW k \in i..(i + m - 1), x = points[k] PROVE Distances(points, x, i, m) = 0
  <2>1. k \in S BY DEF S
  <2>2. f[k] = 0
    <3>1. k \in 1..n BY <1>0, <2>1
    <3>2. points[k] \in Int BY <3>1 DEF Ints
    <3>3. f[k] = x - points[k] BY <1>2, <2>1
    <3> QED BY <1>8, <3>2, <3>3
  <2>3. ProductOnSet(f, S \ {k}) \in Int
    <3>1. IsFiniteSet(S \ {k}) BY <1>1, FS_RemoveElement
    <3> QED BY <1>2, <3>1, ProductFacts
  <2>4. \A v \in Int : 0 * v = 0 BY SMT
  <2> QED BY <1>3, <1>4, <2>1, <2>2, <2>3, <2>4
<1> QED BY <1>3, <1>4, <1>5, <1>7, <1>8

\* The Newton form, one point after the other.
LEMMA FormFacts ==
  ASSUME NEW points, Ints(points), NEW x \in Int, NEW dd,
         NEW i \in Nat \ {0}, NEW m \in Nat, i + m <= Len(points),
         \A j \in 0..m : dd[j][i] \in Int
  PROVE  /\ NewtonForm(dd, points, x, i, m) \in Int /\ NewtonForm(dd, points, x, i, m - 1) \in Int
         /\ NewtonForm(dd, points, x, i, m) =
              NewtonForm(dd, points, x, i, m - 1) + dd[m][i] * Distances(points, x, i, m)
         /\ m = 0 => NewtonForm(dd, points, x, i, m - 1) = 0
<1> DEFINE f == [j \in 0..m |-> dd[j][i] * Distances(points, x, i, j)]
           e == [j \in 0..(m - 1) |-> dd[j][i] * Distances(points, x, i, j)]
<1>0. Len(points) \in Nat BY DEF Ints, Listing
<1>1. \A j \in 0..m : f[j] \in Int /\ f[j] = dd[j][i] * Distances(points, x, i, j)
  <2> SUFFICES ASSUME NEW j \in 0..m
               PROVE  f[j] \in Int /\ f[j] = dd[j][i] * Distances(points, x, i, j)
    OBVIOUS
  <2>1. j \in Nat /\ i + j <= Len(points) + 1 BY <1>0
  <2>2. Distances(points, x, i, j) \in Int BY <2>1, DistancesFacts
  <2>3. \A u \in Int, v \in Int : u * v \in Int BY SMT
  <2> QED BY <2>2, <2>3
<1>2. \A j \in 0..(m - 1) : e[j] = f[j] OBVIOUS
<1> HIDE DEF f, e
<1>3. IsFiniteSet(0..m) /\ IsFiniteSet(0..(m - 1)) BY FS_Interval
<1>4. m \in 0..m /\ (0..m) \ {m} = 0..(m - 1) /\ (m = 0 => 0..(m - 1) = {}) OBVIOUS
<1>5. /\ SumFunctionOnSet(f, 0..m) \in Int
      /\ SumFunctionOnSet(f, 0..m) = f[m] + SumFunctionOnSet(f, 0..(m - 1))
  <2>1. /\ SumFunctionOnSet(f, 0..m) \in Int
        /\ \A j \in 0..m : SumFunctionOnSet(f, 0..m) = f[j] + SumFunctionOnSet(f, (0..m) \ {j})
    BY <1>1, <1>3, SumFacts
  <2> QED BY <1>4, <2>1
<1>6. /\ SumFunctionOnSet(f, 0..(m - 1)) \in Int
      /\ m = 0 => SumFunctionOnSet(f, 0..(m - 1)) = 0
  <2>1. \A j \in 0..(m - 1) : f[j] \in Int BY <1>1
  <2> QED BY <1>3, <1>4, <2>1, SumFacts
<1>7. SumFunctionOnSet(e, 0..(m - 1)) = SumFunctionOnSet(f, 0..(m - 1)) BY <1>2, <1>3, SumSame
<1>8. /\ NewtonForm(dd, points, x, i, m) = SumFunctionOnSet(f, 0..m)
      /\ NewtonForm(dd, points, x, i, m - 1) = SumFunctionOnSet(e, 0..(m - 1))
  BY DEF NewtonForm, f, e
<1>9. \A u \in Int, v \in Int : u + v = v + u OBVIOUS
<1> QED BY <1>1, <1>4, <1>5, <1>6, <1>7, <1>8, <1>9

\* Points i..i+m from the other end: the step of the induction.
LEMMA ExchangeStep ==
  ASSUME NEW q \in Nat \ {0}, NEW s \in Int, NEW t \in Int, NEW w \in Int, NEW d0 \in Int,
         NEW d1 \in Int, NEW e \in Int, NEW a \in Int, NEW b \in Int, NEW x \in Int,
         Congruent(q, t, s + d0 * w), Congruent(q, e * (b - a), d1 - d0)
  PROVE  Congruent(q, t + e * ((x - a) * w), (s + d1 * w) + e * (w * (x - b)))
<1>1. PICK k \in Int : t = (s + d0 * w) + q * k BY DEF Congruent
<1>2. PICK l \in Int : e * (b - a) = (d1 - d0) + q * l BY DEF Congruent
<1>3. w * (e * (b - a)) = w * (d1 - d0) + q * (w * l)
  <2>1. PICK y \in Int : y = e * (b - a) BY SMT
  <2>2. w * y = w * ((d1 - d0) + q * l) BY <1>2, <2>1
  <2>3. w * ((d1 - d0) + q * l) = w * (d1 - d0) + q * (w * l) BY SMT
  <2> QED BY <2>1, <2>2, <2>3
<1>4. t + e * ((x - a) * w) = ((s + d1 * w) + e * (w * (x - b))) + q * (k + w * l)
  <2>1. e * ((x - a) * w) = e * (w * (x - b)) + w * (e * (b - a)) BY SMT
  <2>2. t + e * ((x - a) * w) = ((s + d0 * w) + q * k) + (e * (w * (x - b)) + (w * (d1 - d0) + q * (w * l)))
    BY <1>1, <1>3, <2>1
  <2>3. ((s + d0 * w) + q * k) + (e * (w * (x - b)) + (w * (d1 - d0) + q * (w * l))) =
          ((s + d1 * w) + e * (w * (x - b))) + q * (k + w * l)
    BY ONLY <2>2, q \in Nat \ {0}, s \in Int, w \in Int, d0 \in Int, d1 \in Int, e \in Int,
       b \in Int, x \in Int, k \in Int, l \in Int, SMT
  <2> QED BY <2>2, <2>3
<1>5. k + w * l \in Int BY SMT
<1> QED BY <1>4, <1>5 DEF Congruent

\* One round of Horner's method against the Newton form.
LEMMA HornerStep ==
  ASSUME NEW q \in Nat \ {0}, NEW total \in Int, NEW s \in Int, NEW w \in Int, NEW d \in Int,
         NEW a \in Int, NEW x \in Int, NEW h \in Int, NEW g \in Int,
         Congruent(q, total, (s + d * (w * (x - a))) + (w * (x - a)) * h),
         Congruent(q, g, (x - a) * (h + d))
  PROVE  Congruent(q, total, s + w * g)
<1>1. PICK k \in Int : total = ((s + d * (w * (x - a))) + (w * (x - a)) * h) + q * k
  BY DEF Congruent
<1>2. PICK l \in Int : g = (x - a) * (h + d) + q * l BY DEF Congruent
<1>3. w * g = w * ((x - a) * (h + d)) + q * (w * l)
  <2>1. w * g = w * ((x - a) * (h + d) + q * l) BY <1>2
  <2>2. w * ((x - a) * (h + d) + q * l) = w * ((x - a) * (h + d)) + q * (w * l) BY SMT
  <2> QED BY <2>1, <2>2
<1>4. (s + d * (w * (x - a))) + (w * (x - a)) * h = s + w * ((x - a) * (h + d)) BY SMT
<1>5. PICK y \in Int, z \in Int, v \in Int :
        y = w * ((x - a) * (h + d)) /\ z = q * (w * l) /\ v = q * k
  BY SMT
<1>6. total = (s + w * g) + q * (k - w * l)
  <2>1. q * (k - w * l) = v - z BY <1>5, SMT
  <2>2. total = (s + y) + v /\ w * g = y + z BY <1>1, <1>3, <1>4, <1>5
  <2> QED BY ONLY <2>1, <2>2, s \in Int, y \in Int, v \in Int, z \in Int, SMT
<1>7. k - w * l \in Int BY SMT
<1> QED BY <1>6, <1>7 DEF Congruent

\* Points and divided differences, as DifferenceTyped finds them.
AreDifferences(dd, points, values) ==
  /\ Ints(points) /\ Len(points) # 0 /\ dd[0] = values
  /\ \A j \in 0..(Len(points) - 1) : \A i \in 1..(Len(points) - j) : dd[j][i] \in Int
  /\ \A j \in 1..(Len(points) - 1) : \A i \in 1..(Len(points) - j) :
       Congruent(mod, dd[j][i] * (points[i + j] - points[i]), dd[j - 1][i + 1] - dd[j - 1][i])

\* The Newton form does not depend on which end of the points the last one is added at.
LEMMA Exchange ==
  ASSUME NEW points, NEW values, NEW dd, AreDifferences(dd, points, values), NEW x \in Int
  PROVE  \A m \in Nat : m < Len(points) =>
           \A i \in 1..(Len(points) - m) :
             Congruent(mod, NewtonForm(dd, points, x, i, m),
                       NewtonForm(dd, points, x, i + 1, m - 1)
                         + dd[m][i] * Distances(points, x, i + 1, m))
<1> DEFINE n == Len(points)
           N(i, m) == NewtonForm(dd, points, x, i, m)
           W(i, m) == Distances(points, x, i, m)
           Same(i, m) == Congruent(mod, N(i, m), N(i + 1, m - 1) + dd[m][i] * W(i + 1, m))
           T == {m \in Nat : m < n => \A i \in 1..(n - m) : Same(i, m)}
<1>0. n \in Nat \ {0} /\ mod \in Nat \ {0} /\ Ints(points)
  BY ModAssumption DEF AreDifferences, Ints, Listing
<1>d. \A j \in 0..(n - 1) : \A i \in 1..(n - j) : dd[j][i] \in Int BY DEF AreDifferences
<1>n. ASSUME NEW m \in Nat, NEW i \in 1..(n - m)
      PROVE  /\ N(i, m) \in Int /\ N(i, m - 1) \in Int
             /\ N(i, m) = N(i, m - 1) + dd[m][i] * W(i, m)
             /\ m = 0 => N(i, m - 1) = 0
  <2>1. i \in Nat \ {0} /\ i + m <= n BY <1>0
  <2>2. \A j \in 0..m : dd[j][i] \in Int
    <3> SUFFICES ASSUME NEW j \in 0..m PROVE dd[j][i] \in Int OBVIOUS
    <3>1. j \in 0..(n - 1) /\ i \in 1..(n - j) BY <1>0, <2>1
    <3> QED BY <1>d, <3>1
  <2> QED BY <1>0, <2>1, <2>2, FormFacts
<1>w. ASSUME NEW m \in Nat, NEW i \in 1..(n + 1 - m)
      PROVE  /\ W(i, m) \in Int /\ (m = 0 => W(i, m) = 1)
             /\ m # 0 => /\ W(i, m) = (x - points[i]) * W(i + 1, m - 1)
                         /\ W(i, m) = W(i, m - 1) * (x - points[i + m - 1])
  <2>1. i \in Nat \ {0} /\ i + m <= n + 1 BY <1>0
  <2> QED BY <1>0, <2>1, DistancesFacts
<1> HIDE DEF N, W
<1>1. 0 \in T
  <2> SUFFICES ASSUME NEW i \in 1..n PROVE Same(i, 0) BY <1>0
  <2>1. i \in 1..(n - 0) /\ i + 1 \in 1..(n + 1 - 0) /\ 0 \in 0..(n - 1) BY <1>0
  <2>2. N(i, 0) \in Int /\ N(i, 0) = N(i, 0 - 1) + dd[0][i] * W(i, 0) /\ N(i, 0 - 1) = 0
    BY <1>n, <2>1
  <2>3. W(i, 0) = 1 /\ W(i + 1, 0) = 1
    <3>1. i \in 1..(n + 1 - 0) BY <1>0
    <3> QED BY <1>w, <2>1, <3>1
  <2>4. N(i + 1, 0 - 1) = 0
    <3>1. 0..(0 - 1) = {} OBVIOUS
    <3>2. IsFiniteSet({}) BY FS_EmptySet
    <3>3. \A f : SumFunctionOnSet(f, {}) = 0 BY <3>2, SumFacts
    <3> QED BY <3>1, <3>3 DEF N, NewtonForm
  <2>5. N(i, 0) = N(i + 1, 0 - 1) + dd[0][i] * W(i + 1, 0) BY <2>2, <2>3, <2>4
  <2>6. PICK y \in Int : y = N(i, 0) BY <2>2
  <2>7. Congruent(mod, y, y) BY <1>0, Congruence
  <2> QED BY <2>5, <2>6, <2>7
<1>2. ASSUME NEW m \in T PROVE m + 1 \in T
  <2>0. m \in Nat BY <1>2
  <2> SUFFICES ASSUME m + 1 < n, NEW i \in 1..(n - (m + 1)) PROVE Same(i, m + 1) BY <2>0
  <2>1. /\ m + 1 \in 1..(n - 1) /\ m \in 0..(n - 1) /\ m < n /\ (m + 1) - 1 = m
        /\ i \in 1..(n - m) /\ i + 1 \in 1..(n - m)
        /\ i \in 1..(n + 1 - (m + 1)) /\ i + 1 \in 1..(n + 1 - (m + 1)) /\ i + 1 \in 1..(n + 1 - m)
        /\ m + 1 \in 0..(n - 1) /\ (i + 1) + (m + 1) - 1 = i + (m + 1) /\ m + 1 \in Nat /\ m + 1 # 0
        /\ i \in 1..n /\ i + (m + 1) \in 1..n
    BY <1>0, <2>0
  <2>2. Same(i, m) BY <1>2, <2>0, <2>1
  <2>3. PICK a \in Int, b \in Int : a = points[i] /\ b = points[i + (m + 1)]
    BY <1>0, <2>1 DEF Ints
  <2>4. PICK d0 \in Int, d1 \in Int, e \in Int : d0 = dd[m][i] /\ d1 = dd[m][i + 1] /\ e = dd[m + 1][i]
    BY <1>d, <2>1
  <2>5. PICK w \in Int : w = W(i + 1, m) BY <1>w, <2>0, <2>1
  <2>6. W(i, m + 1) = (x - a) * w /\ W(i + 1, m + 1) = w * (x - b)
    BY <1>w, <2>1, <2>3, <2>5
  <2>7. PICK t \in Int, s \in Int : t = N(i, m) /\ s = N(i + 1, m - 1) BY <1>n, <2>0, <2>1
  <2>8. N(i, m + 1) = t + e * ((x - a) * w)
    <3>1. N(i, m + 1) = N(i, (m + 1) - 1) + dd[m + 1][i] * W(i, m + 1) BY <1>n, <2>1
    <3> QED BY <2>1, <2>4, <2>6, <2>7, <3>1
  <2>9. N(i + 1, m) = s + d1 * w BY <1>n, <2>0, <2>1, <2>4, <2>5, <2>7
  <2>10. Congruent(mod, t, s + d0 * w) BY <2>2, <2>4, <2>5, <2>7
  <2>11. Congruent(mod, e * (b - a), d1 - d0)
    <3>1. Congruent(mod, dd[m + 1][i] * (points[i + (m + 1)] - points[i]),
                    dd[(m + 1) - 1][i + 1] - dd[(m + 1) - 1][i])
      BY <2>1 DEF AreDifferences
    <3> QED BY <2>1, <2>3, <2>4, <3>1
  <2>12. Congruent(mod, t + e * ((x - a) * w), (s + d1 * w) + e * (w * (x - b)))
    BY ONLY <1>0, s \in Int, t \in Int, w \in Int, d0 \in Int, d1 \in Int, e \in Int, a \in Int,
       b \in Int, x \in Int, <2>10, <2>11, ExchangeStep
  <2> QED BY <2>1, <2>4, <2>6, <2>8, <2>9, <2>12
<1> HIDE DEF Same
<1>t. T \in SUBSET Nat OBVIOUS
<1>3. T = Nat
  <2> HIDE DEF T
  <2> QED BY <1>t, <1>1, <1>2, InductionOnNat
<1> QED BY <1>3 DEF Same, N, W

\* The Newton form takes the value of each of its points.
LEMMA FormHits ==
  ASSUME NEW points, NEW values, NEW dd, AreDifferences(dd, points, values),
         NEW k \in 1..Len(points), points[k] \in Int
  PROVE  Congruent(mod, NewtonForm(dd, points, points[k], 1, Len(points) - 1), values[k])
<1> DEFINE n == Len(points)
           x == points[k]
           N(i, m) == NewtonForm(dd, points, x, i, m)
           W(i, m) == Distances(points, x, i, m)
           Hits(i, m) == k \in i..(i + m) => Congruent(mod, N(i, m), values[k])
           T == {m \in Nat : m < n => \A i \in 1..(n - m) : Hits(i, m)}
<1>0. n \in Nat \ {0} /\ mod \in Nat \ {0} /\ Ints(points) /\ x \in Int /\ k \in Nat
  BY ModAssumption DEF AreDifferences, Ints, Listing
<1>d. \A j \in 0..(n - 1) : \A i \in 1..(n - j) : dd[j][i] \in Int BY DEF AreDifferences
<1>v. values[k] \in Int /\ dd[0] = values
  <2>1. 0 \in 0..(n - 1) /\ k \in 1..(n - 0) BY <1>0
  <2>2. dd[0] = values BY DEF AreDifferences
  <2> QED BY <1>d, <2>1, <2>2
<1>n. ASSUME NEW m \in Nat, NEW i \in 1..(n - m)
      PROVE  /\ N(i, m) \in Int /\ N(i, m - 1) \in Int
             /\ N(i, m) = N(i, m - 1) + dd[m][i] * W(i, m)
             /\ m = 0 => N(i, m - 1) = 0
  <2>1. i \in Nat \ {0} /\ i + m <= n BY <1>0
  <2>2. \A j \in 0..m : dd[j][i] \in Int
    <3> SUFFICES ASSUME NEW j \in 0..m PROVE dd[j][i] \in Int OBVIOUS
    <3>1. j \in 0..(n - 1) /\ i \in 1..(n - j) BY <1>0, <2>1
    <3> QED BY <1>d, <3>1
  <2> HIDE DEF x
  <2> QED BY <1>0, <2>1, <2>2, FormFacts
<1>w. ASSUME NEW m \in Nat, NEW i \in 1..(n + 1 - m)
      PROVE  /\ W(i, m) \in Int /\ (m = 0 => W(i, m) = 1)
             /\ k \in i..(i + m - 1) => W(i, m) = 0
  <2>1. i \in Nat \ {0} /\ i + m <= n + 1 BY <1>0
  <2>2. /\ Distances(points, points[k], i, m) \in Int
        /\ m = 0 => Distances(points, points[k], i, m) = 1
        /\ \A l \in i..(i + m - 1) : points[k] = points[l] => Distances(points, points[k], i, m) = 0
    BY <1>0, <2>1, DistancesFacts
  <2> QED BY <2>2
<1>e. ASSUME NEW m \in Nat, NEW i \in 1..(n - m), m < n
      PROVE  Congruent(mod, N(i, m), N(i + 1, m - 1) + dd[m][i] * W(i + 1, m))
  <2>1. m \in Nat /\ m < n /\ i \in 1..(n - m) BY <1>e
  <2>2. Congruent(mod, NewtonForm(dd, points, points[k], i, m),
                  NewtonForm(dd, points, points[k], i + 1, m - 1)
                    + dd[m][i] * Distances(points, points[k], i + 1, m))
    BY <2>1, Exchange
  <2> QED BY <2>2
<1> HIDE DEF N, W, x
<1>z. \A u \in Int, v \in Int : u + v * 0 = u /\ u * 1 = u BY SMT
<1>1. 0 \in T
  <2> SUFFICES ASSUME NEW i \in 1..n, k \in i..(i + 0) PROVE Congruent(mod, N(i, 0), values[k])
    BY <1>0
  <2>1. i = k /\ i \in 1..(n - 0) /\ i \in 1..(n + 1 - 0) BY <1>0
  <2>2. N(i, 0) = N(i, 0 - 1) + dd[0][i] * W(i, 0) /\ N(i, 0 - 1) = 0 /\ W(i, 0) = 1
    BY <1>n, <1>w, <2>1
  <2>3. N(i, 0) = values[k] BY <1>v, <1>z, <2>1, <2>2
  <2> QED BY <1>0, <1>v, <2>3, Congruence
<1>2. ASSUME NEW m \in T PROVE m + 1 \in T
  <2>0. m \in Nat BY <1>2
  <2> SUFFICES ASSUME m + 1 < n, NEW i \in 1..(n - (m + 1)), k \in i..(i + (m + 1))
               PROVE  Congruent(mod, N(i, m + 1), values[k])
    BY <2>0
  <2>1. /\ m < n /\ (m + 1) - 1 = m /\ m + 1 \in Nat
        /\ i \in 1..(n - m) /\ i + 1 \in 1..(n - m) /\ m + 1 \in 0..(n - 1)
        /\ i \in 1..(n + 1 - (m + 1)) /\ i + 1 \in 1..(n + 1 - (m + 1))
    BY <1>0, <2>0
  <2>2. PICK e \in Int : e = dd[m + 1][i] BY <1>d, <2>1
  <2>3. CASE k # i + (m + 1)
    <3>1. k \in i..(i + m) /\ k \in i..(i + (m + 1) - 1) BY <1>0, <2>0, <2>3
    <3>2. W(i, m + 1) = 0 BY <1>w, <2>1, <3>1
    <3>3. N(i, m + 1) = N(i, m) + e * W(i, m + 1) BY <1>n, <2>1, <2>2
    <3>4. N(i, m) \in Int BY <1>n, <2>0, <2>1
    <3>5. N(i, m + 1) = N(i, m) BY <1>z, <2>2, <3>2, <3>3, <3>4
    <3>6. Hits(i, m) BY <1>2, <2>0, <2>1
    <3> QED BY <3>1, <3>5, <3>6
  <2>4. CASE k = i + (m + 1)
    <3>1. k \in (i + 1)..((i + 1) + m) /\ k \in (i + 1)..((i + 1) + (m + 1) - 1)
      BY <1>0, <2>0, <2>4
    <3>2. W(i + 1, m + 1) = 0 BY <1>w, <2>1, <3>1
    <3>3. Congruent(mod, N(i, m + 1), N(i + 1, m) + e * W(i + 1, m + 1)) BY <1>e, <2>1, <2>2
    <3>4. N(i + 1, m) \in Int BY <1>n, <2>0, <2>1
    <3>5. N(i + 1, m) + e * W(i + 1, m + 1) = N(i + 1, m) BY <1>z, <2>2, <3>2, <3>4
    <3>6. Hits(i + 1, m) BY <1>2, <2>0, <2>1
    <3>7. PICK y \in Int, z \in Int, v \in Int : y = N(i, m + 1) /\ z = N(i + 1, m) /\ v = values[k]
      BY <1>n, <1>v, <2>1, <3>4
    <3>8. Congruent(mod, y, z) /\ Congruent(mod, z, v) BY <3>1, <3>3, <3>5, <3>6, <3>7
    <3>9. Congruent(mod, y, v)
      BY ONLY <1>0, y \in Int, z \in Int, v \in Int, <3>8, CongruentChain
    <3> QED BY <3>7, <3>9
  <2> QED BY <2>3, <2>4
<1> HIDE DEF Hits
<1>t. T \in SUBSET Nat OBVIOUS
<1>3. T = Nat
  <2> HIDE DEF T
  <2> QED BY <1>t, <1>1, <1>2, InductionOnNat
<1>4. Hits(1, n - 1)
  <2>1. n - 1 \in Nat /\ n - 1 < n /\ 1 \in 1..(n - (n - 1)) BY <1>0
  <2> QED BY <1>3, <2>1
<1>5. k \in 1..(1 + (n - 1)) BY <1>0
<1> QED BY <1>4, <1>5 DEF Hits, N, x

\* A number added to the constant term.
LEMMA AddedValue ==
  ASSUME NEW p, Ints(p), Len(p) # 0, NEW c \in Int, NEW x \in Int
  PROVE  LET r == [p EXCEPT ![1] = (@ + c) % mod]
         IN  /\ Ints(r) /\ Len(r) = Len(p) /\ ValueAt(r, x) \in Int /\ ValueAt(p, x) \in Int
             /\ Congruent(mod, ValueAt(r, x), ValueAt(p, x) + c)
<1> DEFINE n == Len(p)
           r == [p EXCEPT ![1] = (@ + c) % mod]
<1>0. Listing(p) /\ n \in Nat \ {0} /\ mod \in Nat \ {0} /\ 1 \in 1..n /\ p[1] \in Int /\ DOMAIN p = 1..n
  BY ModAssumption, ListingSeq DEF Ints, Listing
<1>1. Listing(r) /\ Len(r) = n BY <1>0, ListingExcept
<1>2. r[1] = (p[1] + c) % mod /\ \A i \in 2..n : r[i] = p[i] BY <1>0
<1> HIDE DEF r
<1>3. PICK y \in Int, z \in Int : y = p[1] /\ z = (p[1] + c) % mod /\ Congruent(mod, z, y + c)
  <2>1. PICK y \in Int : y = p[1] BY <1>0
  <2>2. PICK v \in Int : v = y + c BY <2>1
  <2>3. v % mod \in 0..(mod - 1) BY <1>0, Remainder
  <2>4. Congruent(mod, v % mod, v) BY <1>0, Congruence
  <2>5. v % mod \in Int BY <2>3
  <2> QED BY <2>1, <2>2, <2>4, <2>5
<1>4. Ints(r)
  <2> SUFFICES ASSUME NEW i \in 1..n PROVE r[i] \in Int BY <1>1 DEF Ints
  <2>1. CASE i = 1 BY <1>2, <1>3, <2>1
  <2>2. CASE i # 1
    <3>1. i \in 2..n BY <1>0, <2>2
    <3> QED BY <1>2, <3>1 DEF Ints
  <2> QED BY <2>1, <2>2
<1>5. PICK g : AreValues(g, p, x) /\ g[n] = ValueAt(p, x) BY <1>0, ValueRounds
<1>6. PICK h : AreValues(h, r, x) /\ h[n] = ValueAt(r, x) BY <1>1, ValueRounds
<1>7. g[0] = 0 /\ \A k \in 0..(n - 1) : g[k + 1] = (p[n - k] + x * g[k]) % mod
  BY <1>5 DEF AreValues
<1>8. h[0] = 0 /\ \A k \in 0..(n - 1) : h[k + 1] = (r[n - k] + x * h[k]) % mod
  BY <1>1, <1>6 DEF AreValues
<1>9. \A k \in 0..n : g[k] \in Int BY <1>5, ValuesTyped
<1>10. \A k \in 0..n : h[k] \in Int BY <1>1, <1>4, <1>6, ValuesTyped
<1> DEFINE T == {k \in Nat : k <= n - 1 => h[k] = g[k]}
<1>11. 0 \in T BY <1>7, <1>8
<1>12. ASSUME NEW k \in T PROVE k + 1 \in T
  <2>0. k \in Nat BY <1>12
  <2> SUFFICES ASSUME k + 1 <= n - 1 PROVE h[k + 1] = g[k + 1] BY <2>0
  <2>1. k \in 0..(n - 1) /\ n - k \in 2..n /\ k <= n - 1 BY <1>0, <2>0
  <2>2. h[k] = g[k] BY <1>12, <2>0, <2>1
  <2> QED BY <1>2, <1>7, <1>8, <2>1, <2>2
<1>t. T \in SUBSET Nat OBVIOUS
<1>13. T = Nat
  <2> HIDE DEF T
  <2> QED BY <1>t, <1>11, <1>12, InductionOnNat
<1>14. PICK u \in Int : u = g[n - 1] /\ u = h[n - 1]
  <2>1. n - 1 \in Nat /\ n - 1 \in 0..n BY <1>0
  <2>2. h[n - 1] = g[n - 1] BY <1>13, <2>1
  <2> QED BY <1>9, <2>1, <2>2
<1>15. g[n] = (y + x * u) % mod /\ h[n] = (z + x * u) % mod
  <2>1. n - 1 \in 0..(n - 1) /\ (n - 1) + 1 = n /\ n - (n - 1) = 1 BY <1>0
  <2> QED BY <1>2, <1>3, <1>7, <1>8, <1>14, <2>1
<1>16. PICK a \in Int, b \in Int : a = ValueAt(p, x) /\ b = ValueAt(r, x)
  <2>1. n \in 0..n BY <1>0
  <2> QED BY <1>5, <1>6, <1>9, <1>10, <2>1
<1>17. Congruent(mod, b, a + c)
  <2>1. PICK w \in Int, v \in Int, s \in Int : w = x * u /\ v = y + w /\ s = z + w BY SMT
  <2>2. a = v % mod /\ b = s % mod BY <1>5, <1>6, <1>15, <1>16, <2>1
  <2>3. Congruent(mod, a, v) /\ Congruent(mod, b, s) BY <1>0, <2>2, Congruence
  <2>4. PICK i \in Int : a = v + mod * i BY <2>3 DEF Congruent
  <2>5. PICK j \in Int : b = s + mod * j BY <2>3 DEF Congruent
  <2>6. PICK k \in Int : z = (y + c) + mod * k BY <1>3 DEF Congruent
  <2>7. b = (a + c) + mod * ((k + j) - i)
    <3>1. mod * ((k + j) - i) = (mod * k + mod * j) - mod * i BY <1>0, SMT
    <3>2. PICK d \in Int, e \in Int, f \in Int : d = mod * k /\ e = mod * j /\ f = mod * i
      BY <1>0, SMT
    <3>3. v = y + w /\ s = z + w /\ a = v + f /\ b = s + e /\ z = (y + c) + d
      BY <2>1, <2>4, <2>5, <2>6, <3>2
    <3>4. b = (a + c) + ((d + e) - f)
      BY ONLY <3>3, y \in Int, z \in Int, a \in Int, b \in Int, c \in Int, d \in Int, e \in Int,
         f \in Int, w \in Int, v \in Int, s \in Int, SMT
    <3> QED BY <3>1, <3>2, <3>4
  <2>8. (k + j) - i \in Int OBVIOUS
  <2> QED BY <2>7, <2>8 DEF Congruent
<1> QED BY <1>1, <1>4, <1>16, <1>17 DEF r

\* Horner's method gives the Newton form, but for the constant term.
LEMMA HornerTotal ==
  ASSUME NEW points, NEW values, NEW dd, AreDifferences(dd, points, values), NEW x \in Int,
         NEW g, AreHornerRounds(g, dd, points, Len(points) - 1)
  PROVE  LET m == Len(points) - 1
         IN  /\ Ints(g[m]) /\ Len(g[m]) # 0 /\ ValueAt(g[m], x) \in Int
             /\ Congruent(mod, NewtonForm(dd, points, x, 1, m), ValueAt(g[m], x) + dd[0][1])
<1> DEFINE n == Len(points)
           m == n - 1
           N(j) == NewtonForm(dd, points, x, 1, j)
           W(j) == Distances(points, x, 1, j)
           V(k) == ValueAt(g[k], x)
           Good(k) == /\ Ints(g[k]) /\ Len(g[k]) = k + 1 /\ V(k) \in Int
                      /\ Congruent(mod, N(m), N(m - k) + W(m - k) * V(k))
           T == {k \in Nat : k <= m => Good(k)}
<1>0. n \in Nat \ {0} /\ m \in Nat /\ mod \in Nat \ {0} /\ Ints(points)
  BY ModAssumption DEF AreDifferences, Ints, Listing
<1>d. \A j \in 0..m : dd[j][1] \in Int
  <2> SUFFICES ASSUME NEW j \in 0..m PROVE dd[j][1] \in Int OBVIOUS
  <2>1. j \in 0..(n - 1) /\ 1 \in 1..(n - j) BY <1>0
  <2> QED BY <2>1 DEF AreDifferences
<1>n. ASSUME NEW j \in 0..m
      PROVE  /\ N(j) \in Int /\ N(j - 1) \in Int /\ N(j) = N(j - 1) + dd[j][1] * W(j)
             /\ j = 0 => N(j - 1) = 0
  <2>1. PICK i \in Nat \ {0} : i = 1 OBVIOUS
  <2>2. j \in Nat /\ i + j <= Len(points) /\ Ints(points) /\ x \in Int BY <1>0, <2>1
  <2>3. \A l \in 0..j : dd[l][i] \in Int BY <1>0, <1>d, <2>1
  <2>4. /\ NewtonForm(dd, points, x, i, j) \in Int /\ NewtonForm(dd, points, x, i, j - 1) \in Int
        /\ NewtonForm(dd, points, x, i, j) =
             NewtonForm(dd, points, x, i, j - 1) + dd[j][i] * Distances(points, x, i, j)
        /\ j = 0 => NewtonForm(dd, points, x, i, j - 1) = 0
    BY ONLY <2>2, <2>3, i \in Nat \ {0}, FormFacts
  <2> QED BY <2>1, <2>4
<1>w. ASSUME NEW j \in 0..m
      PROVE  /\ W(j) \in Int /\ (j = 0 => W(j) = 1)
             /\ j # 0 => W(j) = W(j - 1) * (x - points[j])
  <2>1. PICK i \in Nat \ {0} : i = 1 OBVIOUS
  <2>2. j \in Nat /\ i + j <= n + 1 /\ i + j - 1 = j BY <1>0, <2>1
  <2>3. /\ Distances(points, x, i, j) \in Int /\ (j = 0 => Distances(points, x, i, j) = 1)
        /\ j # 0 => Distances(points, x, i, j) =
                      Distances(points, x, i, j - 1) * (x - points[i + j - 1])
    BY <1>0, <2>2, DistancesFacts
  <2> QED BY <2>1, <2>2, <2>3
<1>g. /\ g[0] = <<0>>
      /\ \A k \in 0..(m - 1) :
           g[k + 1] = MulMonicMonomial([g[k] EXCEPT ![1] = (@ + dd[m - k][1]) % mod], points[m - k])
  BY DEF AreHornerRounds
<1> HIDE DEF N, W
<1>1. 0 \in T
  <2>1. PICK o : o = <<0>> OBVIOUS
  <2>2. Listing(o) /\ Len(o) = 1 /\ o[1] = 0
    <3>1. <<0>> \in Seq({0}) /\ Len(<<0>>) = 1 /\ <<0>>[1] = 0 OBVIOUS
    <3> QED BY <2>1, <3>1, ListingSeq
  <2>3. Ints(o) BY <2>2 DEF Ints
  <2>4. PICK v : AreValues(v, o, x) /\ v[1] = ValueAt(o, x) BY <2>2, ValueRounds
  <2>5. v[0] = 0 /\ v[0 + 1] = (o[1 - 0] + x * v[0]) % mod
    <3>1. 0 \in 0..(1 - 1) OBVIOUS
    <3> QED BY <2>2, <2>4, <3>1 DEF AreValues
  <2>6. v[1] = 0
    <3>1. x * 0 = 0 BY SMT
    <3>2. 1 - 0 = 1 /\ 0 + 1 = 1 /\ 0 + 0 = 0 OBVIOUS
    <3>3. 0 % mod = 0 BY <1>0, SMT
    <3> QED BY <2>2, <2>5, <3>1, <3>2, <3>3
  <2>7. V(0) = 0 /\ Ints(g[0]) /\ Len(g[0]) = 0 + 1 BY <1>g, <2>1, <2>2, <2>3, <2>4, <2>6
  <2>8. m \in 0..m /\ m - 0 = m BY <1>0
  <2>9. PICK y \in Int, w \in Int : y = N(m) /\ w = W(m) BY <1>n, <1>w, <2>8
  <2>10. y + w * 0 = y BY SMT
  <2>11. Congruent(mod, y, y) BY <1>0, Congruence
  <2> QED BY <2>7, <2>8, <2>9, <2>10, <2>11
<1>2. ASSUME NEW k \in T PROVE k + 1 \in T
  <2>0. k \in Nat BY <1>2
  <2> SUFFICES ASSUME k + 1 <= m PROVE Good(k + 1) BY <2>0
  <2>1. /\ k \in 0..(m - 1) /\ k <= m /\ m - k \in 0..m /\ m - k \in 1..n /\ m - k # 0
        /\ (m - k) - 1 = m - (k + 1) /\ m - (k + 1) \in 0..m
    BY <1>0, <2>0
  <2>2. Good(k) BY <1>2, <2>0, <2>1
  <2> DEFINE e == [g[k] EXCEPT ![1] = (@ + dd[m - k][1]) % mod]
  <2>3. PICK p : p = g[k] OBVIOUS
  <2>4. PICK d \in Int, a \in Int : d = dd[m - k][1] /\ a = points[m - k]
    BY <1>0, <1>d, <2>1 DEF Ints
  <2>5. Ints(p) /\ Len(p) = k + 1 /\ Len(p) # 0 BY <2>0, <2>2, <2>3
  <2> DEFINE r == [p EXCEPT ![1] = (@ + d) % mod]
  <2>6. /\ Ints(r) /\ Len(r) = Len(p) /\ ValueAt(r, x) \in Int /\ ValueAt(p, x) \in Int
        /\ Congruent(mod, ValueAt(r, x), ValueAt(p, x) + d)
    BY <2>4, <2>5, AddedValue
  <2>7. g[k + 1] = MulMonicMonomial(r, a) BY <1>g, <2>1, <2>3, <2>4
  <2> HIDE DEF r
  <2>8. PICK c : c = MulMonicMonomial(r, a) OBVIOUS
  <2>9. Ints(c) /\ Len(c) = Len(r) + 1 BY <2>6, <2>8, MonomialTyped
  <2>10. ValueAt(c, x) \in Int /\ Congruent(mod, ValueAt(c, x), (x - a) * ValueAt(r, x))
    BY <2>6, <2>8, MonomialValue
  <2>11. PICK h \in Int, f \in Int, v \in Int :
           h = ValueAt(p, x) /\ f = ValueAt(r, x) /\ v = ValueAt(c, x)
    BY <2>6, <2>10
  <2>12. Congruent(mod, v, (x - a) * (h + d))
    <3>1. PICK b \in Int : b = x - a OBVIOUS
    <3>2. PICK u \in Int : u = h + d OBVIOUS
    <3>3. Congruent(mod, f, u) /\ Congruent(mod, b, b) BY <1>0, <2>6, <2>11, <3>2, Congruence
    <3>4. Congruent(mod, b * f, b * u)
      BY ONLY <1>0, b \in Int, f \in Int, u \in Int, <3>3, CongruentProduct
    <3>5. PICK y \in Int, z \in Int : y = b * f /\ z = b * u BY SMT
    <3>6. Congruent(mod, v, y) /\ Congruent(mod, y, z) BY <2>10, <2>11, <3>1, <3>4, <3>5
    <3>7. Congruent(mod, v, z) BY ONLY <1>0, v \in Int, y \in Int, z \in Int, <3>6, CongruentChain
    <3> QED BY <3>1, <3>2, <3>5, <3>7
  <2>13. PICK total \in Int, s \in Int, w \in Int :
           total = N(m) /\ s = N(m - (k + 1)) /\ w = W(m - (k + 1))
    <3>1. m \in 0..m BY <1>0
    <3> QED BY <1>n, <1>w, <2>1, <3>1
  <2>14. W(m - k) = w * (x - a) BY <1>w, <2>1, <2>4, <2>13
  <2>15. N(m - k) = s + d * (w * (x - a)) BY <1>n, <2>1, <2>4, <2>13, <2>14
  <2>16. Congruent(mod, total, (s + d * (w * (x - a))) + (w * (x - a)) * h)
    BY <2>2, <2>3, <2>11, <2>13, <2>14, <2>15
  <2>17. Congruent(mod, total, s + w * v)
    BY ONLY <1>0, total \in Int, s \in Int, w \in Int, d \in Int, a \in Int, x \in Int, h \in Int,
       v \in Int, <2>12, <2>16, HornerStep
  <2>18. Len(c) = (k + 1) + 1 BY <2>5, <2>6, <2>9
  <2> HIDE DEF m
  <2> QED BY <2>7, <2>8, <2>9, <2>10, <2>11, <2>13, <2>17, <2>18
<1> HIDE DEF Good
<1>t. T \in SUBSET Nat OBVIOUS
<1>3. T = Nat
  <2> HIDE DEF T
  <2> QED BY <1>t, <1>1, <1>2, InductionOnNat
<1>4. Good(m) BY <1>0, <1>3
<1>5. Ints(g[m]) /\ Len(g[m]) # 0 /\ V(m) \in Int /\ Congruent(mod, N(m), N(0) + W(0) * V(m))
  <2>1. m - m = 0 /\ m + 1 # 0 BY <1>0
  <2> QED BY <1>4, <2>1 DEF Good
<1>6. N(0) + W(0) * V(m) = V(m) + dd[0][1]
  <2>1. 0 \in 0..m BY <1>0
  <2>2. N(0) = N(0 - 1) + dd[0][1] * W(0) /\ N(0 - 1) = 0 /\ W(0) = 1 BY <1>n, <1>w, <2>1
  <2>3. PICK a \in Int, b \in Int : a = dd[0][1] /\ b = V(m) BY <1>d, <1>5, <2>1
  <2>4. 0 + a * 1 = a /\ 1 * b = b /\ a + b = b + a BY SMT
  <2> QED BY <2>2, <2>3, <2>4
<1> QED BY <1>5, <1>6 DEF N

\* The interpolation polynomial takes the value of each point, if no point is there twice.
LEMMA NewtonValue ==
  ASSUME InversesRight, NEW points, NEW values, Listing(points), Listing(values),
         Len(values) = Len(points),
         \A k \in 1..Len(points) : points[k] \in Felt /\ values[k] \in Felt,
         \A k, l \in 1..Len(points) : points[k] = points[l] => k = l,
         NEW k \in 1..Len(points)
  PROVE  ValueAt(NewtonInterpolatePolyn(points, values), points[k]) = values[k]
<1> DEFINE n == Len(points)
           m == n - 1
           dd == DividedDifferences(points, values)
           x == points[k]
           polyn == NewtonInterpolatePolyn(points, values)
<1>0. n \in Nat \ {0} /\ mod \in Nat \ {0} /\ x \in Felt /\ values[k] \in Felt /\ Felt \subseteq Int
  BY ModAssumption DEF Listing, Felt
<1>1. Ints(points) /\ Ints(values) BY <1>0 DEF Ints
<1>d. DOMAIN values = 1..n BY ListingSeq
<1>x. x \in Int BY <1>0
<1> HIDE DEF x
<1>2. CASE \A i \in DOMAIN values : values[i] = 0
  <2>1. points # <<>>
    <3>1. Len(<<>>) = 0 OBVIOUS
    <3> QED BY <1>0, <3>1
  <2>2. polyn = [i \in 1..n |-> 0] BY <1>2, <2>1 DEF NewtonInterpolatePolyn
  <2>3. PICK o : o = <<>> OBVIOUS
  <2>4. Listing(o) /\ Len(o) = 0 BY <2>3 DEF Listing
  <2>5. Ints(o) BY <2>4 DEF Ints
  <2>6. Padded(o, n) = [i \in 1..n |-> 0] BY <1>0, <2>4 DEF Padded
  <2>7. PICK v : AreValues(v, o, x) /\ v[0] = ValueAt(o, x) BY <2>4, ValueRounds
  <2>8. ValueAt(o, x) = 0 BY <2>7 DEF AreValues
  <2>9. ValueAt(Padded(o, n), x) = 0
    <3>1. n \in Nat /\ 0 <= n BY <1>0
    <3>2. Len(o) <= n BY <2>4, <3>1
    <3> HIDE DEF n
    <3> QED BY <1>x, <2>5, <2>8, <3>1, <3>2, PaddedValue
  <2>10. values[k] = 0 BY <1>2, <1>d
  <2> HIDE DEF polyn
  <2>11. ValueAt(polyn, x) = values[k] BY <2>2, <2>6, <2>9, <2>10
  <2> QED BY <2>11 DEF polyn, x
<1>3. CASE ~\A i \in DOMAIN values : values[i] = 0
  <2> DEFINE inner == Horner(dd, points, m)
             r(c) == [inner EXCEPT ![1] = (@ + c) % mod]
  <2>1. polyn = r(dd[0][1]) BY <1>3 DEF NewtonInterpolatePolyn, Horner
  <2>2. /\ dd[0] = values
        /\ \A j \in 0..(n - 1) : \A i \in 1..(n - j) : dd[j][i] \in Int
        /\ \A j \in 1..(n - 1) : \A i \in 1..(n - j) :
             Congruent(mod, dd[j][i] * (points[i + j] - points[i]), dd[j - 1][i + 1] - dd[j - 1][i])
    <3>1. dd[0] = values BY <1>0, Differences
    <3>2. /\ \A j \in 0..(n - 1) : \A i \in 1..(n - j) : dd[j][i] \in Int
          /\ \A j \in 1..(n - 1) : \A i \in 1..(n - j) :
               Congruent(mod, dd[j][i] * (points[i + j] - points[i]),
                         dd[j - 1][i + 1] - dd[j - 1][i])
      BY <1>0, <1>1, DifferenceTyped
    <3> QED BY <3>1, <3>2
  <2> HIDE DEF dd, polyn
  <2>3. AreDifferences(dd, points, values) BY <1>0, <1>1, <2>2 DEF AreDifferences
  <2>4. m \in Nat BY <1>0
  <2>5. PICK g : AreHornerRounds(g, dd, points, m) /\ g[m] = inner BY ONLY <2>4, NewtonRounds
  <2> HIDE DEF inner
  <2>6. /\ Ints(inner) /\ Len(inner) # 0 /\ ValueAt(inner, x) \in Int
        /\ Congruent(mod, NewtonForm(dd, points, x, 1, m), ValueAt(inner, x) + dd[0][1])
    BY <1>x, <2>3, <2>5, HornerTotal
  <2>7. PICK c \in Int : c = dd[0][1]
    <3>1. 1 \in 1..n BY <1>0
    <3> QED BY <1>0, <2>2, <3>1
  <2>8. /\ Ints(r(c)) /\ ValueAt(r(c), x) \in Int
        /\ Congruent(mod, ValueAt(r(c), x), ValueAt(inner, x) + c)
    BY <1>x, <2>6, AddedValue
  <2>9. Congruent(mod, NewtonForm(dd, points, x, 1, m), values[k])
    BY <1>x, <2>3, FormHits DEF x
  <2>10. NewtonForm(dd, points, x, 1, m) \in Int
    <3>1. \A j \in 0..m : dd[j][1] \in Int
      <4> SUFFICES ASSUME NEW j \in 0..m PROVE dd[j][1] \in Int OBVIOUS
      <4>1. j \in 0..(n - 1) /\ 1 \in 1..(n - j) BY <1>0
      <4> QED BY <2>2, <4>1
    <3>2. PICK i \in Nat \ {0} : i = 1 OBVIOUS
    <3>3. i + m <= n BY <1>0, <3>2
    <3>4. \A j \in 0..m : dd[j][i] \in Int BY <3>1, <3>2
    <3> HIDE DEF m
    <3>5. NewtonForm(dd, points, x, i, m) \in Int BY <1>x, <1>1, <2>4, <3>3, <3>4, FormFacts
    <3> QED BY <3>2, <3>5
  <2>11. PICK a \in Int, b \in Int, f \in Int, v \in Int :
           /\ a = ValueAt(r(c), x) /\ b = ValueAt(inner, x) + c
           /\ f = NewtonForm(dd, points, x, 1, m) /\ v = values[k]
    <3>1. values[k] \in Int BY <1>0
    <3>2. ValueAt(inner, x) + c \in Int BY <2>6
    <3> HIDE DEF r
    <3> QED BY <2>8, <2>10, <3>1, <3>2
  <2>12. Congruent(mod, a, b) /\ Congruent(mod, f, b) /\ Congruent(mod, f, v)
    BY <2>6, <2>7, <2>8, <2>9, <2>11
  <2>13. a % mod = v % mod
    <3>1. a % mod = b % mod /\ f % mod = b % mod /\ f % mod = v % mod
      BY ONLY <1>0, a \in Int, b \in Int, f \in Int, v \in Int, <2>12, Congruence
    <3> QED BY <3>1
  <2>14. a \in Felt
    <3>1. PICK p : p = r(c) OBVIOUS
    <3>2. Ints(p) /\ Listing(p) /\ Len(p) \in Nat BY <2>8, <3>1 DEF Ints, Listing
    <3>4. PICK h : AreValues(h, p, x) /\ h[Len(p)] = ValueAt(p, x) BY <3>2, ValueRounds
    <3>5. Len(p) \in 0..Len(p) BY <3>2
    <3>6. h[Len(p)] \in Felt BY <1>x, <3>2, <3>4, <3>5, ValuesTyped
    <3> QED BY <2>11, <3>1, <3>4, <3>6
  <2>15. a \in 0..(mod - 1) /\ v \in 0..(mod - 1) BY <1>0, <2>11, <2>14 DEF Felt
  <2>16. a % mod = a /\ v % mod = v BY ONLY <1>0, <2>15, SMT
  <2>17. polyn = r(c) BY <2>1, <2>7
  <2> HIDE DEF r
  <2>18. ValueAt(polyn, x) = values[k] BY <2>11, <2>13, <2>16, <2>17
  <2> QED BY <2>18 DEF polyn, x
<1> QED BY <1>2, <1>3

-----------------------------------------------------------------------------
(* Items and labels as field elements. *)

\* What the code asks of the constants.
LEMMA Sizes ==
  /\ num_bins \in Nat \ {0} /\ max_bin_size \in Nat \ {0} /\ felts_per_item \in Nat \ {0}
  /\ bits_per_felt \in Nat \ {0} /\ item_bit_count \in Nat \ {0}
  /\ mod \in Nat /\ mod >= 2
  /\ params.table_size \in Nat
<1>1. /\ params.table_size \in Nat /\ params.plain_modulus_bits \in Nat \ {0}
      /\ params.felts_per_item = felts_per_item /\ bits_per_felt = params.plain_modulus_bits - 1
  BY ParamsAssumption DEF RawParams, item_bit_count_per_felt
<1>2. bits_per_felt \in Nat /\ felts_per_item \in Nat \ {0} BY <1>1, FeltsAssumption
<1>3. bits_per_felt * felts_per_item >= 1
  <2>1. item_bit_count_of(params) \in item_bit_count_min..item_bit_count_max
    BY ParamsAssumption DEF ValidParams
  <2>2. item_bit_count_of(params) >= item_bit_count_min /\ item_bit_count_min >= 1
    BY <2>1, LimitsAssumption
  <2>3. item_bit_count_of(params) = bits_per_felt * felts_per_item
    BY <1>1 DEF item_bit_count_of, item_bit_count_per_felt
  <2>4. item_bit_count_of(params) \in Int /\ item_bit_count_min \in Int BY <2>1, LimitsAssumption
  <2> QED BY <2>2, <2>3, <2>4
<1>4. bits_per_felt # 0 BY <1>2, <1>3
<1>5. item_bit_count \in Nat \ {0} BY <1>2, <1>3 DEF item_bit_count
<1> QED BY <1>1, <1>2, <1>4, <1>5, BundleAssumption, ModAssumption

LEMMA Division ==
  ASSUME NEW a \in Nat, NEW b \in Nat \ {0}
  PROVE  CeilDiv(a, b) \in Nat
<1>1. a + b - 1 \in Nat OBVIOUS
<1>2. \A x \in Nat : x \div b \in Nat BY SMT
<1> QED BY <1>1, <1>2 DEF CeilDiv

LEMMA BitRounds ==
  ASSUME NEW bits, Listing(bits)
  PROVE  \E g : /\ g[0] = 0 /\ g[Len(bits)] = BitsValue(bits)
                /\ \A k \in 0..(Len(bits) - 1) : g[k + 1] = bits[Len(bits) - k] + 2 * g[k]
<1> DEFINE n == Len(bits)
           h == CHOOSE h : Loop!IsUnrolling(h, "right", "bits", 0, 0, bits, n)
<1>0. n \in Nat /\ DOMAIN bits = 1..n BY ListingSeq DEF Listing
<1>1. Loop!IsUnrolling(h, "right", "bits", 0, 0, bits, n) BY <1>0, Loop!UnrollingExists
<1>2. BitsValue(bits) = h[1..n]
  BY <1>0 DEF BitsValue, FoldRight, MapThenFoldSet, Round, Max, Min, Loop!Max, Loop!Min,
     Loop!IsUnrolling, Loop!Unrolled, Loop!LastTaken
<1> HIDE DEF h
<1>3. PICK g : Loop!AreRounds(g, "right", "bits", 0, 0, bits, n) /\ g[n] = h[1..n]
  BY ONLY <1>0, <1>1, Loop!RoundByRound
<1>r. /\ g[0] = 0
      /\ \A k \in 0..(n - 1) : g[k + 1] = Round("bits", 0, bits[n - k], g[k])
  BY <1>3 DEF Loop!AreRounds
<1>4. \A k \in 0..(n - 1) : g[k + 1] = bits[n - k] + 2 * g[k] BY <1>r DEF Round
<1> QED BY <1>2, <1>3, <1>r, <1>4

\* Powers of two up to the modulus grow, and the last of them is beyond it.
LEMMA PowersGrow ==
  ASSUME PowersOfTwo
  PROVE  /\ \A n \in 0..mod : 2 ^ n \in Nat /\ 2 ^ n >= n + 1
         /\ \A m \in 0..mod : \A n \in 0..m : 2 ^ n <= 2 ^ m
<1> DEFINE T == {n \in Nat : n <= mod => 2 ^ n \in Nat /\ 2 ^ n >= n + 1}
<1>0. mod \in Nat BY ModAssumption
<1>z. 2 ^ 0 = 1 BY DEF PowersOfTwo
<1>n. \A n \in Nat : n + 1 <= mod => 2 ^ (n + 1) = 2 * 2 ^ n
  <2> SUFFICES ASSUME NEW n \in Nat, n + 1 <= mod PROVE 2 ^ (n + 1) = 2 * 2 ^ n OBVIOUS
  <2>1. n \in 0..(mod - 1) BY <1>0
  <2> QED BY <2>1 DEF PowersOfTwo
<1>1. 0 \in T
  <2>1. 2 ^ 0 \in Nat /\ 2 ^ 0 >= 0 + 1 BY <1>z
  <2> QED BY <2>1
<1>2. ASSUME NEW n \in T PROVE n + 1 \in T
  <2> SUFFICES ASSUME n + 1 <= mod PROVE 2 ^ (n + 1) \in Nat /\ 2 ^ (n + 1) >= (n + 1) + 1 OBVIOUS
  <2>1. n \in Nat /\ n <= mod BY <1>0
  <2>2. 2 ^ n \in Nat /\ 2 ^ n >= n + 1 BY <2>1
  <2>3. PICK x \in Nat : x = 2 ^ n BY <2>2
  <2>4. PICK y : y = 2 ^ (n + 1) OBVIOUS
  <2>5. y = 2 * x BY <1>n, <2>1, <2>3, <2>4
  <2>6. x >= n + 1 BY <2>2, <2>3
  <2>7. y \in Nat /\ y >= (n + 1) + 1 BY ONLY n \in Nat, x \in Nat, <2>1, <2>5, <2>6
  <2> QED BY <2>4, <2>7
<1>3. \A n \in 0..mod : 2 ^ n \in Nat /\ 2 ^ n >= n + 1
  <2>0. T \in SUBSET Nat OBVIOUS
  <2>1. T = Nat
    <3> HIDE DEF T
    <3> QED BY <1>1, <1>2, <2>0, InductionOnNat
  <2> SUFFICES ASSUME NEW n \in 0..mod PROVE 2 ^ n \in Nat /\ 2 ^ n >= n + 1 OBVIOUS
  <2>2. n \in Nat /\ n <= mod BY <1>0
  <2>3. n \in T BY <2>1, <2>2
  <2> QED BY <2>2, <2>3
<1> DEFINE U == {m \in Nat : m <= mod => \A n \in 0..m : 2 ^ n <= 2 ^ m}
<1>4. 0 \in U
  <2>1. \A n \in 0..0 : n = 0 OBVIOUS
  <2>2. \A n \in 0..0 : 2 ^ n <= 2 ^ 0
    <3> SUFFICES ASSUME NEW n \in 0..0 PROVE 2 ^ n <= 2 ^ 0 OBVIOUS
    <3>1. n = 0 BY <2>1
    <3> QED BY <1>z, <3>1
  <2> QED BY <2>2
<1>5. ASSUME NEW m \in U PROVE m + 1 \in U
  <2> SUFFICES ASSUME m + 1 <= mod, NEW n \in 0..(m + 1) PROVE 2 ^ n <= 2 ^ (m + 1) OBVIOUS
  <2>1. m \in Nat /\ m <= mod /\ m \in 0..mod /\ m + 1 \in 0..mod BY <1>0
  <2>2. PICK x \in Nat, y \in Nat : x = 2 ^ m /\ y = 2 ^ (m + 1) BY <1>3, <2>1
  <2>3. y = 2 * x BY <1>n, <2>1, <2>2
  <2>4. CASE n = m + 1 BY <2>2, <2>4
  <2>5. CASE n # m + 1
    <3>1. n \in 0..m BY <2>1, <2>5
    <3>2. n \in 0..mod BY <1>0, <2>1, <3>1
    <3>3. PICK z \in Nat : z = 2 ^ n BY <1>3, <3>2
    <3>4. z <= x BY <2>1, <2>2, <3>1, <3>3
    <3>5. z <= y BY ONLY x \in Nat, y \in Nat, z \in Nat, <2>3, <3>4
    <3> QED BY <2>2, <3>3, <3>5
  <2> QED BY <2>4, <2>5
<1>6. \A m \in 0..mod : \A n \in 0..m : 2 ^ n <= 2 ^ m
  <2>0. U \in SUBSET Nat OBVIOUS
  <2>1. U = Nat
    <3> HIDE DEF U
    <3> QED BY <1>4, <1>5, <2>0, InductionOnNat
  <2> SUFFICES ASSUME NEW m \in 0..mod PROVE \A n \in 0..m : 2 ^ n <= 2 ^ m OBVIOUS
  <2>2. m \in Nat /\ m <= mod BY <1>0
  <2>3. m \in U BY <2>1, <2>2
  <2> QED BY <2>2, <2>3
<1> QED BY <1>3, <1>6

\* bits_per_felt bits never reach the modulus.
LEMMA FeltWidth ==
  ASSUME PowersOfTwo
  PROVE  bits_per_felt \in 0..(mod - 1) /\ 2 ^ bits_per_felt <= mod
<1> DEFINE P == {n \in Nat : n <= mod /\ mod < 2 ^ n}
           Fits(n) == 2 ^ (n - 1) <= mod /\ mod < 2 ^ n
<1>0. mod \in Nat /\ mod >= 2 BY ModAssumption
<1>1. \A n \in 0..mod : 2 ^ n \in Nat /\ 2 ^ n >= n + 1 BY PowersGrow
<1>2. mod \in P
  <2>1. mod \in 0..mod BY <1>0
  <2>2. PICK x \in Nat : x = 2 ^ mod BY <1>1, <2>1
  <2>3. x >= mod + 1 BY <1>1, <2>1, <2>2
  <2>4. mod < x BY ONLY <1>0, x \in Nat, <2>3
  <2> QED BY <1>0, <2>2, <2>4
<1>3. PICK n \in P : \A m \in P : n <= m
  <2>1. P \in SUBSET Nat OBVIOUS
  <2> HIDE DEF P
  <2> QED BY <1>2, <2>1, LeastNat
<1>4. n \in Nat /\ n <= mod /\ mod < 2 ^ n BY <1>3
<1>5. n # 0
  <2>1. 2 ^ 0 = 1 BY DEF PowersOfTwo
  <2> SUFFICES ASSUME n = 0 PROVE FALSE OBVIOUS
  <2>2. mod < 1 BY <1>4, <2>1
  <2> QED BY <1>0, <2>2
<1>6. n \in 1..mod /\ n - 1 \in Nat /\ n - 1 \in 0..mod BY <1>0, <1>4, <1>5
<1>7. 2 ^ (n - 1) <= mod
  <2>1. PICK x \in Nat : x = 2 ^ (n - 1) BY <1>1, <1>6
  <2> SUFFICES ASSUME ~(x <= mod) PROVE FALSE BY <2>1
  <2>2. mod < x BY <1>0
  <2>3. n - 1 \in P BY <1>0, <1>4, <1>6, <2>1, <2>2
  <2>4. n <= n - 1 BY <1>3, <2>3
  <2> QED BY <1>4, <2>4
<1>8. \E k \in 1..mod : Fits(k) BY <1>4, <1>6, <1>7
<1> DEFINE c == CHOOSE k \in 1..mod : Fits(k)
<1>9. c \in 1..mod /\ Fits(c)
  <2> HIDE DEF Fits
  <2> QED BY <1>8
<1>10. bits_per_felt = c - 1 BY DEF bits_per_felt
<1> HIDE DEF c
<1>11. bits_per_felt \in 0..(mod - 1)  BY <1>0, <1>9, <1>10
<1> QED BY <1>9, <1>10, <1>11

\* A run of at most so many bits is a field element.
LEMMA BitsInField ==
  ASSUME PowersOfTwo, NEW bits \in Seq(Bit), Len(bits) <= bits_per_felt
  PROVE  BitsValue(bits) \in Felt
<1> DEFINE n == Len(bits)
<1>0. /\ n \in Nat /\ Listing(bits) /\ mod \in Nat /\ mod >= 2
      /\ \A k \in 1..n : bits[k] \in 0..1
  <2>1. n \in Nat /\ Listing(bits) BY ListingSeq DEF Listing
  <2>2. \A k \in 1..n : bits[k] \in 0..1
    <3>1. \A k \in 1..n : bits[k] \in Bit BY ElementOfSeq
    <3>2. Bit = 0..1 BY DEF Bit
    <3> QED BY <3>1, <3>2
  <2> QED BY <2>1, <2>2, ModAssumption
<1>1. bits_per_felt \in 0..(mod - 1) /\ 2 ^ bits_per_felt <= mod BY FeltWidth
<1>2. PICK g : /\ g[0] = 0 /\ g[n] = BitsValue(bits)
               /\ \A k \in 0..(n - 1) : g[k + 1] = bits[n - k] + 2 * g[k]
  BY <1>0, BitRounds
<1> DEFINE T == {k \in Nat : k <= n => g[k] \in Nat /\ g[k] + 1 <= 2 ^ k}
<1>3. 0 \in T
  <2>1. 2 ^ 0 = 1 BY DEF PowersOfTwo
  <2>2. g[0] \in Nat /\ g[0] + 1 <= 2 ^ 0 BY <1>2, <2>1
  <2> QED BY <2>2
<1>4. ASSUME NEW k \in T PROVE k + 1 \in T
  <2> SUFFICES ASSUME k + 1 <= n PROVE g[k + 1] \in Nat /\ g[k + 1] + 1 <= 2 ^ (k + 1) OBVIOUS
  <2>0. k \in Nat /\ k <= n BY <1>0
  <2>1. g[k] \in Nat /\ g[k] + 1 <= 2 ^ k BY <2>0
  <2>2. k \in 0..(n - 1) /\ n - k \in 1..n BY <1>0, <2>0
  <2>3. k \in 0..(mod - 1) /\ k \in 0..mod BY <1>0, <1>1, <2>0
  <2>4. PICK a \in Nat, b \in 0..1, x \in Nat : a = g[k] /\ b = bits[n - k] /\ x = 2 ^ k
    BY <1>0, <2>1, <2>2, <2>3, PowersGrow
  <2>y. PICK y : y = 2 ^ (k + 1) OBVIOUS
  <2>5. y = 2 * x BY <2>3, <2>4, <2>y DEF PowersOfTwo
  <2>6. g[k + 1] = b + 2 * a BY <1>2, <2>2, <2>4
  <2>7. a + 1 <= x BY <2>1, <2>4
  <2>8. b + 2 * a \in Nat /\ (b + 2 * a) + 1 <= y
    BY ONLY a \in Nat, b \in 0..1, x \in Nat, <2>5, <2>7
  <2> QED BY <2>y, <2>6, <2>8
<1>5. g[n] \in Nat /\ g[n] + 1 <= 2 ^ n
  <2>0. T \in SUBSET Nat OBVIOUS
  <2>1. T = Nat
    <3> HIDE DEF T
    <3> QED BY <1>3, <1>4, <2>0, InductionOnNat
  <2> QED BY <1>0, <2>1
<1>6. 2 ^ n <= 2 ^ bits_per_felt
  <2>1. bits_per_felt \in 0..mod /\ n \in 0..bits_per_felt BY <1>0, <1>1
  <2> QED BY <2>1, PowersGrow
<1>7. PICK v \in Nat, x \in Nat, y \in Nat : v = g[n] /\ x = 2 ^ n /\ y = 2 ^ bits_per_felt
  <2>1. bits_per_felt \in 0..mod /\ n \in 0..mod BY <1>0, <1>1
  <2> QED BY <1>5, <2>1, PowersGrow
<1>8. v + 1 <= x /\ x <= y /\ y <= mod BY <1>1, <1>5, <1>6, <1>7
<1>9. v \in 0..(mod - 1) BY ONLY <1>0, v \in Nat, x \in Nat, y \in Nat, <1>8
<1> QED BY <1>2, <1>7, <1>9 DEF Felt

\* Runs of bits: those of a field element, and all those of an item.
LEMMA FeltBitsTyped ==
  ASSUME NEW bits \in Seq(Bit), NEW j \in Nat \ {0}
  PROVE  FeltBits(bits, j) \in Seq(Bit) /\ Len(FeltBits(bits, j)) <= bits_per_felt
<1> DEFINE n == Len(bits)
           w == bits_per_felt
           first == (j - 1) * w + 1
           last == IF j * w < n THEN j * w ELSE n
<1>0. n \in Nat /\ w \in Nat \ {0} /\ \A k \in 1..n : bits[k] \in Bit
  BY ElementOfSeq, LenProperties, Sizes
<1>1. FeltBits(bits, j) = SubSeq(bits, first, last) BY DEF FeltBits
<1>2. PICK u \in Int, v \in Nat : u = j * w /\ v = (j - 1) * w
  <2>1. j * w \in Int /\ (j - 1) * w \in Nat BY <1>0, SMT
  <2> QED BY <2>1
<1>3. u = v + w
  <2>1. j * w = (j - 1) * w + w BY <1>0, SMT
  <2> QED BY <1>2, <2>1
<1> HIDE DEF n, w
<1>4. /\ first \in Int /\ last \in Int /\ first >= 1 /\ last <= n
      /\ last <= u /\ first = v + 1
  BY <1>0, <1>2
<1> HIDE DEF first, last
<1>5. \A i \in first..last : bits[i] \in Bit
  <2> SUFFICES ASSUME NEW i \in first..last PROVE bits[i] \in Bit OBVIOUS
  <2>1. i \in 1..n BY <1>0, <1>4
  <2> QED BY <1>0, <2>1
<1>6. /\ SubSeq(bits, first, last) \in Seq(Bit)
      /\ Len(SubSeq(bits, first, last)) = IF first <= last THEN last - first + 1 ELSE 0
  BY <1>4, <1>5, SubSeqProperties
<1>7. (IF first <= last THEN last - first + 1 ELSE 0) <= w BY <1>0, <1>3, <1>4
<1> QED BY <1>1, <1>6, <1>7 DEF w

\* All of the elements are field elements.
AllFelts(s) == \A k \in 1..Len(s) : s[k] \in Felt

LEMMA FeltsAppend ==
  ASSUME NEW s, Listing(s), AllFelts(s), NEW x \in Felt
  PROVE  AllFelts(Append(s, x))
<1>1. /\ Len(Append(s, x)) = Len(s) + 1 /\ Len(s) \in Nat
      /\ \A k \in 1..Len(s) : Append(s, x)[k] = s[k]
      /\ Append(s, x)[Len(s) + 1] = x
  BY ListingAppend DEF Listing
<1>n. PICK n \in Nat : n = Len(s) BY <1>1
<1>2. PICK t : n = Len(s) /\ t = Append(s, x) BY <1>n
<1>3. ASSUME NEW k \in 1..(n + 1) PROVE t[k] \in Felt
  <2>1. k \in 1..n \/ k = n + 1 OBVIOUS
  <2> QED BY <1>1, <1>2, <2>1 DEF AllFelts
<1> QED BY <1>1, <1>2, <1>3 DEF AllFelts

LEMMA FeltsExcept ==
  ASSUME NEW s, Listing(s), AllFelts(s), NEW p, NEW x \in Felt
  PROVE  AllFelts([s EXCEPT ![p] = x])
<1>1. DOMAIN s = 1..Len(s) /\ Len([s EXCEPT ![p] = x]) = Len(s) BY ListingSeq, ListingExcept
<1> QED BY <1>1 DEF AllFelts

LEMMA FeltsRemove ==
  ASSUME NEW s, Listing(s), AllFelts(s), NEW p \in 1..Len(s)
  PROVE  AllFelts(RemoveAt(s, p))
<1>1. /\ Len(RemoveAt(s, p)) = Len(s) - 1
      /\ \A k \in 1..(Len(s) - 1) : \E j \in 1..Len(s) : RemoveAt(s, p)[k] = s[j]
  BY ListingRemoveAt
<1> QED BY <1>1 DEF AllFelts

LEMMA FeltsTyped ==
  ASSUME NEW bits \in Seq(Bit)
  PROVE  /\ Listing(BitsToFieldElts(bits))
         /\ Len(BitsToFieldElts(bits)) = CeilDiv(Len(bits), bits_per_felt)
         /\ PowersOfTwo => AllFelts(BitsToFieldElts(bits))
<1> DEFINE n == CeilDiv(Len(bits), bits_per_felt)
           felts == [j \in 1..n |-> BitsValue(FeltBits(bits, j))]
<1>0. n \in Nat
  <2>1. Len(bits) \in Nat BY LenProperties
  <2> QED BY <2>1, Division, Sizes
<1>1. BitsToFieldElts(bits) = felts BY DEF BitsToFieldElts
<1> HIDE DEF n
<1>2. felts = [j \in 1..n |-> felts[j]] OBVIOUS
<1>3. ASSUME PowersOfTwo, NEW j \in 1..n PROVE felts[j] \in Felt
  <2>1. FeltBits(bits, j) \in Seq(Bit) /\ Len(FeltBits(bits, j)) <= bits_per_felt
    <3>1. j \in Nat \ {0} BY <1>0
    <3> QED BY <3>1, FeltBitsTyped
  <2>2. BitsValue(FeltBits(bits, j)) \in Felt BY <1>3, <2>1, BitsInField
  <2> QED BY <2>2
<1> HIDE DEF felts
<1>4. Listing(felts) /\ Len(felts) = n BY <1>0, <1>2, ListingOf
<1> QED BY <1>1, <1>3, <1>4 DEF AllFelts, n

\* An item takes felts_per_item field elements.
LEMMA ItemTyped ==
  ASSUME NEW item \in Seq(Bit), Len(item) >= item_bit_count
  PROVE  /\ Listing(AlgebraizeItem(item)) /\ Len(AlgebraizeItem(item)) = felts_per_item
         /\ PowersOfTwo => AllFelts(AlgebraizeItem(item))
<1> DEFINE bits == SubSeq(item, 1, item_bit_count)
<1>0. /\ item_bit_count \in Nat \ {0} /\ Len(item) \in Nat /\ bits_per_felt \in Nat \ {0}
      /\ felts_per_item \in Nat \ {0} /\ \A k \in 1..Len(item) : item[k] \in Bit
  BY ElementOfSeq, LenProperties, Sizes
<1>1. bits \in Seq(Bit) /\ Len(bits) = item_bit_count
  <2>1. 1 \in Int /\ item_bit_count \in Int /\ \A i \in 1..item_bit_count : item[i] \in Bit
    <3> SUFFICES ASSUME NEW i \in 1..item_bit_count PROVE item[i] \in Bit BY <1>0
    <3>1. i \in 1..Len(item) BY <1>0
    <3> QED BY <1>0, <3>1
  <2>2. (IF 1 <= item_bit_count THEN item_bit_count - 1 + 1 ELSE 0) = item_bit_count BY <1>0
  <2> QED BY <2>1, <2>2, SubSeqProperties
<1>2. CeilDiv(item_bit_count, bits_per_felt) = felts_per_item
  <2>1. ASSUME NEW w \in Nat \ {0}, NEW f \in Nat PROVE (w * f + w - 1) \div w = f
    <3>1. PICK x \in Int : x = w * f BY SMT
    <3>2. (x + w - 1) \div w = f BY <3>1, SMT
    <3> QED BY <3>1, <3>2
  <2> QED BY <1>0, <2>1 DEF CeilDiv, item_bit_count
<1>3. AlgebraizeItem(item) = BitsToFieldElts(bits) BY DEF AlgebraizeItem
<1> HIDE DEF bits
<1> QED BY <1>1, <1>2, <1>3, FeltsTyped

\* A label's rows, one for each of an item's field elements.
LEMMA LabelTyped ==
  ASSUME NEW label \in Seq(Bit), NEW f \in 1..felts_per_item
  PROVE  PowersOfTwo => AllFelts(AlgebraizeLabel(label)[f])
<1> DEFINE felts == BitsToFieldElts(label)
           rows == CeilDiv(Len(felts), felts_per_item)
           row == [p \in 1..rows |-> LET k == felts_per_item * (p - 1) + f
                                     IN  IF k <= Len(felts) THEN felts[k] ELSE 0]
<1>1. Listing(felts) /\ Len(felts) \in Nat /\ (PowersOfTwo => AllFelts(felts))
  BY FeltsTyped DEF Listing
<1>2. AlgebraizeLabel(label)[f] = row BY DEF AlgebraizeLabel
<1> HIDE DEF felts
<1>3. rows \in Nat BY <1>1, Division, Sizes
<1> HIDE DEF rows
<1>4. ASSUME PowersOfTwo, NEW p \in 1..rows PROVE row[p] \in Felt
  <2>1. PICK q \in Nat : q = felts_per_item * (p - 1)
    <3>1. \A m \in Nat, x \in Nat : m * x \in Nat BY SMT
    <3>2. p - 1 \in Nat /\ felts_per_item \in Nat BY <1>3, Sizes
    <3> QED BY <3>1, <3>2
  <2>2. row[p] = IF q + f <= Len(felts) THEN felts[q + f] ELSE 0 BY <2>1
  <2>3. q + f \in Nat \ {0} BY Sizes
  <2>4. 0 \in Felt BY ModAssumption DEF Felt
  <2>5. CASE q + f <= Len(felts)
    <3>1. q + f \in 1..Len(felts) BY <1>1, <2>3, <2>5
    <3> QED BY <1>1, <1>4, <2>2, <2>5, <3>1 DEF AllFelts
  <2>6. CASE ~(q + f <= Len(felts)) BY <2>2, <2>4, <2>6
  <2> QED BY <2>5, <2>6
<1>5. row = [p \in 1..rows |-> row[p]] OBVIOUS
<1> HIDE DEF row
<1>6. Listing(row) /\ Len(row) = rows BY <1>3, <1>5, ListingOf
<1> QED BY <1>2, <1>4, <1>6 DEF AllFelts

-----------------------------------------------------------------------------
(* The cuckoo filter of a bin. *)

Buckets == DOMAIN EmptyFilter(max_bin_size).table
Tags == {TagOf(x) : x \in Felt}
FirstHome(x) == Index1(EmptyFilter(max_bin_size), x)
Homes(x) == {FirstHome(x), Other(FirstHome(x), TagOf(x))}

\* The places for tags: those of the table, and the one in hand, which insertion carries along
\* and the filter keeps as its overflow entry.
Hand == <<-1, 0>>
TablePlaces == Buckets \X (1..tags_per_bucket)
TagPlaces == TablePlaces \cup {Hand}

StoreOf(filter) == [table |-> filter.table, idx |-> filter.overflow.index,
                    tag |-> filter.overflow.tag, done |-> ~filter.overflow.used]

IsStore(s) ==
  /\ s = [table |-> s.table, idx |-> s.idx, tag |-> s.tag, done |-> s.done]
  /\ s.table \in [Buckets -> [1..tags_per_bucket -> Tags \cup {0}]]
  /\ s.done \in BOOLEAN
  /\ ~s.done => s.idx \in Buckets /\ s.tag \in Tags

\* The tag of x is at place p, in a bucket where the filter looks for it.
Lies(s, p, x) ==
  IF p = Hand THEN ~s.done /\ s.tag = TagOf(x) /\ s.idx \in Homes(x)
  ELSE s.table[p[1]][p[2]] = TagOf(x) /\ p[1] \in Homes(x)

\* Each item has a place of its own.
Holds(s, items) ==
  \E m \in [1..Len(items) -> TagPlaces] :
    /\ \A j, k \in 1..Len(items) : m[j] = m[k] => j = k
    /\ \A k \in 1..Len(items) : Lies(s, m[k], items[k])

Swapped(p, q, r) == IF r = p THEN q ELSE IF r = q THEN p ELSE r

\* Two places exchange their tags.
LEMMA SwapHolds ==
  ASSUME NEW s, NEW t, NEW items, NEW p \in TagPlaces, NEW q \in TagPlaces,
         Listing(items), AllFelts(items),
         \A r \in TagPlaces, x \in Felt : Lies(s, r, x) => Lies(t, Swapped(p, q, r), x),
         Holds(s, items)
  PROVE  Holds(t, items)
<1>1. PICK m \in [1..Len(items) -> TagPlaces] :
        /\ \A j, k \in 1..Len(items) : m[j] = m[k] => j = k
        /\ \A k \in 1..Len(items) : Lies(s, m[k], items[k])
  BY DEF Holds
<1> DEFINE n == [k \in 1..Len(items) |-> Swapped(p, q, m[k])]
<1>2. n \in [1..Len(items) -> TagPlaces] BY <1>1 DEF Swapped
<1>3. ASSUME NEW j \in 1..Len(items), NEW k \in 1..Len(items), n[j] = n[k] PROVE j = k
  <2>1. Swapped(p, q, m[j]) = Swapped(p, q, m[k]) BY <1>3
  <2>2. m[j] = m[k] BY <2>1 DEF Swapped
  <2> QED BY <1>1, <2>2
<1>4. ASSUME NEW k \in 1..Len(items) PROVE Lies(t, n[k], items[k])
  <2>1. Lies(s, m[k], items[k]) /\ m[k] \in TagPlaces /\ items[k] \in Felt BY <1>1 DEF AllFelts
  <2> QED BY <2>1
<1> HIDE DEF n
<1> QED BY <1>2, <1>3, <1>4 DEF Holds

\* A tag comes into the hand.
LEMMA TakenHolds ==
  ASSUME NEW s, NEW t, NEW items, Listing(items), AllFelts(items), NEW x \in Felt,
         \A r \in TablePlaces, y \in Felt : Lies(s, r, y) => Lies(t, r, y),
         s.done, Lies(t, Hand, x), Holds(s, items)
  PROVE  Holds(t, Append(items, x))
<1> DEFINE n == Len(items)
           new == Append(items, x)
<1>0. n \in Nat BY DEF Listing
<1>1. PICK m \in [1..n -> TagPlaces] :
        /\ \A j, k \in 1..n : m[j] = m[k] => j = k
        /\ \A k \in 1..n : Lies(s, m[k], items[k])
  BY DEF Holds
<1>2. \A k \in 1..n : m[k] # Hand /\ m[k] \in TablePlaces
  <2>1. \A y : ~Lies(s, Hand, y) BY DEF Lies
  <2> QED BY <1>1, <2>1 DEF TagPlaces
<1>3. /\ Len(new) = n + 1 /\ new[n + 1] = x /\ \A k \in 1..n : new[k] = items[k]
  BY ListingAppend
<1> HIDE DEF new
<1> DEFINE l == [k \in 1..(n + 1) |-> IF k = n + 1 THEN Hand ELSE m[k]]
<1>4. \A k \in 1..(n + 1) : k = n + 1 \/ k \in 1..n BY <1>0
<1>5. l \in [1..(n + 1) -> TagPlaces] BY <1>1, <1>4 DEF TagPlaces
<1>6. ASSUME NEW j \in 1..(n + 1), NEW k \in 1..(n + 1), l[j] = l[k] PROVE j = k
  BY <1>1, <1>2, <1>4, <1>6
<1>7. ASSUME NEW k \in 1..(n + 1) PROVE Lies(t, l[k], new[k])
  <2>1. CASE k = n + 1 BY <1>3, <2>1
  <2>2. CASE k \in 1..n /\ k # n + 1
    <3>1. l[k] = m[k] /\ new[k] = items[k] /\ items[k] \in Felt BY <1>3, <2>2 DEF AllFelts
    <3>2. Lies(s, m[k], items[k]) /\ m[k] \in TablePlaces BY <1>1, <1>2, <2>2
    <3> QED BY <3>1, <3>2
  <2> QED BY <1>4, <2>1, <2>2
<1> HIDE DEF l
<1> QED BY <1>3, <1>5, <1>6, <1>7 DEF Holds, new

\* Which element is where after one has been taken out.
LEMMA RemovedAt ==
  ASSUME NEW s, Listing(s), NEW p \in 1..Len(s)
  PROVE  /\ Listing(RemoveAt(s, p)) /\ Len(RemoveAt(s, p)) = Len(s) - 1
         /\ \A k \in 1..(Len(s) - 1) : RemoveAt(s, p)[k] = s[IF k < p THEN k ELSE k + 1]
<1> DEFINE S == {s[k] : k \in 1..Len(s)}
           n == Len(s)
           u == SubSeq(s, 1, p - 1)
           v == SubSeq(s, p + 1, n)
<1>0. n \in Nat /\ p \in 1..n /\ \A k \in 1..n : s[k] \in S BY DEF Listing
<1> HIDE DEF S
<1>1. /\ u \in Seq(S) /\ Len(u) = p - 1
      /\ \A i \in 1..(p - 1) : u[i] = s[1 + i - 1]
  <2>1. 1 \in Int /\ p - 1 \in Int /\ \A i \in 1..(p - 1) : s[i] \in S BY <1>0
  <2>2. (IF 1 <= p - 1 THEN (p - 1) - 1 + 1 ELSE 0) = p - 1 BY <1>0
  <2> QED BY <2>1, <2>2, SubSeqProperties
<1>2. /\ v \in Seq(S) /\ Len(v) = n - p
      /\ \A i \in 1..(n - p) : v[i] = s[(p + 1) + i - 1]
  <2>1. p + 1 \in Int /\ n \in Int /\ \A i \in (p + 1)..n : s[i] \in S BY <1>0
  <2>2. (IF p + 1 <= n THEN n - (p + 1) + 1 ELSE 0) = n - p BY <1>0
  <2> QED BY <2>1, <2>2, SubSeqProperties
<1>3. RemoveAt(s, p) = u \o v BY DEF RemoveAt
<1> HIDE DEF u, v
<1>4. /\ Len(u \o v) = Len(u) + Len(v)
      /\ \A i \in 1..(Len(u) + Len(v)) :
           (u \o v)[i] = IF i <= Len(u) THEN u[i] ELSE v[i - Len(u)]
  BY <1>1, <1>2, ConcatProperties
<1>5. ASSUME NEW k \in 1..(n - 1) PROVE RemoveAt(s, p)[k] = s[IF k < p THEN k ELSE k + 1]
  <2>1. k \in 1..((p - 1) + (n - p)) BY <1>0
  <2>2. RemoveAt(s, p)[k] = IF k <= p - 1 THEN u[k] ELSE v[k - (p - 1)]
    BY <1>1, <1>2, <1>3, <1>4, <2>1
  <2>3. CASE k < p
    <3>1. k <= p - 1 /\ k \in 1..(p - 1) /\ 1 + k - 1 = k BY <1>0, <2>3
    <3> QED BY <1>1, <2>2, <2>3, <3>1
  <2>4. CASE ~(k < p)
    <3>1. ~(k <= p - 1) /\ k - (p - 1) \in 1..(n - p) /\ (p + 1) + (k - (p - 1)) - 1 = k + 1
      BY <1>0, <2>4
    <3> QED BY <1>2, <2>2, <2>4, <3>1
  <2> QED BY <2>3, <2>4
<1> QED BY <1>5, ListingRemoveAt

\* Two items with a tag at the same place have the same buckets.
LEMMA HomesMeet ==
  ASSUME BucketsPaired, NEW x \in Felt, NEW y \in Felt, TagOf(x) = TagOf(y),
         NEW b \in Homes(x), b \in Homes(y)
  PROVE  Homes(x) = Homes(y)
<1>1. /\ FirstHome(x) \in Buckets /\ FirstHome(y) \in Buckets
      /\ \A c \in Buckets : /\ Other(c, TagOf(x)) \in Buckets
                            /\ Other(Other(c, TagOf(x)), TagOf(x)) = c
  BY DEF BucketsPaired, Buckets, FirstHome, Other
<1>2. Homes(x) = {b, Other(b, TagOf(x))} BY <1>1 DEF Homes
<1>3. Homes(y) = {b, Other(b, TagOf(x))} BY <1>1 DEF Homes
<1> QED BY <1>2, <1>3

\* The tag of an item leaves its place: what had that place has the item's.
LEMMA GivenHolds ==
  ASSUME BucketsPaired, NEW s, NEW t, NEW items, Listing(items), AllFelts(items),
         NEW j \in 1..Len(items), NEW p \in TagPlaces, Lies(s, p, items[j]),
         \A r \in TagPlaces, y \in Felt : Lies(s, r, y) /\ r # p => Lies(t, r, y),
         Holds(s, items)
  PROVE  Holds(t, RemoveAt(items, j))
<1> DEFINE n == Len(items)
           new == RemoveAt(items, j)
<1>0. n \in Nat BY DEF Listing
<1>1. PICK m \in [1..n -> TagPlaces] :
        /\ \A i, k \in 1..n : m[i] = m[k] => i = k
        /\ \A k \in 1..n : Lies(s, m[k], items[k])
  BY DEF Holds
<1> DEFINE l == [k \in 1..n |-> IF k = j THEN p ELSE IF m[k] = p THEN m[j] ELSE m[k]]
<1>2. l \in [1..n -> TagPlaces] BY <1>1
<1>3. \A i, k \in 1..n : l[i] = l[k] => i = k BY <1>1
<1>4. ASSUME NEW k \in 1..n PROVE Lies(s, l[k], items[k])
  <2>1. CASE k = j BY <2>1
  <2>2. CASE k # j /\ m[k] # p BY <1>1, <2>2
  <2>3. CASE k # j /\ m[k] = p
    <3> DEFINE x == items[j]
               y == items[k]
    <3>1. x \in Felt /\ y \in Felt BY DEF AllFelts
    <3>2. Lies(s, p, x) /\ Lies(s, p, y) /\ Lies(s, m[j], x) BY <1>1, <2>3
    <3> HIDE DEF x, y
    <3>3. TagOf(x) = TagOf(y) /\ \E b \in Homes(x) : b \in Homes(y) BY <3>2 DEF Lies
    <3>4. Homes(x) = Homes(y) BY <3>1, <3>3, HomesMeet
    <3>5. Lies(s, m[j], y) BY <3>2, <3>3, <3>4 DEF Lies
    <3>6. l[k] = m[j] BY <2>3
    <3> QED BY <3>5, <3>6 DEF y
  <2> QED BY <2>1, <2>2, <2>3
<1>5. l[j] = p OBVIOUS
<1> HIDE DEF l
<1>6. Len(new) = n - 1 /\ \A k \in 1..(n - 1) : new[k] = items[IF k < j THEN k ELSE k + 1]
  BY RemovedAt
<1> HIDE DEF new
<1> DEFINE at(k) == IF k < j THEN k ELSE k + 1
           o == [k \in 1..(n - 1) |-> l[at(k)]]
<1>7. \A k \in 1..(n - 1) : at(k) \in 1..n /\ at(k) # j BY <1>0
<1>8. \A i, k \in 1..(n - 1) : at(i) = at(k) => i = k BY <1>0
<1>9. \A k \in 1..(n - 1) : new[k] = items[at(k)] BY <1>6
<1> HIDE DEF at
<1>10. o \in [1..(n - 1) -> TagPlaces] BY <1>2, <1>7
<1>11. \A i, k \in 1..(n - 1) : o[i] = o[k] => i = k BY <1>3, <1>7, <1>8
<1>12. ASSUME NEW k \in 1..(n - 1) PROVE Lies(t, o[k], new[k])
  <2>1. at(k) \in 1..n /\ at(k) # j /\ o[k] = l[at(k)] /\ new[k] = items[at(k)] BY <1>7, <1>9
  <2>2. l[at(k)] # p /\ l[at(k)] \in TagPlaces /\ Lies(s, l[at(k)], items[at(k)])
    BY <1>2, <1>3, <1>4, <1>5, <2>1
  <2>3. items[at(k)] \in Felt BY <2>1 DEF AllFelts
  <2>4. Lies(t, l[at(k)], items[at(k)]) BY <2>2, <2>3
  <2> QED BY <2>1, <2>4
<1> HIDE DEF o
<1> QED BY <1>6, <1>10, <1>11, <1>12 DEF Holds, new

\* What insertion, removal and lookup need of the buckets.
LEMMA BucketsAre ==
  ASSUME BucketsPaired
  PROVE  /\ Buckets = 0..(NumBuckets(max_bin_size) - 1)
         /\ \A x \in Felt : FirstHome(x) \in Buckets /\ Homes(x) \subseteq Buckets
         /\ \A b \in Buckets, tag \in Tags : Other(b, tag) \in Buckets /\ Other(Other(b, tag), tag) = b
         /\ \A b \in Buckets, x \in Felt : b \in Homes(x) => Other(b, TagOf(x)) \in Homes(x)
<1>1. Buckets = 0..(NumBuckets(max_bin_size) - 1) BY DEF Buckets, EmptyFilter
<1>2. \A x \in Felt : /\ FirstHome(x) \in Buckets
                      /\ \A b \in Buckets : /\ Other(b, TagOf(x)) \in Buckets
                                            /\ Other(Other(b, TagOf(x)), TagOf(x)) = b
  BY DEF BucketsPaired, Buckets, FirstHome, Other
<1>3. \A b \in Buckets, tag \in Tags : Other(b, tag) \in Buckets /\ Other(Other(b, tag), tag) = b
  BY <1>2 DEF Tags
<1>4. \A x \in Felt : Homes(x) \subseteq Buckets BY <1>2 DEF Homes
<1>5. \A b \in Buckets, x \in Felt : b \in Homes(x) => Other(b, TagOf(x)) \in Homes(x)
  BY <1>2 DEF Homes
<1> QED BY <1>1, <1>2, <1>3, <1>4, <1>5

\* The table with another tag at one place.
LEMMA Written ==
  ASSUME NEW table \in [Buckets -> [1..tags_per_bucket -> Tags \cup {0}]],
         NEW b \in Buckets, NEW i \in 1..tags_per_bucket, NEW tag \in Tags \cup {0}
  PROVE  /\ WriteTag(table, b, i, tag) \in [Buckets -> [1..tags_per_bucket -> Tags \cup {0}]]
         /\ \A p \in TablePlaces : WriteTag(table, b, i, tag)[p[1]][p[2]] =
                                     IF p = <<b, i>> THEN tag ELSE table[p[1]][p[2]]
<1>1. WriteTag(table, b, i, tag) \in [Buckets -> [1..tags_per_bucket -> Tags \cup {0}]]
  BY DEF WriteTag
<1>2. ASSUME NEW p \in TablePlaces
      PROVE  WriteTag(table, b, i, tag)[p[1]][p[2]] = IF p = <<b, i>> THEN tag ELSE table[p[1]][p[2]]
  <2>1. PICK c \in Buckets, j \in 1..tags_per_bucket : p = <<c, j>> BY DEF TablePlaces
  <2>2. WriteTag(table, b, i, tag)[c][j] = IF c = b /\ j = i THEN tag ELSE table[c][j]
    BY DEF WriteTag
  <2>3. p[1] = c /\ p[2] = j /\ (p = <<b, i>> <=> c = b /\ j = i) BY <2>1
  <2> QED BY <2>2, <2>3
<1> QED BY <1>1, <1>2

LEMMA FirstIs ==
  ASSUME NEW places \in SUBSET (1..tags_per_bucket), places # {}
  PROVE  First(places) \in places
<1>1. tags_per_bucket \in Nat BY FilterAssumption
<1>2. \A x \in places : x \in Nat BY <1>1
<1>3. places \in SUBSET Nat BY <1>2
<1>4. \E i \in places : \A j \in places : i <= j BY <1>3, LeastNat
<1> QED BY <1>4 DEF First

\* A round keeps what the store holds: a free place takes the tag in hand, or a tag in the table
\* is exchanged for it, or the hand turns to its other bucket.
LEMMA KickHolds ==
  ASSUME BucketsPaired, NEW s, IsStore(s), NEW k \in 1..max_cuckoo_kicks
  PROVE  /\ IsStore(Kick(s, k))
         /\ \A items : Listing(items) /\ AllFelts(items) /\ Holds(s, items) => Holds(Kick(s, k), items)
<1> DEFINE t == InsertTag(s.table, s.idx, s.tag, k > 1, k)
           new == Kick(s, k)
           free == PlacesOf(s.table, s.idx, 0)
<1>1. CASE s.done BY <1>1 DEF Kick
<1>2. CASE ~s.done
  <2>0. /\ s.table \in [Buckets -> [1..tags_per_bucket -> Tags \cup {0}]]
        /\ s.idx \in Buckets /\ s.tag \in Tags /\ s.done = FALSE
    BY <1>2 DEF IsStore
  <2>t. 0 \notin Tags /\ \A x \in Felt : TagOf(x) \in Tags /\ TagOf(x) # 0
    BY FilterAssumption DEF Tags
  <2>h. \A p \in TablePlaces : p # Hand
    <3>1. Buckets \subseteq Nat BY BucketsAre
    <3> QED BY <3>1 DEF TablePlaces, Hand
  <2>1. CASE free # {}
    <3> DEFINE i == First(free)
               table == WriteTag(s.table, s.idx, i, s.tag)
    <3>1. i \in free /\ i \in 1..tags_per_bucket /\ s.table[s.idx][i] = 0
      <4>1. free \in SUBSET (1..tags_per_bucket) BY DEF PlacesOf
      <4>2. i \in free BY <2>1, <4>1, FirstIs
      <4> QED BY <4>2 DEF PlacesOf, ReadTag
    <3>2. new = [table |-> table, idx |-> s.idx, tag |-> s.tag, done |-> TRUE]
      <4>1. t.done = TRUE /\ t.table = table BY <2>1 DEF InsertTag
      <4>2. new = [s EXCEPT !.table = t.table, !.done = TRUE] BY <1>2, <4>1 DEF Kick
      <4> HIDE DEF new, t, table
      <4> QED BY <4>1, <4>2 DEF IsStore
    <3>3. /\ table \in [Buckets -> [1..tags_per_bucket -> Tags \cup {0}]]
          /\ \A p \in TablePlaces : table[p[1]][p[2]] =
               IF p = <<s.idx, i>> THEN s.tag ELSE s.table[p[1]][p[2]]
      BY <2>0, <3>1, Written
    <3> HIDE DEF table, i, new
    <3>4. IsStore(new) BY <3>2, <3>3 DEF IsStore
    <3> DEFINE p == <<s.idx, i>>
    <3>5. p \in TablePlaces /\ p[1] = s.idx /\ p[2] = i BY <2>0, <3>1 DEF TablePlaces
    <3> HIDE DEF p
    <3>6. ASSUME NEW r \in TagPlaces, NEW x \in Felt, Lies(s, r, x)
          PROVE  Lies(new, Swapped(Hand, p, r), x)
      <4>1. CASE r = Hand
        <5>1. Swapped(Hand, p, r) = p /\ p # Hand BY <2>h, <3>5, <4>1 DEF Swapped
        <5>2. s.tag = TagOf(x) /\ s.idx \in Homes(x) BY <3>6, <4>1 DEF Lies
        <5>3. new.table[p[1]][p[2]] = s.tag BY <3>2, <3>3, <3>5 DEF p
        <5> QED BY <3>5, <5>1, <5>2, <5>3 DEF Lies
      <4>2. CASE r # Hand
        <5>1. r \in TablePlaces BY <4>2 DEF TagPlaces
        <5>2. s.table[r[1]][r[2]] = TagOf(x) /\ r[1] \in Homes(x) BY <3>6, <4>2 DEF Lies
        <5>3. r # p BY <2>t, <3>1, <3>5, <5>2
        <5>4. Swapped(Hand, p, r) = r BY <4>2, <5>3 DEF Swapped
        <5>5. new.table[r[1]][r[2]] = s.table[r[1]][r[2]] BY <3>2, <3>3, <5>1, <5>3 DEF p
        <5> QED BY <4>2, <5>2, <5>4, <5>5 DEF Lies
      <4> QED BY <4>1, <4>2
    <3>7. Hand \in TagPlaces /\ p \in TagPlaces BY <3>5 DEF TagPlaces
    <3>8. \A items : Listing(items) /\ AllFelts(items) /\ Holds(s, items) => Holds(new, items)
      BY ONLY <3>6, <3>7, SwapHolds
    <3> QED BY <3>4, <3>8 DEF new
  <2>2. CASE free = {} /\ k > 1
    <3> DEFINE i == VictimAt(k)
               old == s.table[s.idx][i]
               table == WriteTag(s.table, s.idx, i, s.tag)
    <3>1. i \in 1..tags_per_bucket BY FilterAssumption
    <3>2. old \in Tags
      <4>1. old \in Tags \cup {0} BY <2>0, <3>1
      <4>2. old # 0 BY <2>2, <3>1 DEF PlacesOf, ReadTag
      <4> QED BY <4>1, <4>2
    <3>3. new = [table |-> table, idx |-> Other(s.idx, old), tag |-> old, done |-> FALSE]
      <4>1. t.done = FALSE /\ t.table = table /\ t.old = old BY <2>2 DEF InsertTag, ReadTag
      <4> HIDE DEF t
      <4> QED BY <1>2, <4>1 DEF Kick, t
    <3>4. /\ table \in [Buckets -> [1..tags_per_bucket -> Tags \cup {0}]]
          /\ \A p \in TablePlaces : table[p[1]][p[2]] =
               IF p = <<s.idx, i>> THEN s.tag ELSE s.table[p[1]][p[2]]
      BY <2>0, <3>1, Written
    <3>5. /\ Other(s.idx, old) \in Buckets
          /\ \A x \in Felt : old = TagOf(x) /\ s.idx \in Homes(x) => Other(s.idx, old) \in Homes(x)
      BY <2>0, <3>2, BucketsAre
    <3> DEFINE p == <<s.idx, i>>
    <3>6. p \in TablePlaces /\ p[1] = s.idx /\ p[2] = i BY <2>0, <3>1 DEF TablePlaces
    <3>7. s.table[p[1]][p[2]] = old BY <3>6
    <3> HIDE DEF table, i, new, old, p
    <3>8. IsStore(new) BY <3>2, <3>3, <3>4, <3>5 DEF IsStore
    <3>9. ASSUME NEW r \in TagPlaces, NEW x \in Felt, Lies(s, r, x)
          PROVE  Lies(new, Swapped(Hand, p, r), x)
      <4>1. CASE r = Hand
        <5>1. Swapped(Hand, p, r) = p /\ p # Hand BY <2>h, <3>6, <4>1 DEF Swapped
        <5>2. s.tag = TagOf(x) /\ s.idx \in Homes(x) BY <3>9, <4>1 DEF Lies
        <5>3. new.table[p[1]][p[2]] = s.tag BY <3>3, <3>4, <3>6 DEF p
        <5> QED BY <3>6, <5>1, <5>2, <5>3 DEF Lies
      <4>2. CASE r = p
        <5>1. Swapped(Hand, p, r) = Hand BY <2>h, <3>6, <4>2 DEF Swapped
        <5>2. old = TagOf(x) /\ s.idx \in Homes(x) BY <2>h, <3>6, <3>7, <3>9, <4>2 DEF Lies
        <5>3. Other(s.idx, old) \in Homes(x) BY <3>5, <5>2
        <5> QED BY <3>3, <5>1, <5>2, <5>3 DEF Lies
      <4>3. CASE r # Hand /\ r # p
        <5>1. r \in TablePlaces BY <4>3 DEF TagPlaces
        <5>2. s.table[r[1]][r[2]] = TagOf(x) /\ r[1] \in Homes(x) BY <3>9, <4>3 DEF Lies
        <5>4. Swapped(Hand, p, r) = r BY <4>3 DEF Swapped
        <5>5. new.table[r[1]][r[2]] = s.table[r[1]][r[2]] BY <3>3, <3>4, <4>3, <5>1 DEF p
        <5> QED BY <4>3, <5>2, <5>4, <5>5 DEF Lies
      <4> QED BY <4>1, <4>2, <4>3
    <3>10. Hand \in TagPlaces /\ p \in TagPlaces BY <3>6 DEF TagPlaces
    <3>11. \A items : Listing(items) /\ AllFelts(items) /\ Holds(s, items) => Holds(new, items)
      BY ONLY <3>9, <3>10, SwapHolds
    <3> QED BY <3>8, <3>11 DEF new
  <2>3. CASE free = {} /\ ~(k > 1)
    <3>1. new = [table |-> s.table, idx |-> Other(s.idx, s.tag), tag |-> s.tag, done |-> FALSE]
      <4>1. t.done = FALSE /\ t.table = s.table /\ t.old = s.tag BY <2>3 DEF InsertTag
      <4> HIDE DEF t
      <4> QED BY <1>2, <4>1 DEF Kick, t
    <3>2. /\ Other(s.idx, s.tag) \in Buckets
          /\ \A x \in Felt : s.tag = TagOf(x) /\ s.idx \in Homes(x) => Other(s.idx, s.tag) \in Homes(x)
      BY <2>0, BucketsAre
    <3> HIDE DEF new
    <3>3. IsStore(new) BY <2>0, <3>1, <3>2 DEF IsStore
    <3>4. ASSUME NEW r \in TagPlaces, NEW x \in Felt, Lies(s, r, x)
          PROVE  Lies(new, Swapped(Hand, Hand, r), x)
      <4>1. Swapped(Hand, Hand, r) = r BY DEF Swapped
      <4>2. CASE r = Hand BY <3>1, <3>2, <3>4, <4>1, <4>2 DEF Lies
      <4>3. CASE r # Hand BY <3>1, <3>4, <4>1, <4>3 DEF Lies
      <4> QED BY <4>2, <4>3
    <3>5. Hand \in TagPlaces BY DEF TagPlaces
    <3>6. \A items : Listing(items) /\ AllFelts(items) /\ Holds(s, items) => Holds(new, items)
      BY ONLY <3>4, <3>5, SwapHolds
    <3> QED BY <3>3, <3>6 DEF new
  <2> QED BY <2>1, <2>2, <2>3
<1> QED BY <1>1, <1>2

LEMMA KickRounds ==
  ASSUME NEW base
  PROVE  \E g : g[0] = base /\ \A k \in 0..(max_cuckoo_kicks - 1) : g[k + 1] = Kick(g[k], k + 1)
<1> DEFINE n == max_cuckoo_kicks
           at == [k \in 1..n |-> k]
           h == CHOOSE h : Loop!IsUnrolling(h, "left", "kick", 0, base, at, n)
<1>0. n \in Nat BY FilterAssumption
<1>1. Loop!IsUnrolling(h, "left", "kick", 0, base, at, n) BY <1>0, Loop!UnrollingExists
<1> HIDE DEF h, at
<1>3. PICK g : Loop!AreRounds(g, "left", "kick", 0, base, at, n) /\ g[n] = h[1..n]
  BY ONLY <1>0, <1>1, Loop!RoundByRound
<1>r. /\ g[0] = base
      /\ \A k \in 0..(n - 1) : g[k + 1] = Round("kick", 0, at[k + 1], g[k])
  BY <1>3 DEF Loop!AreRounds
<1>4. ASSUME NEW k \in 0..(n - 1) PROVE g[k + 1] = Kick(g[k], k + 1)
  <2>1. at[k + 1] = k + 1 BY <1>0 DEF at
  <2> HIDE DEF at
  <2> QED BY <1>r, <2>1 DEF Round
<1> QED BY <1>r, <1>4

\* With the buckets counted in the filter's own table.
KickIn(filter, s, k) ==
  LET t == InsertTag(s.table, s.idx, s.tag, k > 1, k)
  IN  IF s.done THEN s
      ELSE IF t.done THEN [s EXCEPT !.table = t.table, !.done = TRUE]
      ELSE [table |-> t.table, idx |-> AltIndex(filter, s.idx, t.old), tag |-> t.old,
            done |-> FALSE]

Started(filter, idx, tag) == [table |-> filter.table, idx |-> idx, tag |-> tag, done |-> FALSE]

\* What insertion leaves in table and hand.
LEMMA InsertionHolds ==
  ASSUME BucketsPaired, NEW filter, NEW idx, NEW tag, IsStore(Started(filter, idx, tag))
  PROVE  /\ IsStore(Insertion(filter, idx, tag))
         /\ \A items : Listing(items) /\ AllFelts(items) /\ Holds(Started(filter, idx, tag), items) =>
                         Holds(Insertion(filter, idx, tag), items)
<1> DEFINE K == max_cuckoo_kicks
           base == Started(filter, idx, tag)
           RoundOf(f, k) == IF k = 0 THEN base ELSE KickIn(filter, f[k - 1], k)
           IsRounds(f) == f = [k \in 0..K |-> RoundOf(f, k)]
           round == CHOOSE f : IsRounds(f)
<1>0. K \in Nat BY FilterAssumption
<1>k. \A t, k : KickIn(filter, t, k) = Kick(t, k)
  <2>1. DOMAIN filter.table = Buckets
    <3>1. Started(filter, idx, tag).table = filter.table BY DEF Started
    <3> QED BY <3>1 DEF IsStore
  <2>2. \A b, x : AltIndex(filter, b, x) = Other(b, x)
    BY <2>1 DEF AltIndex, Other, Limit, Buckets
  <2> QED BY <2>2 DEF KickIn, Kick
<1>1. Insertion(filter, idx, tag) = round[K] BY DEF Insertion, KickIn, Started
<1>2. IsRounds(round)
  <2>1. PICK g : g[0] = base /\ \A k \in 0..(K - 1) : g[k + 1] = Kick(g[k], k + 1) BY KickRounds
  <2> DEFINE f == [k \in 0..K |-> g[k]]
  <2>2. ASSUME NEW k \in 0..K PROVE f[k] = RoundOf(f, k)
    <3>1. CASE k = 0 BY <2>1, <3>1
    <3>2. CASE k # 0
      <4>1. k - 1 \in 0..(K - 1) /\ (k - 1) + 1 = k /\ k - 1 \in 0..K BY <1>0, <3>2
      <4>2. g[k] = Kick(g[k - 1], k) BY <2>1, <4>1
      <4>3. g[k] = KickIn(filter, g[k - 1], k) BY <1>k, <4>2
      <4> QED BY <3>2, <4>1, <4>3
    <3> QED BY <3>1, <3>2
  <2>3. f = [k \in 0..K |-> f[k]] OBVIOUS
  <2> HIDE DEF f
  <2>4. IsRounds(f) BY <2>2, <2>3
  <2> QED BY <2>4
<1> HIDE DEF round
<1>3. \A k \in 0..K : round[k] = RoundOf(round, k) BY <1>2
<1> DEFINE Good(s) == /\ IsStore(s)
                      /\ \A items : Listing(items) /\ AllFelts(items) /\ Holds(base, items) =>
                                      Holds(s, items)
           T == {k \in Nat : k <= K => Good(round[k])}
<1>4. 0 \in T
  <2>1. round[0] = base BY <1>0, <1>3
  <2> QED BY <2>1
<1>5. ASSUME NEW k \in T PROVE k + 1 \in T
  <2> SUFFICES ASSUME k + 1 <= K PROVE Good(round[k + 1]) OBVIOUS
  <2>1. k + 1 \in 1..K /\ k + 1 \in 0..K /\ (k + 1) - 1 = k /\ k + 1 # 0 /\ k <= K BY <1>0
  <2>2. round[k + 1] = Kick(round[k], k + 1) BY <1>3, <1>k, <2>1
  <2>3. Good(round[k]) BY <2>1
  <2>4. PICK s : s = round[k] OBVIOUS
  <2>5. Good(Kick(s, k + 1)) BY <2>1, <2>3, <2>4, KickHolds
  <2> QED BY <2>2, <2>4, <2>5
<1> HIDE DEF Good
<1>6. T = Nat BY <1>4, <1>5, InductionOnNat
<1>7. Good(round[K]) BY <1>0, <1>6
<1> QED BY <1>1, <1>7 DEF Good, base

IsFilter(f) ==
  /\ f = [table |-> f.table, overflow |-> f.overflow, num_items |-> f.num_items]
  /\ f.overflow = [used |-> f.overflow.used, index |-> f.overflow.index, tag |-> f.overflow.tag]
  /\ f.overflow.used \in BOOLEAN /\ f.num_items \in Int
  /\ IsStore(StoreOf(f))

\* What a store holds depends on table and hand, and on the hand only if it holds a tag.
LEMMA SameHolds ==
  ASSUME NEW s, NEW t, s.table = t.table, s.done = t.done,
         ~s.done => s.idx = t.idx /\ s.tag = t.tag,
         NEW items, Holds(s, items)
  PROVE  Holds(t, items)
<1>1. \A p, x : Lies(s, p, x) => Lies(t, p, x) BY DEF Lies
<1> QED BY <1>1 DEF Holds

\* The items of which table and overflow entry hold the tags.
Kept(filter, items) == Listing(items) /\ AllFelts(items) /\ Holds(StoreOf(filter), items)

LEMMA AddIndexTagHolds ==
  ASSUME BucketsPaired, NEW f, IsFilter(f), ~f.overflow.used, NEW idx \in Buckets, NEW tag \in Tags
  PROVE  LET g == AddIndexTag(f, idx, tag)
         IN  /\ IsFilter(g) /\ g.num_items = f.num_items
             /\ \A items : Listing(items) /\ AllFelts(items) /\ Holds(Started(f, idx, tag), items) =>
                             Holds(StoreOf(g), items)
<1> DEFINE g == AddIndexTag(f, idx, tag)
           base == Started(f, idx, tag)
           last == Insertion(f, idx, tag)
           over == IF last.done THEN f.overflow
                   ELSE [used |-> TRUE, index |-> last.idx, tag |-> last.tag]
<1>1. IsStore(base)
  <2>1. f.table \in [Buckets -> [1..tags_per_bucket -> Tags \cup {0}]]
    BY DEF IsFilter, IsStore, StoreOf
  <2> QED BY <2>1 DEF IsStore, Started
<1> HIDE DEF base
<1>2. /\ IsStore(last)
      /\ \A items : Listing(items) /\ AllFelts(items) /\ Holds(base, items) => Holds(last, items)
  BY <1>1, InsertionHolds DEF base
<1> HIDE DEF last
<1>3. g = [table |-> last.table, overflow |-> over, num_items |-> f.num_items]
  <2>1. g = [f EXCEPT !.table = last.table, !.overflow = over] BY DEF AddIndexTag, last
  <2> HIDE DEF g, over
  <2> QED BY <2>1 DEF IsFilter
<1>4. /\ over = [used |-> over.used, index |-> over.index, tag |-> over.tag]
      /\ over.used = ~last.done /\ over.used \in BOOLEAN
      /\ over.used => over.index = last.idx /\ over.tag = last.tag
  BY <1>2 DEF IsFilter, IsStore
<1> HIDE DEF g, over
<1> DEFINE s == StoreOf(g)
<1>5. s = [table |-> last.table, idx |-> over.index, tag |-> over.tag, done |-> last.done]
  <2>1. last.done \in BOOLEAN BY <1>2 DEF IsStore
  <2>2. (~over.used) = last.done
    <3>1. CASE last.done = TRUE BY <1>4, <3>1
    <3>2. CASE last.done = FALSE BY <1>4, <3>2
    <3> QED BY <2>1, <3>1, <3>2
  <2> QED BY <1>3, <2>2 DEF StoreOf
<1> HIDE DEF s
<1>6. IsStore(s) BY <1>2, <1>4, <1>5 DEF IsStore
<1>7. IsFilter(g) BY <1>3, <1>4, <1>6 DEF IsFilter, s
<1>8. ASSUME NEW items, Listing(items), AllFelts(items), Holds(base, items) PROVE Holds(s, items)
  <2>1. Holds(last, items) BY <1>2, <1>8
  <2>2. /\ last.table = s.table /\ last.done = s.done
        /\ ~last.done => last.idx = s.idx /\ last.tag = s.tag
    BY <1>4, <1>5
  <2> QED BY <2>1, <2>2, SameHolds
<1> QED BY <1>3, <1>7, <1>8 DEF g, s, base

\* add: a filter with an overflow entry refuses the item, any other takes it.
LEMMA FilterAddKeeps ==
  ASSUME BucketsPaired, NEW f, IsFilter(f), NEW x \in Felt
  PROVE  LET g == FilterAdd(f, x)
         IN  /\ f.overflow.used => g = f
             /\ ~f.overflow.used => /\ IsFilter(g) /\ g.num_items = f.num_items + 1
                                    /\ \A items : Kept(f, items) => Kept(g, Append(items, x))
<1>1. CASE f.overflow.used BY <1>1 DEF FilterAdd
<1>2. CASE ~f.overflow.used
  <2> DEFINE idx == FirstHome(x)
             tag == TagOf(x)
             h == AddIndexTag(f, idx, tag)
             g == FilterAdd(f, x)
             base == Started(f, idx, tag)
  <2>0. idx \in Buckets /\ tag \in Tags BY BucketsAre DEF Tags
  <2>1. /\ IsFilter(h) /\ h.num_items = f.num_items
        /\ \A items : Listing(items) /\ AllFelts(items) /\ Holds(base, items) =>
                        Holds(StoreOf(h), items)
    BY <1>2, <2>0, AddIndexTagHolds
  <2>2. Index1(f, x) = idx
    <3>1. DOMAIN f.table = Buckets BY DEF IsFilter, IsStore, StoreOf
    <3> QED BY <3>1 DEF Index1, FirstHome, Limit, Buckets
  <2>3. g = [h EXCEPT !.num_items = @ + 1] BY <1>2, <2>2 DEF FilterAdd
  <2> HIDE DEF h, g
  <2>4. g = [table |-> h.table, overflow |-> h.overflow, num_items |-> f.num_items + 1]
    BY <2>1, <2>3 DEF IsFilter
  <2>5. StoreOf(g) = StoreOf(h) BY <2>4 DEF StoreOf
  <2>6. IsFilter(g) /\ g.num_items = f.num_items + 1
    <3>1. f.num_items \in Int BY DEF IsFilter
    <3> QED BY <2>1, <2>4, <2>5, <3>1 DEF IsFilter
  <2>7. ASSUME NEW items, Kept(f, items) PROVE Kept(g, Append(items, x))
    <3> DEFINE s == StoreOf(f)
    <3>1. Listing(items) /\ AllFelts(items) /\ Holds(s, items) BY <2>7 DEF Kept
    <3>2. \A r \in TablePlaces, y \in Felt : Lies(s, r, y) => Lies(base, r, y)
      <4>1. \A p \in TablePlaces : p # Hand
        <5>1. Buckets \subseteq Nat BY BucketsAre
        <5> QED BY <5>1 DEF TablePlaces, Hand
      <4>2. s.table = base.table BY DEF StoreOf, Started
      <4> HIDE DEF s, base
      <4> QED BY <4>1, <4>2 DEF Lies
    <3>3. s.done BY <1>2 DEF StoreOf
    <3>4. Lies(base, Hand, x) BY DEF Lies, Started, Homes
    <3> HIDE DEF s, base
    <3>5. Holds(base, Append(items, x)) BY <3>1, <3>2, <3>3, <3>4, TakenHolds
    <3>6. Listing(Append(items, x)) BY <3>1, ListingAppend
    <3>7. AllFelts(Append(items, x)) BY <3>1, FeltsAppend
    <3>8. Holds(StoreOf(h), Append(items, x)) BY <2>1, <3>5, <3>6, <3>7
    <3> QED BY <2>5, <3>6, <3>7, <3>8 DEF Kept
  <2> HIDE DEF base
  <2> QED BY <1>2, <2>6, <2>7 DEF g
<1> QED BY <1>1, <1>2

\* The overflow entry is taken up again: nothing is lost.
LEMMA EliminateKeeps ==
  ASSUME BucketsPaired, NEW f, IsFilter(f)
  PROVE  LET g == TryEliminateOverflow(f)
         IN  /\ IsFilter(g) /\ g.num_items = f.num_items
             /\ \A items : Kept(f, items) => Kept(g, items)
<1>1. CASE ~f.overflow.used BY <1>1 DEF TryEliminateOverflow
<1>2. CASE f.overflow.used
  <2> DEFINE idx == f.overflow.index
             tag == f.overflow.tag
             h == [f EXCEPT !.overflow = NoOverflow]
             g == TryEliminateOverflow(f)
             base == Started(h, idx, tag)
             s == StoreOf(f)
  <2>0. g = AddIndexTag(h, idx, tag) BY <1>2 DEF TryEliminateOverflow
  <2>s. s = [table |-> f.table, idx |-> idx, tag |-> tag, done |-> FALSE] /\ IsStore(s)
    BY <1>2 DEF StoreOf, IsFilter
  <2>1. idx \in Buckets /\ tag \in Tags BY <2>s DEF IsStore
  <2> HIDE DEF h
  <2>2. h = [table |-> f.table, overflow |-> NoOverflow, num_items |-> f.num_items]
    BY DEF h, IsFilter
  <2>3. IsFilter(h) /\ ~h.overflow.used
    <3>1. StoreOf(h) = [table |-> f.table, idx |-> 0, tag |-> 0, done |-> TRUE]
      BY <2>2 DEF StoreOf, NoOverflow
    <3>2. s.table = f.table BY <2>s
    <3>3. IsStore(StoreOf(h)) BY <2>s, <3>1, <3>2 DEF IsStore
    <3> QED BY <2>2, <3>3 DEF IsFilter, NoOverflow
  <2>4. base = s BY <2>s, <2>2 DEF Started
  <2> HIDE DEF g, base, s, idx, tag
  <2>5. /\ IsFilter(g) /\ g.num_items = h.num_items
        /\ \A items : Listing(items) /\ AllFelts(items) /\ Holds(base, items) =>
                        Holds(StoreOf(g), items)
    BY <2>0, <2>1, <2>3, AddIndexTagHolds DEF base
  <2> QED BY <2>2, <2>4, <2>5 DEF Kept, g, s
<1> QED BY <1>1, <1>2

LEMMA EmptyKept ==
  LET empty == EmptyFilter(max_bin_size)
  IN  IsFilter(empty) /\ empty.num_items = 0 /\ Kept(empty, <<>>)
<1> DEFINE empty == EmptyFilter(max_bin_size)
<1>1. empty = [table |-> [b \in Buckets |-> [i \in 1..tags_per_bucket |-> 0]],
               overflow |-> NoOverflow, num_items |-> 0]
  BY DEF EmptyFilter, Buckets
<1> HIDE DEF empty
<1>2. StoreOf(empty) = [table |-> [b \in Buckets |-> [i \in 1..tags_per_bucket |-> 0]],
                        idx |-> 0, tag |-> 0, done |-> TRUE]
  BY <1>1 DEF StoreOf, NoOverflow
<1>3. IsStore(StoreOf(empty)) BY <1>2 DEF IsStore
<1>4. IsFilter(empty)
  <2>1. /\ empty.overflow = NoOverflow /\ empty.num_items = 0
        /\ empty = [table |-> empty.table, overflow |-> empty.overflow, num_items |-> empty.num_items]
    BY <1>1
  <2>2. PICK o : o = NoOverflow OBVIOUS
  <2>3. o = [used |-> o.used, index |-> o.index, tag |-> o.tag] /\ o.used \in BOOLEAN
    BY <2>2 DEF NoOverflow
  <2>4. empty.overflow = o BY <2>1, <2>2
  <2> QED BY ONLY <1>3, <2>1, <2>3, <2>4 DEF IsFilter
<1>5. Listing(<<>>) /\ Len(<<>>) = 0 BY DEF Listing
<1>6. Holds(StoreOf(empty), <<>>)
  <2> DEFINE m == [k \in 1..0 |-> Hand]
  <2>1. m \in [1..0 -> TagPlaces] /\ \A k \in 1..0 : FALSE BY DEF TagPlaces
  <2> HIDE DEF m
  <2> QED BY <1>5, <2>1 DEF Holds
<1> QED BY <1>1, <1>4, <1>5, <1>6 DEF Kept, AllFelts, empty

\* What is kept is found.
LEMMA KeptFound ==
  ASSUME BucketsPaired, NEW f, IsFilter(f), NEW items, Kept(f, items), NEW k \in 1..Len(items)
  PROVE  FilterContains(f, items[k])
<1> DEFINE x == items[k]
           s == StoreOf(f)
           b1 == Index1(f, x)
           b2 == AltIndex(f, b1, TagOf(x))
<1>0. x \in Felt BY DEF Kept, AllFelts
<1>1. DOMAIN f.table = Buckets BY DEF IsFilter, IsStore, StoreOf
<1>2. {b1, b2} = Homes(x)
  <2>1. b1 = FirstHome(x) BY <1>1 DEF Index1, FirstHome, Limit, Buckets
  <2>2. \A b, t : AltIndex(f, b, t) = Other(b, t) BY <1>1 DEF AltIndex, Other, Limit, Buckets
  <2> QED BY <2>1, <2>2 DEF Homes
<1>3. PICK p \in TagPlaces : Lies(s, p, x) BY DEF Kept, Holds
<1> HIDE DEF x, b1, b2
<1>4. CASE p = Hand
  <2>1. f.overflow.used /\ f.overflow.tag = TagOf(x) /\ f.overflow.index \in {b1, b2}
    BY <1>2, <1>3, <1>4 DEF Lies, StoreOf
  <2> QED BY <2>1 DEF FilterContains, x, b1, b2
<1>5. CASE p # Hand
  <2>1. PICK b \in Buckets, i \in 1..tags_per_bucket : p = <<b, i>>
    BY <1>5 DEF TagPlaces, TablePlaces
  <2>2. f.table[b][i] = TagOf(x) /\ b \in {b1, b2} BY <1>2, <1>3, <1>5, <2>1 DEF Lies, StoreOf
  <2>3. i \in PlacesOf(f.table, b1, TagOf(x)) \cup PlacesOf(f.table, b2, TagOf(x))
    BY <2>2 DEF PlacesOf, ReadTag
  <2>4. FindTagInBuckets(f.table, b1, b2, TagOf(x)) BY <2>3 DEF FindTagInBuckets
  <2> QED BY <2>4 DEF FilterContains, x, b1, b2
<1> QED BY <1>4, <1>5

\* An item leaves the table: its tag's place is free, in the first bucket that has it.
LEMMA DeleteKeeps ==
  ASSUME BucketsPaired, NEW f, IsFilter(f), NEW x \in Felt, NEW b \in Homes(x),
         PlacesOf(f.table, b, TagOf(x)) # {}
  PROVE  LET g == DeleteTag(f, b, TagOf(x))
         IN  /\ IsFilter(g) /\ g.num_items = f.num_items - 1
             /\ \A items : \A j \in 1..Len(items) :
                  Kept(f, items) /\ items[j] = x => Kept(g, RemoveAt(items, j))
<1> DEFINE tag == TagOf(x)
           places == PlacesOf(f.table, b, tag)
           i == First(places)
           table == WriteTag(f.table, b, i, 0)
           g == DeleteTag(f, b, tag)
           s == StoreOf(f)
           t == StoreOf(g)
           p == <<b, i>>
<1>0. b \in Buckets /\ f.table \in [Buckets -> [1..tags_per_bucket -> Tags \cup {0}]]
  BY BucketsAre DEF IsFilter, IsStore, StoreOf
<1>1. i \in 1..tags_per_bucket /\ f.table[b][i] = tag
  <2>1. places \in SUBSET (1..tags_per_bucket) BY DEF PlacesOf
  <2>2. i \in places BY <2>1, FirstIs
  <2> QED BY <2>2 DEF PlacesOf, ReadTag
<1>2. /\ table \in [Buckets -> [1..tags_per_bucket -> Tags \cup {0}]]
      /\ \A q \in TablePlaces : table[q[1]][q[2]] = IF q = p THEN 0 ELSE f.table[q[1]][q[2]]
  BY <1>0, <1>1, Written
<1>3. g = [f EXCEPT !.table = table, !.num_items = @ - 1] BY DEF DeleteTag
<1> HIDE DEF g, table, i
<1>4. g = [table |-> table, overflow |-> f.overflow, num_items |-> f.num_items - 1]
  BY <1>3 DEF IsFilter
<1>5. t = [table |-> table, idx |-> f.overflow.index, tag |-> f.overflow.tag,
           done |-> ~f.overflow.used]
  BY <1>4 DEF StoreOf
<1>6. s = [table |-> f.table, idx |-> f.overflow.index, tag |-> f.overflow.tag,
           done |-> ~f.overflow.used]
  BY DEF StoreOf
<1>7. IsFilter(g)
  <2>1. IsStore(s) BY DEF IsFilter
  <2> HIDE DEF s, t
  <2>2. t.idx = s.idx /\ t.tag = s.tag /\ t.done = s.done /\ t.table = table BY <1>5, <1>6
  <2>3. t = [table |-> t.table, idx |-> t.idx, tag |-> t.tag, done |-> t.done] BY <1>5
  <2>4. IsStore(t) BY ONLY <1>2, <2>1, <2>2, <2>3 DEF IsStore
  <2>5. f.num_items - 1 \in Int BY DEF IsFilter
  <2> QED BY <1>4, <2>4, <2>5 DEF IsFilter, t
<1>8. ASSUME NEW items, NEW j \in 1..Len(items), Kept(f, items), items[j] = x
      PROVE  Kept(g, RemoveAt(items, j))
  <2>1. Listing(items) /\ AllFelts(items) /\ Holds(s, items) BY <1>8 DEF Kept
  <2> HIDE DEF s, t, p
  <2>2. p \in TablePlaces /\ p[1] = b /\ p[2] = i BY <1>0, <1>1 DEF TablePlaces, p
  <2>3. p \in TagPlaces /\ p # Hand
    <3>1. Buckets \subseteq Nat BY BucketsAre
    <3> QED BY <2>2, <3>1 DEF TagPlaces, TablePlaces, Hand
  <2>4. Lies(s, p, items[j]) BY <1>1, <1>6, <1>8, <2>2, <2>3 DEF Lies
  <2>5. ASSUME NEW r \in TagPlaces, NEW y \in Felt, Lies(s, r, y), r # p PROVE Lies(t, r, y)
    <3>1. CASE r = Hand BY <1>5, <1>6, <2>5, <3>1 DEF Lies
    <3>2. CASE r # Hand
      <4>1. r \in TablePlaces BY <3>2 DEF TagPlaces
      <4>2. t.table[r[1]][r[2]] = s.table[r[1]][r[2]] BY <1>2, <1>5, <1>6, <2>5, <4>1
      <4> QED BY <2>5, <3>2, <4>2 DEF Lies
    <3> QED BY <3>1, <3>2
  <2>6. Holds(t, RemoveAt(items, j)) BY <2>1, <2>3, <2>4, <2>5, GivenHolds
  <2>7. Listing(RemoveAt(items, j)) /\ AllFelts(RemoveAt(items, j))
    BY <2>1, ListingRemoveAt, FeltsRemove
  <2> QED BY <2>6, <2>7 DEF Kept, t
<1> QED BY <1>4, <1>7, <1>8 DEF g

\* An item leaves the overflow entry.
LEMMA OverflowKeeps ==
  ASSUME BucketsPaired, NEW f, IsFilter(f), NEW x \in Felt, f.overflow.used,
         f.overflow.tag = TagOf(x), f.overflow.index \in Homes(x)
  PROVE  LET g == [f EXCEPT !.overflow = NoOverflow, !.num_items = @ - 1]
         IN  /\ IsFilter(g) /\ g.num_items = f.num_items - 1
             /\ \A items : \A j \in 1..Len(items) :
                  Kept(f, items) /\ items[j] = x => Kept(g, RemoveAt(items, j))
<1> DEFINE g == [f EXCEPT !.overflow = NoOverflow, !.num_items = @ - 1]
           s == StoreOf(f)
           t == StoreOf(g)
<1>1. g = [table |-> f.table, overflow |-> NoOverflow, num_items |-> f.num_items - 1]
  <2>1. f = [table |-> f.table, overflow |-> f.overflow, num_items |-> f.num_items] BY DEF IsFilter
  <2>2. g = [f EXCEPT !.overflow = NoOverflow, !.num_items = @ - 1] OBVIOUS
  <2> HIDE DEF g
  <2> QED BY <2>1, <2>2
<1> HIDE DEF g
<1>2. t = [table |-> f.table, idx |-> 0, tag |-> 0, done |-> TRUE] BY <1>1 DEF StoreOf, NoOverflow
<1>3. s.table = f.table /\ IsStore(s) BY DEF StoreOf, IsFilter
<1>4. Lies(s, Hand, x) BY DEF Lies, StoreOf
<1> HIDE DEF s, t
<1>5. IsFilter(g)
  <2>1. IsStore(t) BY <1>2, <1>3 DEF IsStore
  <2>2. f.num_items - 1 \in Int BY DEF IsFilter
  <2>3. PICK o : o = NoOverflow OBVIOUS
  <2>4. o = [used |-> o.used, index |-> o.index, tag |-> o.tag] /\ o.used \in BOOLEAN
    BY <2>3 DEF NoOverflow
  <2>5. /\ g.overflow = o /\ g.num_items \in Int
        /\ g = [table |-> g.table, overflow |-> g.overflow, num_items |-> g.num_items]
    BY <1>1, <2>2, <2>3
  <2> QED BY ONLY <2>1, <2>4, <2>5 DEF IsFilter, t
<1>6. ASSUME NEW items, NEW j \in 1..Len(items), Kept(f, items), items[j] = x
      PROVE  Kept(g, RemoveAt(items, j))
  <2>1. Listing(items) /\ AllFelts(items) /\ Holds(s, items) BY <1>6 DEF Kept, s
  <2>2. \A r \in TagPlaces, y \in Felt : Lies(s, r, y) /\ r # Hand => Lies(t, r, y)
    BY <1>2, <1>3 DEF Lies
  <2>3. Hand \in TagPlaces /\ Lies(s, Hand, items[j]) BY <1>4, <1>6 DEF TagPlaces
  <2>4. Holds(t, RemoveAt(items, j)) BY <2>1, <2>2, <2>3, GivenHolds
  <2>5. Listing(RemoveAt(items, j)) /\ AllFelts(RemoveAt(items, j))
    BY <2>1, ListingRemoveAt, FeltsRemove
  <2> QED BY <2>4, <2>5 DEF Kept, t
<1> QED BY <1>1, <1>5, <1>6 DEF g

\* remove, of an item the filter says it has.
LEMMA FilterRemoveKeeps ==
  ASSUME BucketsPaired, NEW f, IsFilter(f), NEW x \in Felt, FilterContains(f, x)
  PROVE  LET g == FilterRemove(f, x)
         IN  /\ IsFilter(g) /\ g.num_items = f.num_items - 1
             /\ \A items : \A j \in 1..Len(items) :
                  Kept(f, items) /\ items[j] = x => Kept(g, RemoveAt(items, j))
<1> DEFINE tag == TagOf(x)
           b1 == Index1(f, x)
           b2 == AltIndex(f, b1, tag)
           Has(b) == PlacesOf(f.table, b, tag) # {}
           g == FilterRemove(f, x)
           over == [f EXCEPT !.overflow = NoOverflow, !.num_items = @ - 1]
<1>1. {b1, b2} = Homes(x)
  <2>1. DOMAIN f.table = Buckets BY DEF IsFilter, IsStore, StoreOf
  <2>2. b1 = FirstHome(x) BY <2>1 DEF Index1, FirstHome, Limit, Buckets
  <2>3. \A b, t : AltIndex(f, b, t) = Other(b, t) BY <2>1 DEF AltIndex, Other, Limit, Buckets
  <2> QED BY <2>2, <2>3 DEF Homes
<1>2. \/ f.overflow.used /\ f.overflow.tag = tag /\ f.overflow.index \in {b1, b2}
      \/ Has(b1) \/ Has(b2)
  BY DEF FilterContains, FindTagInBuckets
<1>3. g = IF Has(b1) THEN TryEliminateOverflow(DeleteTag(f, b1, tag))
          ELSE IF Has(b2) THEN TryEliminateOverflow(DeleteTag(f, b2, tag))
          ELSE IF f.overflow.used /\ f.overflow.tag = tag /\ f.overflow.index \in {b1, b2} THEN over
          ELSE f
  BY DEF FilterRemove
<1> HIDE DEF g, over, b1, b2
<1>4. ASSUME NEW b \in Homes(x), Has(b), g = TryEliminateOverflow(DeleteTag(f, b, tag))
      PROVE  /\ IsFilter(g) /\ g.num_items = f.num_items - 1
             /\ \A items : \A j \in 1..Len(items) :
                  Kept(f, items) /\ items[j] = x => Kept(g, RemoveAt(items, j))
  <2>1. PICK h : h = DeleteTag(f, b, tag) OBVIOUS
  <2>2. /\ IsFilter(h) /\ h.num_items = f.num_items - 1
        /\ \A items : \A j \in 1..Len(items) :
             Kept(f, items) /\ items[j] = x => Kept(h, RemoveAt(items, j))
    BY <1>4, <2>1, DeleteKeeps
  <2>3. g = TryEliminateOverflow(h) BY <1>4, <2>1
  <2>4. IsFilter(g) /\ g.num_items = h.num_items /\ \A items : Kept(h, items) => Kept(g, items)
    BY <2>2, <2>3, EliminateKeeps
  <2> QED BY <2>2, <2>4
<1>5. CASE Has(b1)
  <2>1. g = TryEliminateOverflow(DeleteTag(f, b1, tag)) /\ b1 \in Homes(x) BY <1>1, <1>3, <1>5
  <2> QED BY <1>4, <1>5, <2>1 DEF g
<1>6. CASE ~Has(b1) /\ Has(b2)
  <2>1. g = TryEliminateOverflow(DeleteTag(f, b2, tag)) /\ b2 \in Homes(x) BY <1>1, <1>3, <1>6
  <2> QED BY <1>4, <1>6, <2>1 DEF g
<1>7. CASE ~Has(b1) /\ ~Has(b2)
  <2>1. f.overflow.used /\ f.overflow.tag = tag /\ f.overflow.index \in {b1, b2} BY <1>2, <1>7
  <2>2. g = over BY <1>3, <1>7, <2>1
  <2>3. f.overflow.index \in Homes(x) BY <1>1, <2>1
  <2>4. /\ IsFilter(over) /\ over.num_items = f.num_items - 1
        /\ \A items : \A j \in 1..Len(items) :
             Kept(f, items) /\ items[j] = x => Kept(over, RemoveAt(items, j))
    BY <2>1, <2>3, OverflowKeeps DEF over
  <2> QED BY <2>2, <2>4 DEF g
<1> QED BY <1>5, <1>6, <1>7

\* A filter that may have refused items of its bin, but knows all of them if it has as many.
FilterRight(f, bin) ==
  /\ IsFilter(f) /\ f.num_items <= Len(bin)
  /\ f.num_items = Len(bin) => Kept(f, bin)

LEMMA AddRight ==
  ASSUME BucketsPaired, NEW f, NEW bin, FilterRight(f, bin), Listing(bin), NEW x \in Felt
  PROVE  FilterRight(FilterAdd(f, x), Append(bin, x))
<1> DEFINE g == FilterAdd(f, x)
           new == Append(bin, x)
<1>1. Len(bin) \in Nat /\ Len(new) = Len(bin) + 1 BY ListingAppend DEF Listing
<1>2. IsFilter(f) /\ f.num_items \in Int /\ f.num_items <= Len(bin)
      /\ (f.num_items = Len(bin) => Kept(f, bin))
  BY DEF FilterRight, IsFilter
<1>3. /\ f.overflow.used => g = f
      /\ ~f.overflow.used => /\ IsFilter(g) /\ g.num_items = f.num_items + 1
                             /\ \A items : Kept(f, items) => Kept(g, Append(items, x))
  BY <1>2, FilterAddKeeps
<1> HIDE DEF g
<1>4. (~f.overflow.used /\ Kept(f, bin)) => Kept(g, new) BY <1>3
<1> HIDE DEF new
<1> QED BY <1>1, <1>2, <1>3, <1>4 DEF FilterRight, g, new

LEMMA RemoveRight ==
  ASSUME BucketsPaired, NEW f, NEW bin, FilterRight(f, bin), Listing(bin), NEW j \in 1..Len(bin),
         bin[j] \in Felt, FilterContains(f, bin[j])
  PROVE  FilterRight(FilterRemove(f, bin[j]), RemoveAt(bin, j))
<1> DEFINE x == bin[j]
           g == FilterRemove(f, x)
           new == RemoveAt(bin, j)
<1>1. Len(bin) \in Nat /\ Len(new) = Len(bin) - 1 BY ListingRemoveAt DEF Listing
<1>2. IsFilter(f) /\ f.num_items \in Int /\ f.num_items <= Len(bin)
      /\ (f.num_items = Len(bin) => Kept(f, bin))
  BY DEF FilterRight, IsFilter
<1>3. /\ IsFilter(g) /\ g.num_items = f.num_items - 1
      /\ \A items : \A k \in 1..Len(items) :
           Kept(f, items) /\ items[k] = x => Kept(g, RemoveAt(items, k))
  BY <1>2, FilterRemoveKeeps
<1> HIDE DEF g
<1>4. Kept(f, bin) => Kept(g, new) BY <1>3
<1> HIDE DEF new
<1> QED BY <1>1, <1>2, <1>3, <1>4 DEF FilterRight, g, new

\* The filter load builds for a bin.
FilledFilter(bin) == FoldLeft(FilterAdd, EmptyFilter(max_bin_size), bin)

LEMMA AddRounds ==
  ASSUME NEW bin, Listing(bin)
  PROVE  \E g : /\ g[0] = EmptyFilter(max_bin_size) /\ g[Len(bin)] = FilledFilter(bin)
                /\ \A k \in 0..(Len(bin) - 1) : g[k + 1] = FilterAdd(g[k], bin[k + 1])
<1> DEFINE n == Len(bin)
           base == EmptyFilter(max_bin_size)
           h == CHOOSE h : Loop!IsUnrolling(h, "left", "add", 0, base, bin, n)
<1>0. n \in Nat /\ DOMAIN bin = 1..n BY ListingSeq DEF Listing
<1>1. Loop!IsUnrolling(h, "left", "add", 0, base, bin, n) BY <1>0, Loop!UnrollingExists
<1>2. FilledFilter(bin) = h[1..n]
  BY <1>0 DEF FilledFilter, FoldLeft, MapThenFoldSet, Round, Max, Min, Loop!Max, Loop!Min,
     Loop!IsUnrolling, Loop!Unrolled, Loop!LastTaken
<1> HIDE DEF h, base
<1>3. PICK g : Loop!AreRounds(g, "left", "add", 0, base, bin, n) /\ g[n] = h[1..n]
  BY ONLY <1>0, <1>1, Loop!RoundByRound
<1>r. /\ g[0] = base
      /\ \A k \in 0..(n - 1) : g[k + 1] = Round("add", 0, bin[k + 1], g[k])
  BY <1>3 DEF Loop!AreRounds
<1>4. \A k \in 0..(n - 1) : g[k + 1] = FilterAdd(g[k], bin[k + 1]) BY <1>r DEF Round
<1> QED BY <1>2, <1>3, <1>r, <1>4 DEF base

LEMMA FilledRight ==
  ASSUME BucketsPaired, NEW bin, Listing(bin), AllFelts(bin)
  PROVE  FilterRight(FilledFilter(bin), bin)
<1> DEFINE n == Len(bin)
           first(k) == [i \in 1..k |-> bin[i]]
<1>0. n \in Nat BY DEF Listing
<1>1. PICK g : /\ g[0] = EmptyFilter(max_bin_size) /\ g[n] = FilledFilter(bin)
               /\ \A k \in 0..(n - 1) : g[k + 1] = FilterAdd(g[k], bin[k + 1])
  BY AddRounds
<1>2. \A k \in Nat : Listing(first(k)) /\ Len(first(k)) = k
  <2>1. ASSUME NEW k \in Nat PROVE Listing(first(k)) /\ Len(first(k)) = k
    <3>1. PICK f : f = first(k) OBVIOUS
    <3>2. f = [i \in 1..k |-> f[i]] BY <3>1
    <3>3. Listing(f) /\ Len(f) = k BY ONLY k \in Nat, <3>2, ListingOf
    <3> QED BY <3>1, <3>3
  <2> QED BY <2>1
<1> DEFINE T == {k \in Nat : k <= n => FilterRight(g[k], first(k))}
<1>3. 0 \in T
  <2>1. IsFilter(g[0]) /\ g[0].num_items = 0 /\ Kept(g[0], <<>>) BY <1>1, EmptyKept
  <2>2. first(0) = <<>> BY <1>2, EmptySeq
  <2> QED BY <1>2, <2>1, <2>2 DEF FilterRight
<1>4. ASSUME NEW k \in T PROVE k + 1 \in T
  <2> SUFFICES ASSUME k + 1 <= n PROVE FilterRight(g[k + 1], first(k + 1)) OBVIOUS
  <2>1. k \in Nat /\ k \in 0..(n - 1) /\ k + 1 \in 1..n /\ FilterRight(g[k], first(k)) BY <1>0
  <2>2. bin[k + 1] \in Felt /\ g[k + 1] = FilterAdd(g[k], bin[k + 1]) BY <1>1, <2>1 DEF AllFelts
  <2>3. Listing(first(k)) /\ Len(first(k)) = k BY <1>2, <2>1
  <2>4. first(k + 1) = Append(first(k), bin[k + 1])
    <3>1. PICK u : u = first(k) OBVIOUS
    <3>2. PICK x : x = bin[k + 1] OBVIOUS
    <3>3. PICK v : v = Append(u, x) OBVIOUS
    <3>4. /\ Listing(v) /\ Len(v) = k + 1 /\ v[k + 1] = x /\ \A i \in 1..k : v[i] = u[i]
      BY <2>3, <3>1, <3>3, ListingAppend
    <3>5. v = [i \in 1..(k + 1) |-> v[i]] BY <3>4 DEF Listing
    <3>6. \A i \in 1..(k + 1) : v[i] = bin[i]
      <4>1. \A i \in 1..(k + 1) : i = k + 1 \/ i \in 1..k BY <2>1
      <4>2. \A i \in 1..k : u[i] = bin[i] BY <3>1
      <4> QED BY <3>2, <3>4, <4>1, <4>2
    <3>7. v = first(k + 1) BY <3>5, <3>6
    <3> QED BY <3>1, <3>2, <3>3, <3>7
  <2> HIDE DEF first
  <2>5. FilterRight(FilterAdd(g[k], bin[k + 1]), Append(first(k), bin[k + 1]))
    BY <2>1, <2>2, <2>3, AddRight
  <2> QED BY <2>2, <2>4, <2>5
<1> HIDE DEF first
<1>5. T = Nat BY <1>3, <1>4, InductionOnNat
<1>6. FilterRight(g[n], first(n)) BY <1>0, <1>5
<1>7. first(n) = bin BY DEF Listing, first
<1> QED BY <1>1, <1>6, <1>7

-----------------------------------------------------------------------------
(* A bundle and what the calls do to it. *)

IsBundle(bundle) ==
  /\ bundle = [item_bins |-> bundle.item_bins, filters |-> bundle.filters,
               label_bins |-> bundle.label_bins, label_size |-> bundle.label_size,
               cache |-> bundle.cache, cache_invalid |-> bundle.cache_invalid,
               stripped |-> bundle.stripped]
  /\ bundle.cache = [matching |-> bundle.cache.matching, interp |-> bundle.cache.interp,
                     batched_matching |-> bundle.cache.batched_matching,
                     batched_interp |-> bundle.cache.batched_interp]
  /\ bundle.cache_invalid \in BOOLEAN

\* One sequence of items per bin, which is never filled (see HasSpace), with labels for each.
Filled(bundle) ==
  /\ DOMAIN bundle.item_bins = Bins
  /\ \A b \in Bins : /\ Listing(bundle.item_bins[b])
                     /\ max_bin_size >= 2 => Len(bundle.item_bins[b]) < max_bin_size
  /\ Listing(bundle.label_bins) /\ Len(bundle.label_bins) = bundle.label_size
  /\ \A l \in 1..bundle.label_size, b \in Bins :
       /\ Listing(bundle.label_bins[l][b])
       /\ Len(bundle.label_bins[l][b]) = Len(bundle.item_bins[b])

\* A stripped bundle has no bins, and of its cache the batched polynomials are left.
CacheLeft(bundle) ==
  /\ ~bundle.cache_invalid /\ bundle.item_bins = <<>>
  /\ bundle.cache.matching = <<>>
  /\ max_bin_size >= 2 => Len(bundle.cache.batched_matching) <= max_bin_size
  /\ Len(bundle.cache.batched_interp) = bundle.label_size
  /\ max_bin_size >= 2 => \A l \in 1..bundle.label_size :
                            Len(bundle.cache.batched_interp[l]) <= max_bin_size

\* What the bins and the labels hold are field elements, and so are the parts of an entry; nothing
\* else rests on this, nor on what is said of the powers of two.
InField(bundle) ==
  PowersOfTwo =>
    \A b \in Bins : /\ AllFelts(bundle.item_bins[b])
                    /\ \A l \in 1..bundle.label_size : AllFelts(bundle.label_bins[l][b])

PartsInField(parts) ==
  PowersOfTwo => \A k \in DOMAIN parts : parts[k].felt \in Felt /\ AllFelts(parts[k].label)

\* The filter of a bin knows its items if it has as many; where no filter has ever refused one
\* (once), no felt is then twice in a labeled bin.
Filtered(bundle, once) ==
  PowersOfTwo /\ BucketsPaired =>
    \A b \in Bins :
      /\ FilterRight(bundle.filters[b], bundle.item_bins[b])
      /\ /\ once /\ bundle.label_size > 0
         /\ bundle.filters[b].num_items = Len(bundle.item_bins[b])
         => IsInjective(bundle.item_bins[b])

\* A valid cache is always the one of the present bins.
Sound(bundle, size, bare, once) ==
  /\ IsBundle(bundle) /\ bundle.label_size = size /\ bundle.stripped = bare
  /\ ~bare => /\ Filled(bundle) /\ InField(bundle) /\ Filtered(bundle, once)
              /\ ~bundle.cache_invalid => bundle.cache = RegenPolyns(bundle)
  /\ bare => CacheLeft(bundle)

LEMMA Places ==
  ASSUME NEW bin, NEW felt, Listing(bin), PlaceIn(bin, felt) # 0
  PROVE  PlaceIn(bin, felt) \in 1..Len(bin) /\ bin[PlaceIn(bin, felt)] = felt
<1> DEFINE I == {i \in 1..Len(bin) : bin[i] = felt}
<1>0. Len(bin) \in Nat BY DEF Listing
<1>1. PlaceIn(bin, felt) = IF I # {} THEN Min(I) ELSE 0 BY DEF PlaceIn, SelectInSeq
<1>2. I # {} /\ PlaceIn(bin, felt) = Min(I) BY <1>1
<1>3. \E x \in I : \A y \in I : x <= y
  <2>1. I \in SUBSET Nat BY <1>0
  <2> HIDE DEF I
  <2> QED BY <1>2, <2>1, LeastNat
<1>4. Min(I) \in I BY <1>3 DEF Min
<1> QED BY <1>2, <1>4

LEMMA Searched ==
  ASSUME NEW bin, Listing(bin), NEW j \in 1..Len(bin)
  PROVE  PlaceIn(bin, bin[j]) # 0
<1> DEFINE I == {i \in 1..Len(bin) : bin[i] = bin[j]}
<1>0. Len(bin) \in Nat /\ DOMAIN bin = 1..Len(bin) BY ListingSeq DEF Listing
<1>1. bin[j] \in ToSet(bin) /\ j \in I BY <1>0 DEF ToSet
<1>2. PlaceIn(bin, bin[j]) = Min(I) BY <1>1 DEF PlaceIn, SelectInSeq
<1>3. I \in SUBSET Nat BY <1>0
<1>4. \A x \in I : x # 0 OBVIOUS
<1> HIDE DEF I
<1>5. \E x \in I : \A y \in I : x <= y BY <1>1, <1>3, LeastNat
<1>6. Min(I) \in I BY <1>5 DEF Min
<1> QED BY <1>2, <1>4, <1>6

\* A felt the filter does not know, or that is not in the bin, is not twice there after it has
\* been added.
LEMMA InsertFiltered ==
  ASSUME NEW once, NEW bundle, Filled(bundle), InField(bundle), Filtered(bundle, once),
         NEW parts, PartsInField(parts), NEW start, NEW new, new.label_size = bundle.label_size,
         bundle.label_size > 0 =>
           \A b \in Bins : b - start + 1 \in DOMAIN parts =>
             FoundAt(bundle, b, parts[b - start + 1].felt) = 0,
         \A b \in Bins :
           IF b - start + 1 \in DOMAIN parts
           THEN /\ new.item_bins[b] = Append(bundle.item_bins[b], parts[b - start + 1].felt)
                /\ new.filters[b] = FilterAdd(bundle.filters[b], parts[b - start + 1].felt)
           ELSE new.item_bins[b] = bundle.item_bins[b] /\ new.filters[b] = bundle.filters[b]
  PROVE  Filtered(new, once)
<1> SUFFICES ASSUME PowersOfTwo, BucketsPaired, NEW b \in Bins
             PROVE  /\ FilterRight(new.filters[b], new.item_bins[b])
                    /\ /\ once /\ new.label_size > 0
                       /\ new.filters[b].num_items = Len(new.item_bins[b])
                       => IsInjective(new.item_bins[b])
  BY DEF Filtered
<1> DEFINE bin == bundle.item_bins[b]
           f == bundle.filters[b]
           x == parts[b - start + 1].felt
<1>1. /\ FilterRight(f, bin) /\ Listing(bin) /\ AllFelts(bin)
      /\ once /\ bundle.label_size > 0 /\ f.num_items = Len(bin) => IsInjective(bin)
  BY DEF Filtered, Filled, InField
<1>2. CASE b - start + 1 \notin DOMAIN parts BY <1>1, <1>2
<1>3. CASE b - start + 1 \in DOMAIN parts
  <2>1. x \in Felt /\ new.item_bins[b] = Append(bin, x) /\ new.filters[b] = FilterAdd(f, x)
    BY <1>3 DEF PartsInField
  <2>2. bundle.label_size > 0 => FoundAt(bundle, b, x) = 0 BY <1>3
  <2>3. FoundAt(bundle, b, x) = IF FilterContains(f, x) THEN PlaceIn(bin, x) ELSE 0
    BY DEF FoundAt
  <2> HIDE DEF bin, f, x
  <2>4. FilterRight(FilterAdd(f, x), Append(bin, x)) BY <1>1, <2>1, AddRight
  <2>5. ASSUME once, bundle.label_size > 0, FilterAdd(f, x).num_items = Len(Append(bin, x))
        PROVE  IsInjective(Append(bin, x))
    <3>1. /\ IsFilter(f) /\ f.num_items \in Int /\ f.num_items <= Len(bin) /\ Len(bin) \in Nat
          /\ f.num_items = Len(bin) => Kept(f, bin)
      BY <1>1 DEF FilterRight, IsFilter, Listing
    <3>2. /\ f.overflow.used => FilterAdd(f, x) = f
          /\ ~f.overflow.used => FilterAdd(f, x).num_items = f.num_items + 1
      BY <2>1, <3>1, FilterAddKeeps
    <3>3. /\ Listing(Append(bin, x)) /\ Len(Append(bin, x)) = Len(bin) + 1
          /\ Append(bin, x)[Len(bin) + 1] = x
          /\ \A i \in 1..Len(bin) : Append(bin, x)[i] = bin[i]
      BY <1>1, ListingAppend
    <3>4. f.num_items = Len(bin)
      <4>1. FilterAdd(f, x).num_items = Len(bin) + 1 BY <2>5, <3>3
      <4>2. CASE f.overflow.used
        <5>1. f.num_items = Len(bin) + 1 BY <3>2, <4>1, <4>2
        <5> QED BY <3>1, <5>1
      <4>3. CASE ~f.overflow.used
        <5>1. f.num_items + 1 = Len(bin) + 1 BY <3>2, <4>1, <4>3
        <5> QED BY <3>1, <5>1
      <4> QED BY <4>2, <4>3
    <3>5. IsInjective(bin) /\ Kept(f, bin) BY <1>1, <2>5, <3>1, <3>4
    <3>6. \A i \in 1..Len(bin) : bin[i] # x
      <4> SUFFICES ASSUME NEW i \in 1..Len(bin), bin[i] = x PROVE FALSE OBVIOUS
      <4>1. FilterContains(f, bin[i]) BY <3>1, <3>5, KeptFound
      <4>2. PlaceIn(bin, bin[i]) # 0 BY <1>1, Searched
      <4> QED BY <2>2, <2>3, <2>5, <4>1, <4>2
    <3>7. PICK c : c = Append(bin, x) OBVIOUS
    <3>8. DOMAIN c = 1..(Len(bin) + 1) /\ DOMAIN bin = 1..Len(bin) BY <1>1, <3>3, <3>7, ListingSeq
    <3>9. \A i, j \in 1..Len(bin) : bin[i] = bin[j] => i = j BY <3>5, <3>8 DEF IsInjective
    <3>10. \A i \in 1..(Len(bin) + 1) : i \in 1..Len(bin) \/ i = Len(bin) + 1 BY <3>1
    <3>11. \A i, j \in 1..(Len(bin) + 1) : c[i] = c[j] => i = j
      BY <3>3, <3>6, <3>7, <3>9, <3>10
    <3> QED BY <3>7, <3>8, <3>11 DEF IsInjective
  <2> QED BY <2>1, <2>4, <2>5
<1> QED BY <1>2, <1>3

\* A felt that is found leaves the filter as well.
LEMMA RemoveFiltered ==
  ASSUME NEW once, NEW bundle, Filled(bundle), InField(bundle), Filtered(bundle, once),
         NEW parts, NEW start, NEW new, new.label_size = bundle.label_size,
         \A b \in Bins : b - start + 1 \in DOMAIN parts =>
           FoundAt(bundle, b, parts[b - start + 1].felt) # 0,
         \A b \in Bins :
           IF b - start + 1 \in DOMAIN parts
           THEN /\ new.item_bins[b] =
                     RemoveAt(bundle.item_bins[b],
                              PlaceIn(bundle.item_bins[b], parts[b - start + 1].felt))
                /\ new.filters[b] = FilterRemove(bundle.filters[b], parts[b - start + 1].felt)
           ELSE new.item_bins[b] = bundle.item_bins[b] /\ new.filters[b] = bundle.filters[b]
  PROVE  Filtered(new, once)
<1> SUFFICES ASSUME PowersOfTwo, BucketsPaired, NEW b \in Bins
             PROVE  /\ FilterRight(new.filters[b], new.item_bins[b])
                    /\ /\ once /\ new.label_size > 0
                       /\ new.filters[b].num_items = Len(new.item_bins[b])
                       => IsInjective(new.item_bins[b])
  BY DEF Filtered
<1> DEFINE bin == bundle.item_bins[b]
           f == bundle.filters[b]
           x == parts[b - start + 1].felt
           p == PlaceIn(bin, x)
<1>1. /\ FilterRight(f, bin) /\ Listing(bin) /\ AllFelts(bin)
      /\ once /\ bundle.label_size > 0 /\ f.num_items = Len(bin) => IsInjective(bin)
  BY DEF Filtered, Filled, InField
<1>2. CASE b - start + 1 \notin DOMAIN parts BY <1>1, <1>2
<1>3. CASE b - start + 1 \in DOMAIN parts
  <2>1. new.item_bins[b] = RemoveAt(bin, p) /\ new.filters[b] = FilterRemove(f, x) BY <1>3
  <2>2. FilterContains(f, x) /\ PlaceIn(bin, x) # 0 BY <1>3 DEF FoundAt
  <2> HIDE DEF bin, f, x
  <2>3. p \in 1..Len(bin) /\ bin[p] = x BY <1>1, <2>2, Places
  <2> HIDE DEF p
  <2>4. x \in Felt BY <1>1, <2>3 DEF AllFelts
  <2>5. FilterRight(FilterRemove(f, bin[p]), RemoveAt(bin, p))
    BY <1>1, <2>2, <2>3, <2>4, RemoveRight
  <2>6. ASSUME once, bundle.label_size > 0, FilterRemove(f, x).num_items = Len(RemoveAt(bin, p))
        PROVE  IsInjective(RemoveAt(bin, p))
    <3>1. IsFilter(f) /\ f.num_items \in Int /\ Len(bin) \in Nat
      BY <1>1 DEF FilterRight, IsFilter, Listing
    <3>2. FilterRemove(f, x).num_items = f.num_items - 1 BY <2>2, <2>4, <3>1, FilterRemoveKeeps
    <3>3. /\ Listing(RemoveAt(bin, p)) /\ Len(RemoveAt(bin, p)) = Len(bin) - 1
          /\ \A k \in 1..(Len(bin) - 1) : RemoveAt(bin, p)[k] = bin[IF k < p THEN k ELSE k + 1]
      BY <1>1, <2>3, RemovedAt
    <3>4. f.num_items = Len(bin)
      <4>1. f.num_items - 1 = Len(bin) - 1 BY <2>6, <3>2, <3>3
      <4> QED BY <3>1, <4>1
    <3>5. IsInjective(bin) BY <1>1, <2>6, <3>4
    <3>6. PICK c : c = RemoveAt(bin, p) OBVIOUS
    <3>7. DOMAIN c = 1..(Len(bin) - 1) /\ DOMAIN bin = 1..Len(bin) BY <1>1, <3>3, <3>6, ListingSeq
    <3>8. \A i, j \in 1..Len(bin) : bin[i] = bin[j] => i = j BY <3>5, <3>7 DEF IsInjective
    <3> DEFINE At(k) == IF k < p THEN k ELSE k + 1
    <3>9. \A k \in 1..(Len(bin) - 1) : At(k) \in 1..Len(bin) BY <2>3, <3>1
    <3>10. \A i, j \in 1..(Len(bin) - 1) : At(i) = At(j) => i = j BY <2>3, <3>1
    <3>11. \A k \in 1..(Len(bin) - 1) : c[k] = bin[At(k)] BY <3>3, <3>6
    <3> HIDE DEF At
    <3>12. \A i, j \in 1..(Len(bin) - 1) : c[i] = c[j] => i = j BY <3>8, <3>9, <3>10, <3>11
    <3> QED BY <3>6, <3>7, <3>12 DEF IsInjective
  <2> QED BY <2>1, <2>3, <2>5, <2>6
<1> QED BY <1>2, <1>3

\* load builds the filters anew.
LEMMA LoadFiltered ==
  ASSUME NEW once, NEW bundle, Filled(bundle), InField(bundle), Filtered(bundle, once),
         once => \A b \in Bins : bundle.filters[b].num_items = Len(bundle.item_bins[b]),
         NEW new, new.label_size = bundle.label_size, new.item_bins = bundle.item_bins,
         \A b \in Bins : new.filters[b] = FilledFilter(bundle.item_bins[b])
  PROVE  Filtered(new, once)
<1> SUFFICES ASSUME PowersOfTwo, BucketsPaired, NEW b \in Bins
             PROVE  /\ FilterRight(new.filters[b], new.item_bins[b])
                    /\ once /\ new.label_size > 0 => IsInjective(new.item_bins[b])
  BY DEF Filtered
<1>1. PICK bin : bin = bundle.item_bins[b] OBVIOUS
<1>2. Listing(bin) /\ AllFelts(bin) BY <1>1 DEF Filled, InField
<1>3. FilterRight(FilledFilter(bin), bin) BY <1>2, FilledRight
<1>4. once /\ new.label_size > 0 => IsInjective(bin) BY <1>1 DEF Filtered
<1> QED BY <1>1, <1>3, <1>4

LEMMA SameFiltered ==
  ASSUME NEW once, NEW a, NEW b, a.item_bins = b.item_bins, a.filters = b.filters,
         a.label_size = b.label_size, Filtered(a, once)
  PROVE  Filtered(b, once)
BY DEF Filtered

\* The constructor.
LEMMA EmptySound ==
  ASSUME NEW once, NEW size \in Nat
  PROVE  Sound(EmptyBundle(size, FALSE), size, FALSE, once)
<1> DEFINE bundle == EmptyBundle(size, FALSE)
<1>1. /\ IsBundle(bundle) /\ bundle.label_size = size /\ bundle.stripped = FALSE
      /\ bundle.cache_invalid
  BY DEF EmptyBundle, Cleared, IsBundle, NoCache
<1>2. /\ bundle.item_bins = [b \in Bins |-> <<>>]
      /\ bundle.label_bins = [l \in 1..size |-> [b \in Bins |-> <<>>]]
  BY DEF EmptyBundle, Cleared
<1>3. Listing(<<>>) /\ Len(<<>>) = 0 BY DEF Listing
<1>4. Listing(bundle.label_bins) /\ Len(bundle.label_bins) = size
  <2> DEFINE f == bundle.label_bins
  <2>1. f = [l \in 1..size |-> f[l]] BY <1>2
  <2> HIDE DEF f
  <2> QED BY <2>1, ListingOf DEF f
<1> HIDE DEF bundle
<1>5. Filled(bundle) BY <1>1, <1>2, <1>3, <1>4, Sizes DEF Filled
<1>6. InField(bundle) BY <1>1, <1>2, <1>3 DEF InField, AllFelts
<1>7. Filtered(bundle, once)
  <2>1. bundle.filters = [b \in Bins |-> EmptyFilter(max_bin_size)]
    BY DEF bundle, EmptyBundle, Cleared
  <2>2. PICK e, s : e = EmptyFilter(max_bin_size) /\ s = <<>> OBVIOUS
  <2>3. IsFilter(e) /\ e.num_items = 0 /\ Kept(e, s) BY <2>2, EmptyKept
  <2>4. FilterRight(e, s) BY <1>3, <2>2, <2>3 DEF FilterRight
  <2>5. IsInjective(s) BY <2>2 DEF IsInjective
  <2>6. \A b \in Bins : bundle.item_bins[b] = s /\ bundle.filters[b] = e BY <1>2, <2>1, <2>2
  <2> QED BY <2>4, <2>5, <2>6 DEF Filtered
<1> QED BY <1>1, <1>5, <1>6, <1>7 DEF Sound, bundle

\* What the bins hold after an insertion where HasSpace finds space, or into a new bundle.
LEMMA InsertSound ==
  ASSUME NEW once, NEW bundle, NEW size, Sound(bundle, size, FALSE, once), NEW parts,
         NEW start \in Nat,
         PartsInField(parts), \A k \in DOMAIN parts : Len(parts[k].label) = size,
         max_bin_size >= 2 =>
           \A b \in Bins : b - start + 1 \in DOMAIN parts =>
             Len(bundle.item_bins[b]) + 1 < max_bin_size,
         size > 0 =>
           \A b \in Bins : b - start + 1 \in DOMAIN parts =>
             FoundAt(bundle, b, parts[b - start + 1].felt) = 0
  PROVE  Sound(MultiInsert(bundle, parts, start), size, FALSE, once)
<1> DEFINE at(b) == b - start + 1
           in(b) == at(b) \in DOMAIN parts
           new == MultiInsert(bundle, parts, start)
           items == [b \in Bins |-> IF in(b) THEN Append(bundle.item_bins[b], parts[at(b)].felt)
                                             ELSE bundle.item_bins[b]]
           labels == [l \in DOMAIN bundle.label_bins |->
                        [b \in Bins |-> IF in(b) THEN Append(bundle.label_bins[l][b],
                                                             parts[at(b)].label[l])
                                        ELSE bundle.label_bins[l][b]]]
           filters == [b \in Bins |-> IF in(b) THEN FilterAdd(bundle.filters[b], parts[at(b)].felt)
                                               ELSE bundle.filters[b]]
<1>0. /\ IsBundle(bundle) /\ bundle.label_size = size /\ bundle.stripped = FALSE /\ Filled(bundle)
      /\ InField(bundle) /\ Filtered(bundle, once)
  BY DEF Sound
<1>1. new = [item_bins |-> items, filters |-> filters, label_bins |-> labels,
             label_size |-> size, cache |-> bundle.cache, cache_invalid |-> TRUE,
             stripped |-> FALSE]
  <2> HIDE DEF items, labels, filters
  <2>1. CacheKeptOnInsert(bundle, parts, start) =
          [bundle EXCEPT !.item_bins = items, !.filters = filters, !.label_bins = labels]
    BY DEF CacheKeptOnInsert, items, labels, filters
  <2>2. new = [[bundle EXCEPT !.item_bins = items, !.filters = filters, !.label_bins = labels]
                 EXCEPT !.cache_invalid = TRUE]
    BY <2>1 DEF MultiInsert
  <2> HIDE DEF new
  <2> QED BY <1>0, <2>2 DEF IsBundle
<1>2. ASSUME NEW b \in Bins
      PROVE  /\ Listing(items[b]) /\ (max_bin_size >= 2 => Len(items[b]) < max_bin_size)
             /\ Len(items[b]) = IF in(b) THEN Len(bundle.item_bins[b]) + 1
                                ELSE Len(bundle.item_bins[b])
  <2>1. /\ Listing(bundle.item_bins[b])
        /\ max_bin_size >= 2 => Len(bundle.item_bins[b]) < max_bin_size
    BY <1>0 DEF Filled
  <2>2. CASE in(b) BY <2>1, <2>2, ListingAppend
  <2>3. CASE ~in(b) BY <2>1, <2>3
  <2> QED BY <2>2, <2>3
<1>3. DOMAIN bundle.label_bins = 1..size /\ size \in Nat
  BY <1>0, ListingSeq DEF Filled, Listing
<1>4. Listing(labels) /\ Len(labels) = size
  <2>1. labels = [l \in 1..size |-> labels[l]] BY <1>3
  <2> HIDE DEF labels
  <2> QED BY <1>3, <2>1, ListingOf
<1>5. ASSUME NEW l \in 1..size, NEW b \in Bins
      PROVE  Listing(labels[l][b]) /\ Len(labels[l][b]) = Len(items[b])
  <2>1. Listing(bundle.label_bins[l][b]) /\ Len(bundle.label_bins[l][b]) = Len(bundle.item_bins[b])
    BY <1>0 DEF Filled
  <2>2. CASE in(b)
    <3>1. labels[l][b] = Append(bundle.label_bins[l][b], parts[at(b)].label[l]) BY <1>3, <2>2
    <3>2. /\ Listing(Append(bundle.label_bins[l][b], parts[at(b)].label[l]))
          /\ Len(Append(bundle.label_bins[l][b], parts[at(b)].label[l])) =
               Len(bundle.label_bins[l][b]) + 1
      BY ONLY <2>1, ListingAppend
    <3>3. Len(items[b]) = Len(bundle.item_bins[b]) + 1 BY <1>2, <2>2
    <3> HIDE DEF labels, items
    <3> QED BY <2>1, <3>1, <3>2, <3>3
  <2>3. CASE ~in(b)
    <3>1. labels[l][b] = bundle.label_bins[l][b] BY <1>3, <2>3
    <3> QED BY <1>2, <2>1, <2>3, <3>1
  <2> QED BY <2>2, <2>3
<1>f. ASSUME PowersOfTwo, NEW b \in Bins
      PROVE  AllFelts(items[b]) /\ \A l \in 1..size : AllFelts(labels[l][b])
  <2>1. /\ AllFelts(bundle.item_bins[b]) /\ Listing(bundle.item_bins[b])
        /\ \A l \in 1..size : AllFelts(bundle.label_bins[l][b]) /\ Listing(bundle.label_bins[l][b])
    BY <1>0, <1>f DEF InField, Filled
  <2>2. CASE in(b)
    <3>1. /\ items[b] = Append(bundle.item_bins[b], parts[at(b)].felt)
          /\ \A l \in 1..size : labels[l][b] = Append(bundle.label_bins[l][b], parts[at(b)].label[l])
      BY <1>3, <2>2
    <3>2. parts[at(b)].felt \in Felt /\ \A l \in 1..size : parts[at(b)].label[l] \in Felt
      BY <1>f, <2>2 DEF PartsInField, AllFelts
    <3> HIDE DEF items, labels
    <3> QED BY <2>1, <3>1, <3>2, FeltsAppend
  <2>3. CASE ~in(b)
    <3>1. items[b] = bundle.item_bins[b] /\ \A l \in 1..size : labels[l][b] = bundle.label_bins[l][b]
      BY <1>3, <2>3
    <3> HIDE DEF items, labels
    <3> QED BY <2>1, <3>1
  <2> QED BY <2>2, <2>3
<1>6. DOMAIN items = Bins OBVIOUS
<1>g. \A b \in Bins :
        IF in(b) THEN /\ items[b] = Append(bundle.item_bins[b], parts[at(b)].felt)
                      /\ filters[b] = FilterAdd(bundle.filters[b], parts[at(b)].felt)
        ELSE items[b] = bundle.item_bins[b] /\ filters[b] = bundle.filters[b]
  OBVIOUS
<1> HIDE DEF items, labels, filters, new
<1>7. Filled(new) BY <1>1, <1>2, <1>4, <1>5, <1>6 DEF Filled
<1>8. IsBundle(new) BY <1>0, <1>1 DEF IsBundle
<1>9. InField(new) BY <1>1, <1>f DEF InField
<1>10. Filtered(new, once)
  <2>1. new.item_bins = items /\ new.filters = filters /\ new.label_size = size BY <1>1
  <2> QED BY <1>0, <1>g, <2>1, InsertFiltered
<1> QED BY <1>1, <1>7, <1>8, <1>9, <1>10 DEF Sound, new

LEMMA OverwriteSound ==
  ASSUME NEW once, NEW bundle, NEW size, Sound(bundle, size, FALSE, once), NEW parts,
         NEW start \in Nat,
         PartsInField(parts), \A k \in DOMAIN parts : Len(parts[k].label) = size
  PROVE  Sound(MultiOverwrite(bundle, parts, start), size, FALSE, once)
<1> DEFINE at(b) == b - start + 1
           put(l, b, labels) ==
             IF at(b) \notin DOMAIN parts THEN labels
             ELSE [labels EXCEPT ![PlaceIn(bundle.item_bins[b], parts[at(b)].felt)] =
                                   parts[at(b)].label[l]]
           new == MultiOverwrite(bundle, parts, start)
           labels == [l \in DOMAIN bundle.label_bins |->
                        [b \in Bins |-> put(l, b, bundle.label_bins[l][b])]]
<1>0. /\ IsBundle(bundle) /\ bundle.label_size = size /\ bundle.stripped = FALSE /\ Filled(bundle)
      /\ InField(bundle) /\ Filtered(bundle, once)
  BY DEF Sound
<1>1. new = [item_bins |-> bundle.item_bins, filters |-> bundle.filters, label_bins |-> labels,
             label_size |-> size, cache |-> bundle.cache, cache_invalid |-> TRUE,
             stripped |-> FALSE]
  <2> HIDE DEF labels
  <2>1. new = [bundle EXCEPT !.label_bins = labels, !.cache_invalid = TRUE]
    BY DEF MultiOverwrite, labels
  <2> HIDE DEF new
  <2> QED BY <1>0, <2>1 DEF IsBundle
<1>3. DOMAIN bundle.label_bins = 1..size /\ size \in Nat
  BY <1>0, ListingSeq DEF Filled, Listing
<1>4. Listing(labels) /\ Len(labels) = size
  <2>1. labels = [l \in 1..size |-> labels[l]] BY <1>3
  <2> HIDE DEF labels
  <2> QED BY <1>3, <2>1, ListingOf
<1>5. ASSUME NEW l \in 1..size, NEW b \in Bins
      PROVE  Listing(labels[l][b]) /\ Len(labels[l][b]) = Len(bundle.item_bins[b])
  <2> DEFINE old == bundle.label_bins[l][b]
             p == PlaceIn(bundle.item_bins[b], parts[at(b)].felt)
             x == parts[at(b)].label[l]
  <2>1. Listing(old) /\ Len(old) = Len(bundle.item_bins[b]) BY <1>0 DEF Filled
  <2>2. labels[l][b] = IF at(b) \notin DOMAIN parts THEN old ELSE [old EXCEPT ![p] = x] BY <1>3
  <2> HIDE DEF old, p, x, labels
  <2>3. Listing([old EXCEPT ![p] = x]) /\ Len([old EXCEPT ![p] = x]) = Len(old)
    BY <2>1, ListingExcept
  <2> QED BY <2>1, <2>2, <2>3
<1>f. ASSUME PowersOfTwo, NEW b \in Bins PROVE \A l \in 1..size : AllFelts(labels[l][b])
  <2> SUFFICES ASSUME NEW l \in 1..size PROVE AllFelts(labels[l][b]) OBVIOUS
  <2> DEFINE old == bundle.label_bins[l][b]
             p == PlaceIn(bundle.item_bins[b], parts[at(b)].felt)
             x == parts[at(b)].label[l]
  <2>1. Listing(old) /\ AllFelts(old) BY <1>0, <1>f DEF Filled, InField
  <2>2. labels[l][b] = IF at(b) \notin DOMAIN parts THEN old ELSE [old EXCEPT ![p] = x] BY <1>3
  <2>3. at(b) \in DOMAIN parts => x \in Felt BY <1>f DEF PartsInField, AllFelts
  <2> HIDE DEF old, p, x, labels
  <2>4. x \in Felt => AllFelts([old EXCEPT ![p] = x]) BY <2>1, FeltsExcept
  <2> QED BY <2>1, <2>2, <2>3, <2>4
<1> HIDE DEF labels, new
<1>7. Filled(new) BY <1>0, <1>1, <1>4, <1>5 DEF Filled
<1>8. IsBundle(new) BY <1>0, <1>1 DEF IsBundle
<1>9. InField(new) BY <1>0, <1>1, <1>f DEF InField
<1>10. Filtered(new, once)
  <2>1. /\ new.item_bins = bundle.item_bins /\ new.filters = bundle.filters
        /\ new.label_size = bundle.label_size
    BY <1>0, <1>1
  <2> QED BY <1>0, <2>1, SameFiltered
<1> QED BY <1>1, <1>7, <1>8, <1>9, <1>10 DEF Sound, new

LEMMA RemoveSound ==
  ASSUME NEW once, NEW bundle, NEW size, Sound(bundle, size, FALSE, once), NEW parts,
         NEW start \in Nat,
         AllFound(bundle, parts, start)
  PROVE  Sound(MultiRemove(bundle, parts, start), size, FALSE, once)
<1> DEFINE at(b) == b - start + 1
           in(b) == at(b) \in DOMAIN parts
           place(b) == PlaceIn(bundle.item_bins[b], parts[at(b)].felt)
           new == MultiRemove(bundle, parts, start)
           items == [b \in Bins |-> IF in(b) THEN RemoveAt(bundle.item_bins[b], place(b))
                                             ELSE bundle.item_bins[b]]
           labels == [l \in DOMAIN bundle.label_bins |->
                        [b \in Bins |-> IF in(b) THEN RemoveAt(bundle.label_bins[l][b], place(b))
                                        ELSE bundle.label_bins[l][b]]]
           filters == [b \in Bins |-> IF in(b) THEN FilterRemove(bundle.filters[b], parts[at(b)].felt)
                                               ELSE bundle.filters[b]]
<1>0. /\ IsBundle(bundle) /\ bundle.label_size = size /\ bundle.stripped = FALSE /\ Filled(bundle)
      /\ InField(bundle) /\ Filtered(bundle, once)
  BY DEF Sound
<1>1. new = [item_bins |-> items, filters |-> filters, label_bins |-> labels,
             label_size |-> size, cache |-> bundle.cache, cache_invalid |-> TRUE,
             stripped |-> FALSE]
  <2> HIDE DEF items, labels, filters
  <2>1. new = [bundle EXCEPT !.item_bins = items, !.filters = filters, !.label_bins = labels,
                             !.cache_invalid = TRUE]
    BY DEF MultiRemove, items, labels, filters
  <2> HIDE DEF new
  <2> QED BY <1>0, <2>1 DEF IsBundle
<1>p. ASSUME NEW b \in Bins, in(b)
      PROVE  /\ place(b) \in 1..Len(bundle.item_bins[b])
             /\ FoundAt(bundle, b, parts[at(b)].felt) # 0
  <2>1. PICK k \in DOMAIN parts : k = at(b) BY <1>p
  <2>2. start + k - 1 = b
    <3>1. b \in Int BY Sizes DEF Bins
    <3> QED BY <2>1, <3>1
  <2>3. FoundAt(bundle, b, parts[k].felt) # 0 BY <2>2 DEF AllFound
  <2>4. PlaceIn(bundle.item_bins[b], parts[k].felt) # 0 BY <2>3 DEF FoundAt
  <2>5. Listing(bundle.item_bins[b]) BY <1>0 DEF Filled
  <2> QED BY <2>1, <2>3, <2>4, <2>5, Places
<1>2. ASSUME NEW b \in Bins
      PROVE  /\ Listing(items[b]) /\ (max_bin_size >= 2 => Len(items[b]) < max_bin_size)
             /\ Len(items[b]) = IF in(b) THEN Len(bundle.item_bins[b]) - 1
                                ELSE Len(bundle.item_bins[b])
  <2>1. /\ Listing(bundle.item_bins[b])
        /\ max_bin_size >= 2 => Len(bundle.item_bins[b]) < max_bin_size
    BY <1>0 DEF Filled
  <2>2. CASE in(b)
    <3>1. items[b] = RemoveAt(bundle.item_bins[b], place(b)) BY <2>2
    <3>2. place(b) \in 1..Len(bundle.item_bins[b]) BY <1>p, <2>2
    <3>3. Listing(items[b]) /\ Len(items[b]) = Len(bundle.item_bins[b]) - 1
      BY <2>1, <3>1, <3>2, ListingRemoveAt
    <3>4. Len(bundle.item_bins[b]) \in Nat BY <2>1 DEF Listing
    <3> QED BY <2>1, <2>2, <3>3, <3>4, Sizes
  <2>3. CASE ~in(b) BY <2>1, <2>3
  <2> QED BY <2>2, <2>3
<1>3. DOMAIN bundle.label_bins = 1..size /\ size \in Nat
  BY <1>0, ListingSeq DEF Filled, Listing
<1>4. Listing(labels) /\ Len(labels) = size
  <2>1. labels = [l \in 1..size |-> labels[l]] BY <1>3
  <2> HIDE DEF labels
  <2> QED BY <1>3, <2>1, ListingOf
<1>5. ASSUME NEW l \in 1..size, NEW b \in Bins
      PROVE  Listing(labels[l][b]) /\ Len(labels[l][b]) = Len(items[b])
  <2>1. Listing(bundle.label_bins[l][b]) /\ Len(bundle.label_bins[l][b]) = Len(bundle.item_bins[b])
    BY <1>0 DEF Filled
  <2>2. CASE in(b)
    <3>1. labels[l][b] = RemoveAt(bundle.label_bins[l][b], place(b)) BY <1>3, <2>2
    <3>2. place(b) \in 1..Len(bundle.label_bins[l][b]) BY <1>p, <2>1, <2>2
    <3>3. /\ Listing(RemoveAt(bundle.label_bins[l][b], place(b)))
          /\ Len(RemoveAt(bundle.label_bins[l][b], place(b))) = Len(bundle.label_bins[l][b]) - 1
      BY ONLY <2>1, <3>2, ListingRemoveAt
    <3>4. Len(items[b]) = Len(bundle.item_bins[b]) - 1 BY <1>2, <2>2
    <3> HIDE DEF labels, items
    <3> QED BY <2>1, <3>1, <3>3, <3>4
  <2>3. CASE ~in(b)
    <3>1. labels[l][b] = bundle.label_bins[l][b] BY <1>3, <2>3
    <3> QED BY <1>2, <2>1, <2>3, <3>1
  <2> QED BY <2>2, <2>3
<1>f. ASSUME PowersOfTwo, NEW b \in Bins
      PROVE  AllFelts(items[b]) /\ \A l \in 1..size : AllFelts(labels[l][b])
  <2>1. /\ AllFelts(bundle.item_bins[b]) /\ Listing(bundle.item_bins[b])
        /\ \A l \in 1..size : AllFelts(bundle.label_bins[l][b]) /\ Listing(bundle.label_bins[l][b])
    BY <1>0, <1>f DEF InField, Filled
  <2>2. CASE in(b)
    <3>1. /\ items[b] = RemoveAt(bundle.item_bins[b], place(b))
          /\ \A l \in 1..size : labels[l][b] = RemoveAt(bundle.label_bins[l][b], place(b))
      BY <1>3, <2>2
    <3>2. /\ place(b) \in 1..Len(bundle.item_bins[b])
          /\ \A l \in 1..size : Len(bundle.label_bins[l][b]) = Len(bundle.item_bins[b])
      BY <1>0, <1>p, <2>2 DEF Filled
    <3> HIDE DEF items, labels
    <3> QED BY <2>1, <3>1, <3>2, FeltsRemove
  <2>3. CASE ~in(b)
    <3>1. items[b] = bundle.item_bins[b] /\ \A l \in 1..size : labels[l][b] = bundle.label_bins[l][b]
      BY <1>3, <2>3
    <3> HIDE DEF items, labels
    <3> QED BY <2>1, <3>1
  <2> QED BY <2>2, <2>3
<1>6. DOMAIN items = Bins OBVIOUS
<1>g. \A b \in Bins :
        IF in(b) THEN /\ items[b] = RemoveAt(bundle.item_bins[b], place(b))
                      /\ filters[b] = FilterRemove(bundle.filters[b], parts[at(b)].felt)
        ELSE items[b] = bundle.item_bins[b] /\ filters[b] = bundle.filters[b]
  OBVIOUS
<1> HIDE DEF items, labels, filters, new
<1>7. Filled(new) BY <1>1, <1>2, <1>4, <1>5, <1>6 DEF Filled
<1>8. IsBundle(new) BY <1>0, <1>1 DEF IsBundle
<1>9. InField(new) BY <1>1, <1>f DEF InField
<1>10. Filtered(new, once)
  <2>1. new.item_bins = items /\ new.filters = filters /\ new.label_size = size BY <1>1
  <2>2. \A b \in Bins : in(b) => FoundAt(bundle, b, parts[at(b)].felt) # 0 BY <1>p
  <2> QED BY <1>0, <1>g, <2>1, <2>2, RemoveFiltered
<1> QED BY <1>1, <1>7, <1>8, <1>9, <1>10 DEF Sound, new

-----------------------------------------------------------------------------
(* The cache: how long its polynomials are. *)

\* The largest of finitely many numbers.
LargestOf(least, f, S) == Max({least} \cup {f[x] : x \in S})

LEMMA LargestValue ==
  ASSUME NEW S, IsFiniteSet(S), NEW f, \A x \in S : f[x] \in Nat, NEW least \in Nat
  PROVE  LET m == LargestOf(least, f, S)
         IN  /\ m \in Nat /\ least <= m /\ \A x \in S : f[x] <= m
             /\ m = least \/ \E x \in S : m = f[x]
<1> DEFINE V == {f[x] : x \in S}
           W == {least} \cup V
           g == [x \in S |-> f[x]]
<1>1. g \in Surjection(S, V) BY DEF Surjection
<1>2. IsFiniteSet(V) BY <1>1, FS_Surjection
<1>3. IsFiniteSet({least}) BY FS_Singleton
<1>4. IsFiniteSet(W) BY <1>2, <1>3, FS_Union
<1>5. W \in SUBSET Nat /\ W # {} OBVIOUS
<1>6. Max(W) \in W /\ \A x \in W : x <= Max(W)
  <2> HIDE DEF W
  <2> QED BY <1>4, <1>5, MaxIs
<1> QED BY <1>5, <1>6 DEF LargestOf

LEMMA LongestIs ==
  ASSUME NEW polyns, DOMAIN polyns = Bins, \A b \in Bins : Len(polyns[b]) \in Nat \ {0}
  PROVE  LET m == CoeffCount(polyns)
         IN  /\ m \in Nat \ {0} /\ \A b \in Bins : Len(polyns[b]) <= m
             /\ \E b \in Bins : m = Len(polyns[b])
             /\ m = Max({1} \cup {Len(polyns[b]) : b \in DOMAIN polyns})
<1> DEFINE f == [b \in Bins |-> Len(polyns[b])]
           m == LargestOf(0, f, Bins)
           o == LargestOf(1, f, Bins)
<1>1. IsFiniteSet(Bins) /\ 0 \in Bins BY Sizes, FS_Interval DEF Bins
<1>2. \A b \in Bins : f[b] \in Nat \ {0} OBVIOUS
<1>3. /\ {Len(polyns[b]) : b \in DOMAIN polyns} = {f[b] : b \in Bins}
      /\ CoeffCount(polyns) = m
  BY DEF CoeffCount, LargestOf
<1> HIDE DEF f
<1>4. m \in Nat /\ (\A b \in Bins : f[b] <= m) /\ (m = 0 \/ \E b \in Bins : m = f[b])
  <2>1. 0 \in Nat /\ \A b \in Bins : f[b] \in Nat BY <1>2
  <2> QED BY <2>1, <1>1, LargestValue
<1>5. o \in Nat /\ 1 <= o /\ (\A b \in Bins : f[b] <= o) /\ (o = 1 \/ \E b \in Bins : o = f[b])
  <2>1. 1 \in Nat /\ \A b \in Bins : f[b] \in Nat BY <1>2
  <2> QED BY <2>1, <1>1, LargestValue
<1> HIDE DEF m, o
<1>6. m # 0
  <2>1. f[0] \in Nat \ {0} /\ f[0] <= m BY <1>1, <1>2, <1>4
  <2> QED BY <2>1, <1>4
<1>7. PICK x \in Bins : m = f[x] BY <1>4, <1>6
<1>8. m = o
  <2>1. m <= o BY <1>5, <1>7
  <2>2. o <= m
    <3>1. CASE o = 1 BY <1>4, <1>6, <3>1
    <3>2. CASE \E b \in Bins : o = f[b] BY <1>4, <3>2
    <3> QED BY <1>5, <3>1, <3>2
  <2> QED BY <1>4, <1>5, <2>1, <2>2
<1>9. \A b \in Bins : f[b] = Len(polyns[b]) BY DEF f
<1> QED BY <1>3, <1>4, <1>6, <1>7, <1>8, <1>9 DEF o, LargestOf

\* A batched polynomial has as many plaintexts as the longest polynomial has coefficients.
LEMMA BatchedLength ==
  ASSUME NEW polyns, DOMAIN polyns = Bins, \A b \in Bins : Len(polyns[b]) \in Nat \ {0}
  PROVE  Len(Batched(polyns)) = CoeffCount(polyns)
<1> DEFINE m == Max({1} \cup {Len(polyns[b]) : b \in DOMAIN polyns})
           f == [i \in 1..m |-> [b \in DOMAIN polyns |-> IF i <= Len(polyns[b]) THEN polyns[b][i] ELSE 0]]
<1>1. Batched(polyns) = f BY DEF Batched
<1>2. m \in Nat /\ m = CoeffCount(polyns) BY LongestIs
<1>3. f = [i \in 1..m |-> f[i]] OBVIOUS
<1> HIDE DEF f, m
<1> QED BY <1>1, <1>2, <1>3, ListingOf

\* The cache of bins that are not full is one that load accepts.
LEMMA CacheLengths ==
  ASSUME NEW bundle, Filled(bundle), NEW c, c = RegenPolyns(bundle)
  PROVE  /\ DOMAIN c.matching = Bins
         /\ Len(c.batched_matching) = CoeffCount(c.matching)
         /\ CoeffCount(c.matching) \in Nat \ {0}
         /\ max_bin_size >= 2 => CoeffCount(c.matching) <= max_bin_size
         /\ Len(c.interp) = bundle.label_size /\ Len(c.batched_interp) = bundle.label_size
         /\ \A l \in 1..bundle.label_size :
              /\ Len(c.batched_interp[l]) = OrAllButOne(CoeffCount(c.matching))
              /\ \A b \in Bins : Len(c.interp[l][b]) = OrAllButOne(Len(c.matching[b]))
<1> DEFINE size == bundle.label_size
           items(b) == bundle.item_bins[b]
           matching == [b \in Bins |-> PolynWithRoots(items(b))]
           interp == [l \in DOMAIN bundle.label_bins |->
                       [b \in Bins |-> NewtonInterpolatePolyn(items(b), bundle.label_bins[l][b])]]
<1>1. /\ \A b \in Bins : /\ Listing(items(b)) /\ Len(items(b)) \in Nat
                         /\ max_bin_size >= 2 => Len(items(b)) < max_bin_size
      /\ DOMAIN bundle.label_bins = 1..size /\ size \in Nat
      /\ \A l \in 1..size, b \in Bins : /\ Listing(bundle.label_bins[l][b])
                                        /\ Len(bundle.label_bins[l][b]) = Len(items(b))
  BY ListingSeq DEF Filled, Listing
<1>2. /\ c.matching = matching /\ c.interp = interp
      /\ c.batched_matching = Batched(matching)
      /\ c.batched_interp = [l \in DOMAIN interp |-> Batched(interp[l])]
  BY DEF RegenPolyns
<1>3. /\ DOMAIN matching = Bins
      /\ \A b \in Bins : Len(matching[b]) = Len(items(b)) + 1
  BY <1>1, RootsLength
<1>4. ASSUME NEW l \in 1..size
      PROVE  /\ DOMAIN interp[l] = Bins
             /\ \A b \in Bins : Len(interp[l][b]) = OrAllButOne(Len(matching[b]))
  <2>1. DOMAIN interp[l] = Bins BY <1>1
  <2>2. ASSUME NEW b \in Bins PROVE Len(interp[l][b]) = OrAllButOne(Len(matching[b]))
    <3> DEFINE values == bundle.label_bins[l][b]
    <3>1. interp[l][b] = NewtonInterpolatePolyn(items(b), values) BY <1>1
    <3>2. Listing(items(b)) /\ Listing(values) /\ Len(values) = Len(items(b)) BY <1>1
    <3>3. Len(interp[l][b]) = IF items(b) = <<>> THEN 1 ELSE Len(items(b))
      <4>1. PICK p, v : p = items(b) /\ v = values OBVIOUS
      <4>2. Len(NewtonInterpolatePolyn(p, v)) = IF p = <<>> THEN 1 ELSE Len(p)
        <5>1. Listing(p) /\ Listing(v) /\ Len(v) = Len(p) BY <3>2, <4>1
        <5> QED BY ONLY <5>1, NewtonLength
      <4> QED BY <3>1, <4>1, <4>2
    <3>4. items(b) = <<>> <=> Len(items(b)) = 0
      <4>1. items(b) = [k \in 1..Len(items(b)) |-> items(b)[k]] BY <1>1 DEF Listing
      <4>2. Len(items(b)) = 0 => items(b) = <<>> BY <4>1
      <4> QED BY <4>2
    <3>5. Len(matching[b]) = Len(items(b)) + 1 /\ Len(items(b)) \in Nat BY <1>1, <1>3
    <3> HIDE DEF matching, interp
    <3> QED BY <3>3, <3>4, <3>5 DEF OrAllButOne
  <2> QED BY <2>1, <2>2
<1>5. Listing(interp) /\ Len(interp) = size /\ DOMAIN interp = 1..size
  <2>1. interp = [l \in 1..size |-> interp[l]] /\ size \in Nat BY <1>1
  <2> HIDE DEF interp
  <2> QED BY <2>1, ListingOf
<1> DEFINE batched == [l \in DOMAIN interp |-> Batched(interp[l])]
<1>6. Len(batched) = size /\ \A l \in 1..size : batched[l] = Batched(interp[l])
  <2> HIDE DEF interp
  <2>1. batched = [l \in 1..size |-> batched[l]] /\ size \in Nat BY <1>1, <1>5
  <2>2. \A l \in 1..size : batched[l] = Batched(interp[l]) BY <1>5
  <2> HIDE DEF batched
  <2> QED BY <2>1, <2>2, ListingOf
<1> HIDE DEF matching, interp, batched
<1>7. \A b \in Bins : Len(matching[b]) \in Nat \ {0} BY <1>1, <1>3
<1> DEFINE m == CoeffCount(matching)
<1>8. /\ m \in Nat \ {0} /\ (\A b \in Bins : Len(matching[b]) <= m)
      /\ \E b \in Bins : m = Len(matching[b])
  BY <1>3, <1>7, LongestIs
<1>9. Len(Batched(matching)) = m BY <1>3, <1>7, BatchedLength
<1> HIDE DEF m
<1>10. max_bin_size >= 2 => m <= max_bin_size
  <2> SUFFICES ASSUME max_bin_size >= 2 PROVE m <= max_bin_size OBVIOUS
  <2>1. PICK b \in Bins : m = Len(matching[b]) BY <1>8
  <2>2. m = Len(items(b)) + 1 /\ Len(items(b)) \in Nat /\ Len(items(b)) < max_bin_size
    BY <1>1, <1>3, <2>1
  <2> QED BY <2>2, Sizes
<1>11. ASSUME NEW l \in 1..size PROVE Len(Batched(interp[l])) = OrAllButOne(m)
  <2>1. /\ DOMAIN interp[l] = Bins
        /\ \A b \in Bins : Len(interp[l][b]) = OrAllButOne(Len(matching[b]))
    BY <1>4
  <2>2. \A k \in Nat \ {0} : OrAllButOne(k) \in Nat \ {0} BY DEF OrAllButOne
  <2>3. \A j, k \in Nat \ {0} : j <= k => OrAllButOne(j) <= OrAllButOne(k) BY DEF OrAllButOne
  <2>4. \A b \in Bins : Len(interp[l][b]) \in Nat \ {0} BY <1>7, <2>1, <2>2
  <2> DEFINE p == interp[l]
             k == CoeffCount(p)
  <2>5. /\ k \in Nat \ {0} /\ (\A b \in Bins : Len(p[b]) <= k)
        /\ \E b \in Bins : k = Len(p[b])
    BY <2>1, <2>4, LongestIs
  <2>6. Len(Batched(p)) = k BY <2>1, <2>4, BatchedLength
  <2> HIDE DEF k
  <2>7. k <= OrAllButOne(m)
    <3>1. PICK b \in Bins : k = Len(p[b]) BY <2>5
    <3>2. k = OrAllButOne(Len(matching[b])) BY <2>1, <3>1
    <3>3. Len(matching[b]) <= m BY <1>8
    <3> QED BY <1>7, <1>8, <2>3, <3>2, <3>3
  <2>8. OrAllButOne(m) <= k
    <3>1. PICK b \in Bins : m = Len(matching[b]) BY <1>8
    <3>2. Len(p[b]) = OrAllButOne(m) BY <2>1, <3>1
    <3> QED BY <2>5, <3>2
  <2>9. OrAllButOne(m) \in Nat BY <1>8, <2>2
  <2> QED BY <2>5, <2>6, <2>7, <2>8, <2>9
<1>12. CoeffCount(c.matching) = m BY <1>2 DEF m
<1> QED BY <1>2, <1>3, <1>4, <1>5, <1>6, <1>8, <1>9, <1>10, <1>11, <1>12 DEF batched

-----------------------------------------------------------------------------
(* Regenerating the cache, stripping, saving and loading. *)

LEMMA SamePolyns ==
  ASSUME NEW x, NEW y, x.item_bins = y.item_bins, x.label_bins = y.label_bins
  PROVE  RegenPolyns(x) = RegenPolyns(y)
BY DEF RegenPolyns

LEMMA PolynsForm ==
  ASSUME NEW bundle, NEW c, c = RegenPolyns(bundle)
  PROVE  c = [matching |-> c.matching, interp |-> c.interp,
              batched_matching |-> c.batched_matching, batched_interp |-> c.batched_interp]
BY DEF RegenPolyns

LEMMA CacheSet ==
  ASSUME NEW x, IsBundle(x), NEW c
  PROVE  [x EXCEPT !.cache = c, !.cache_invalid = FALSE] =
           [item_bins |-> x.item_bins, filters |-> x.filters, label_bins |-> x.label_bins,
            label_size |-> x.label_size, cache |-> c, cache_invalid |-> FALSE,
            stripped |-> x.stripped]
<1> DEFINE y == [x EXCEPT !.cache = c, !.cache_invalid = FALSE]
<1>1. y = [x EXCEPT !.cache = c, !.cache_invalid = FALSE] OBVIOUS
<1> HIDE DEF y
<1>2. y = [item_bins |-> x.item_bins, filters |-> x.filters, label_bins |-> x.label_bins,
           label_size |-> x.label_size, cache |-> c, cache_invalid |-> FALSE,
           stripped |-> x.stripped]
  BY <1>1 DEF IsBundle
<1> QED BY <1>1, <1>2

LEMMA CacheStripped ==
  ASSUME NEW c, c = [matching |-> c.matching, interp |-> c.interp,
                     batched_matching |-> c.batched_matching, batched_interp |-> c.batched_interp]
  PROVE  [[c EXCEPT !.matching = <<>>] EXCEPT !.interp = <<>>] =
           [matching |-> <<>>, interp |-> <<>>, batched_matching |-> c.batched_matching,
            batched_interp |-> c.batched_interp]
<1> DEFINE y == [[c EXCEPT !.matching = <<>>] EXCEPT !.interp = <<>>]
<1>1. y = [[c EXCEPT !.matching = <<>>] EXCEPT !.interp = <<>>] OBVIOUS
<1> HIDE DEF y
<1>2. y = [matching |-> <<>>, interp |-> <<>>, batched_matching |-> c.batched_matching,
           batched_interp |-> c.batched_interp]
  BY <1>1
<1> QED BY <1>1, <1>2

LEMMA SameField ==
  ASSUME NEW a, NEW b, a.item_bins = b.item_bins, a.label_bins = b.label_bins,
         a.label_size = b.label_size, InField(a)
  PROVE  InField(b)
BY DEF InField

LEMMA RegenSound ==
  ASSUME NEW once, NEW bundle, NEW size, NEW bare \in BOOLEAN, Sound(bundle, size, bare, once)
  PROVE  /\ Sound(RegenCache(bundle), size, bare, once) /\ ~RegenCache(bundle).cache_invalid
         /\ RegenCache(bundle).item_bins = bundle.item_bins
         /\ RegenCache(bundle).label_bins = bundle.label_bins
<1>0. IsBundle(bundle) /\ bundle.label_size = size /\ bundle.stripped = bare BY DEF Sound
<1>1. CASE ~bundle.cache_invalid
  <2>1. RegenCache(bundle) = bundle BY <1>1 DEF RegenCache
  <2> QED BY <1>1, <2>1
<1>2. CASE bundle.cache_invalid
  <2> DEFINE new == RegenCache(bundle)
             c == RegenPolyns(bundle)
  <2>1. ~bare /\ Filled(bundle) /\ InField(bundle) /\ Filtered(bundle, once)
    BY <1>2 DEF Sound, CacheLeft
  <2>2. new = [bundle EXCEPT !.cache = c, !.cache_invalid = FALSE] BY <1>2 DEF RegenCache
  <2>3. c = [matching |-> c.matching, interp |-> c.interp,
             batched_matching |-> c.batched_matching, batched_interp |-> c.batched_interp]
    BY PolynsForm
  <2> HIDE DEF new, c
  <2>4. new = [item_bins |-> bundle.item_bins, filters |-> bundle.filters,
               label_bins |-> bundle.label_bins, label_size |-> size,
               cache |-> c, cache_invalid |-> FALSE, stripped |-> bare]
    BY <1>0, <2>2 DEF IsBundle
  <2>5. IsBundle(new) BY <2>3, <2>4 DEF IsBundle
  <2>6. Filled(new) BY <1>0, <2>1, <2>4 DEF Filled
  <2>7. RegenPolyns(new) = c
    <3>1. new.item_bins = bundle.item_bins /\ new.label_bins = bundle.label_bins BY <2>4
    <3> QED BY <3>1, SamePolyns DEF c
  <2>8. InField(new)
    <3>1. /\ new.item_bins = bundle.item_bins /\ new.label_bins = bundle.label_bins
          /\ new.label_size = bundle.label_size
      BY <1>0, <2>4
    <3> QED BY <2>1, <3>1, SameField
  <2>9. Filtered(new, once)
    <3>1. /\ new.item_bins = bundle.item_bins /\ new.filters = bundle.filters
          /\ new.label_size = bundle.label_size
      BY <1>0, <2>4
    <3> QED BY <2>1, <3>1, SameFiltered
  <2> QED BY <2>1, <2>4, <2>5, <2>6, <2>7, <2>8, <2>9 DEF Sound, new
<1> QED BY <1>1, <1>2

LEMMA StripSound ==
  ASSUME NEW once, NEW bundle, NEW size, NEW bare \in BOOLEAN, Sound(bundle, size, bare, once)
  PROVE  Sound(StripBundle(bundle), size, TRUE, once)
<1> DEFINE r == RegenCache(bundle)
           new == StripBundle(bundle)
<1>1. Sound(r, size, bare, once) /\ ~r.cache_invalid BY RegenSound
<1>2. new = [r EXCEPT !.stripped = TRUE, !.item_bins = <<>>, !.label_bins = <<>>, !.filters = <<>>,
                      !.cache.matching = <<>>, !.cache.interp = <<>>]
  BY DEF StripBundle
<1> HIDE DEF r, new
<1> DEFINE left == [matching |-> <<>>, interp |-> <<>>, batched_matching |-> r.cache.batched_matching,
                    batched_interp |-> r.cache.batched_interp]
<1>3. IsBundle(r) /\ r.label_size = size /\ r.cache_invalid = FALSE BY <1>1 DEF Sound, IsBundle
<1>4. new = [item_bins |-> <<>>, filters |-> <<>>, label_bins |-> <<>>, label_size |-> size,
             cache |-> left, cache_invalid |-> FALSE, stripped |-> TRUE]
  <2>1. new = [r EXCEPT !.stripped = TRUE, !.item_bins = <<>>, !.label_bins = <<>>, !.filters = <<>>,
                        !.cache = [[r.cache EXCEPT !.matching = <<>>] EXCEPT !.interp = <<>>]]
    BY <1>2, <1>3 DEF IsBundle
  <2>2. [[r.cache EXCEPT !.matching = <<>>] EXCEPT !.interp = <<>>] = left
    <3>1. r.cache = [matching |-> r.cache.matching, interp |-> r.cache.interp,
                     batched_matching |-> r.cache.batched_matching,
                     batched_interp |-> r.cache.batched_interp]
      BY <1>3 DEF IsBundle
    <3>2. PICK d : d = r.cache OBVIOUS
    <3>3. [[d EXCEPT !.matching = <<>>] EXCEPT !.interp = <<>>] =
            [matching |-> <<>>, interp |-> <<>>, batched_matching |-> d.batched_matching,
             batched_interp |-> d.batched_interp]
      <4>1. d = [matching |-> d.matching, interp |-> d.interp,
                 batched_matching |-> d.batched_matching, batched_interp |-> d.batched_interp]
        BY <3>1, <3>2
      <4> QED BY ONLY <4>1, CacheStripped
    <3> QED BY <3>2, <3>3
  <2> HIDE DEF left
  <2> QED BY <1>3, <2>1, <2>2 DEF IsBundle
<1>5. /\ max_bin_size >= 2 => Len(r.cache.batched_matching) <= max_bin_size
      /\ Len(r.cache.batched_interp) = size
      /\ max_bin_size >= 2 =>
           \A l \in 1..size : Len(r.cache.batched_interp[l]) <= max_bin_size
  <2>1. CASE bare BY <1>1, <1>3, <2>1 DEF Sound, CacheLeft
  <2>2. CASE ~bare
    <3>1. Filled(r) /\ r.cache = RegenPolyns(r) BY <1>1, <2>2 DEF Sound
    <3> DEFINE c == r.cache
               m == CoeffCount(c.matching)
    <3>2. /\ Len(c.batched_matching) = m /\ m \in Nat \ {0}
          /\ max_bin_size >= 2 => m <= max_bin_size
          /\ Len(c.batched_interp) = size
          /\ \A l \in 1..size : Len(c.batched_interp[l]) = OrAllButOne(m)
      BY <1>3, <3>1, CacheLengths
    <3> HIDE DEF m
    <3>3. OrAllButOne(m) <= m BY <3>2 DEF OrAllButOne
    <3>4. OrAllButOne(m) \in Nat BY <3>2 DEF OrAllButOne
    <3> QED BY <3>2, <3>3, <3>4, Sizes
  <2> QED BY <2>1, <2>2
<1>6. IsBundle(new) BY <1>4 DEF IsBundle
<1>7. CacheLeft(new) BY <1>4, <1>5 DEF CacheLeft
<1> QED BY <1>4, <1>6, <1>7 DEF Sound, new

\* What load makes of what save wrote: the bundle, but for its filters.
LEMMA LoadSound ==
  ASSUME NEW once, NEW bundle, NEW size \in Nat, NEW bare \in BOOLEAN,
         Sound(bundle, size, bare, once), NEW i,
         once => \A b \in DOMAIN bundle.item_bins :
                   bundle.filters[b].num_items = Len(bundle.item_bins[b])
  PROVE  LET saved  == SaveBundle(bundle, i)
             loaded == LoadBundle(saved, size)
         IN  /\ Sound(loaded, size, bare, once)
             /\ RegenCache([loaded EXCEPT !.filters = bundle.filters]) = RegenCache(bundle)
             /\ loaded.cache_invalid = bundle.cache_invalid
<1> DEFINE saved  == SaveBundle(bundle, i)
           loaded == LoadBundle(saved, size)
           filters == [b \in DOMAIN saved.item_bins |->
                        FoldLeft(FilterAdd, EmptyFilter(max_bin_size), saved.item_bins[b])]
           cache == IF bundle.cache_invalid THEN NoCache ELSE bundle.cache
           back == [loaded EXCEPT !.filters = bundle.filters]
<1>0. IsBundle(bundle) /\ bundle.label_size = size /\ bundle.stripped = bare BY DEF Sound
<1>1. saved = [bundle_idx |-> i, mod |-> mod, item_bins |-> bundle.item_bins,
               label_bins |-> bundle.label_bins, stripped |-> bare,
               has_cache |-> ~bundle.cache_invalid, cache |-> cache]
  BY <1>0 DEF SaveBundle
<1>2. loaded = [Cleared(size, saved.stripped) EXCEPT
                  !.item_bins = saved.item_bins, !.label_bins = saved.label_bins,
                  !.filters = filters,
                  !.cache = saved.cache, !.cache_invalid = ~saved.has_cache]
  BY DEF LoadBundle
<1>f. \A b \in DOMAIN bundle.item_bins : filters[b] = FilledFilter(bundle.item_bins[b])
  <2>1. saved.item_bins = bundle.item_bins BY <1>1
  <2> HIDE DEF saved
  <2> QED BY <2>1 DEF FilledFilter
<1> HIDE DEF loaded, filters, cache, saved
<1>3. loaded = [item_bins |-> bundle.item_bins, filters |-> filters,
                label_bins |-> bundle.label_bins, label_size |-> size,
                cache |-> cache, cache_invalid |-> bundle.cache_invalid, stripped |-> bare]
  <2>1. (~saved.has_cache) = bundle.cache_invalid
    <3>1. saved.has_cache = ~bundle.cache_invalid BY <1>1
    <3>2. bundle.cache_invalid \in BOOLEAN BY <1>0 DEF IsBundle
    <3>3. CASE bundle.cache_invalid = TRUE BY <3>1, <3>3
    <3>4. CASE bundle.cache_invalid = FALSE BY <3>1, <3>4
    <3> QED BY <3>2, <3>3, <3>4
  <2> DEFINE d == Cleared(size, bare)
  <2>2. d = [item_bins |-> d.item_bins, filters |-> d.filters, label_bins |-> d.label_bins,
             label_size |-> size, cache |-> NoCache, cache_invalid |-> TRUE, stripped |-> bare]
    BY DEF Cleared
  <2> HIDE DEF d
  <2>3. loaded = [d EXCEPT !.item_bins = bundle.item_bins, !.label_bins = bundle.label_bins,
                           !.filters = filters, !.cache = cache,
                           !.cache_invalid = bundle.cache_invalid]
    <3>1. /\ saved.stripped = bare /\ saved.item_bins = bundle.item_bins
          /\ saved.label_bins = bundle.label_bins /\ saved.cache = cache
      BY <1>1
    <3> QED BY <1>2, <2>1, <3>1 DEF d
  <2> DEFINE e == [item_bins |-> bundle.item_bins, filters |-> filters,
                   label_bins |-> bundle.label_bins, label_size |-> size,
                   cache |-> cache, cache_invalid |-> bundle.cache_invalid, stripped |-> bare]
  <2>4. [d EXCEPT !.item_bins = bundle.item_bins, !.label_bins = bundle.label_bins,
                  !.filters = filters, !.cache = cache, !.cache_invalid = bundle.cache_invalid] = e
    <3>1. d = [item_bins |-> d.item_bins, filters |-> d.filters, label_bins |-> d.label_bins,
               label_size |-> d.label_size, cache |-> d.cache,
               cache_invalid |-> d.cache_invalid, stripped |-> d.stripped]
      BY ONLY <2>2
    <3>2. d.label_size = size /\ d.stripped = bare BY ONLY <2>2
    <3>3. PICK ib, lb, fl, ch, ci : /\ ib = bundle.item_bins /\ lb = bundle.label_bins
                                   /\ fl = filters /\ ch = cache /\ ci = bundle.cache_invalid
      OBVIOUS
    <3>4. PICK x : x = d OBVIOUS
    <3>5. [x EXCEPT !.item_bins = ib, !.label_bins = lb, !.filters = fl, !.cache = ch,
                    !.cache_invalid = ci] =
            [item_bins |-> ib, filters |-> fl, label_bins |-> lb, label_size |-> x.label_size,
             cache |-> ch, cache_invalid |-> ci, stripped |-> x.stripped]
      <4>1. x = [item_bins |-> x.item_bins, filters |-> x.filters, label_bins |-> x.label_bins,
                 label_size |-> x.label_size, cache |-> x.cache,
                 cache_invalid |-> x.cache_invalid, stripped |-> x.stripped]
        BY ONLY <3>1, <3>4
      <4> DEFINE y == [x EXCEPT !.item_bins = ib, !.label_bins = lb, !.filters = fl, !.cache = ch,
                                !.cache_invalid = ci]
      <4>2. y = [x EXCEPT !.item_bins = ib, !.label_bins = lb, !.filters = fl, !.cache = ch,
                          !.cache_invalid = ci]
        OBVIOUS
      <4> HIDE DEF y
      <4>3. y = [item_bins |-> ib, filters |-> fl, label_bins |-> lb, label_size |-> x.label_size,
                 cache |-> ch, cache_invalid |-> ci, stripped |-> x.stripped]
        BY ONLY <4>1, <4>2
      <4> QED BY ONLY <4>2, <4>3
    <3> QED BY ONLY <3>2, <3>3, <3>4, <3>5
  <2> QED BY ONLY <2>3, <2>4
<1>4. cache = [matching |-> cache.matching, interp |-> cache.interp,
               batched_matching |-> cache.batched_matching, batched_interp |-> cache.batched_interp]
  BY <1>0 DEF cache, NoCache, IsBundle
<1>5. IsBundle(loaded) BY <1>0, <1>3, <1>4 DEF IsBundle
<1>6. Sound(loaded, size, bare, once)
  <2>1. CASE bare
    <3>1. CacheLeft(bundle) BY <2>1 DEF Sound
    <3>2. cache = bundle.cache BY <3>1 DEF CacheLeft, cache
    <3>3. CacheLeft(loaded) BY <1>0, <1>3, <3>1, <3>2 DEF CacheLeft
    <3> QED BY <1>3, <1>5, <2>1, <3>3 DEF Sound
  <2>2. CASE ~bare
    <3>1. /\ Filled(bundle) /\ InField(bundle) /\ Filtered(bundle, once)
          /\ ~bundle.cache_invalid => bundle.cache = RegenPolyns(bundle)
      BY <2>2 DEF Sound
    <3>2. Filled(loaded) BY <1>0, <1>3, <3>1 DEF Filled
    <3>f. InField(loaded)
      <4>1. /\ loaded.item_bins = bundle.item_bins /\ loaded.label_bins = bundle.label_bins
            /\ loaded.label_size = bundle.label_size
        BY <1>0, <1>3
      <4> QED BY <3>1, <4>1, SameField
    <3>3. ~loaded.cache_invalid => loaded.cache = RegenPolyns(loaded)
      <4>1. RegenPolyns(loaded) = RegenPolyns(bundle)
        <5>1. loaded.item_bins = bundle.item_bins /\ loaded.label_bins = bundle.label_bins BY <1>3
        <5> QED BY <5>1, SamePolyns
      <4> QED BY <1>3, <3>1, <4>1 DEF cache
    <3>4. Filtered(loaded, once)
      <4>1. /\ loaded.item_bins = bundle.item_bins /\ loaded.label_size = bundle.label_size
            /\ loaded.filters = filters
        BY <1>0, <1>3
      <4>2. DOMAIN bundle.item_bins = Bins BY <3>1 DEF Filled
      <4>3. \A b \in Bins : loaded.filters[b] = FilledFilter(bundle.item_bins[b])
        BY <1>f, <4>1, <4>2
      <4>4. once => \A b \in Bins : bundle.filters[b].num_items = Len(bundle.item_bins[b]) BY <4>2
      <4> QED BY <3>1, <4>1, <4>3, <4>4, LoadFiltered
    <3> QED BY <1>3, <1>5, <2>2, <3>2, <3>f, <3>3, <3>4 DEF Sound
  <2> QED BY <2>1, <2>2
<1>7. back = [item_bins |-> bundle.item_bins, filters |-> bundle.filters,
              label_bins |-> bundle.label_bins, label_size |-> size,
              cache |-> cache, cache_invalid |-> bundle.cache_invalid, stripped |-> bare]
  BY <1>3
<1> HIDE DEF back
<1>8. RegenCache(back) = RegenCache(bundle)
  <2>1. CASE ~bundle.cache_invalid
    <3>1. cache = bundle.cache BY <2>1 DEF cache
    <3>2. back = bundle BY <1>0, <1>7, <3>1 DEF IsBundle
    <3> QED BY <3>2
  <2>2. CASE bundle.cache_invalid
    <3> DEFINE c == RegenPolyns(bundle)
    <3>1. RegenPolyns(back) = c
      <4>1. back.item_bins = bundle.item_bins /\ back.label_bins = bundle.label_bins BY <1>7
      <4> QED BY <4>1, SamePolyns
    <3>2. RegenCache(bundle) = [bundle EXCEPT !.cache = c, !.cache_invalid = FALSE]
      BY <2>2 DEF RegenCache
    <3>3. RegenCache(back) = [back EXCEPT !.cache = c, !.cache_invalid = FALSE]
      BY <1>7, <2>2, <3>1 DEF RegenCache
    <3> HIDE DEF c
    <3> DEFINE r == [item_bins |-> bundle.item_bins, filters |-> bundle.filters,
                     label_bins |-> bundle.label_bins, label_size |-> size,
                     cache |-> c, cache_invalid |-> FALSE, stripped |-> bare]
    <3>4. [bundle EXCEPT !.cache = c, !.cache_invalid = FALSE] = r 
      <4>1. [bundle EXCEPT !.cache = c, !.cache_invalid = FALSE] =
              [item_bins |-> bundle.item_bins, filters |-> bundle.filters,
               label_bins |-> bundle.label_bins, label_size |-> bundle.label_size, cache |-> c,
               cache_invalid |-> FALSE, stripped |-> bundle.stripped]
        BY <1>0, CacheSet
      <4> QED BY <1>0, <4>1
    <3>5. [back EXCEPT !.cache = c, !.cache_invalid = FALSE] = r
      <4>0. IsBundle(back) BY <1>0, <1>4, <1>7 DEF IsBundle
      <4>1. [back EXCEPT !.cache = c, !.cache_invalid = FALSE] =
              [item_bins |-> back.item_bins, filters |-> back.filters,
               label_bins |-> back.label_bins, label_size |-> back.label_size, cache |-> c,
               cache_invalid |-> FALSE, stripped |-> back.stripped]
        BY <4>0, CacheSet
      <4> QED BY <1>7, <4>1
    <3> QED BY <3>2, <3>3, <3>4, <3>5
  <2> QED BY <2>1, <2>2
<1>9. loaded.cache_invalid = bundle.cache_invalid BY <1>3
<1> QED BY <1>6, <1>8, <1>9 DEF back, loaded, saved

\* Unless a bin holds but one item, load accepts it.
LEMMA Accepted ==
  ASSUME NEW once, max_bin_size >= 2,
         NEW bundle, NEW size \in Nat, NEW bare \in BOOLEAN, Sound(bundle, size, bare, once), NEW i
  PROVE  CanLoad(SaveBundle(bundle, i), size)
<1> DEFINE saved == SaveBundle(bundle, i)
           c == bundle.cache
<1>0. IsBundle(bundle) /\ bundle.label_size = size /\ bundle.stripped = bare BY DEF Sound
<1>1. /\ saved.mod = mod /\ saved.item_bins = bundle.item_bins /\ saved.label_bins = bundle.label_bins
      /\ saved.stripped = bare /\ saved.has_cache = ~bundle.cache_invalid
      /\ ~bundle.cache_invalid => saved.cache = c
  BY <1>0 DEF SaveBundle
<1> HIDE DEF saved
<1>2. CASE bare
  <2>1. CacheLeft(bundle) BY <1>2 DEF Sound
  <2>2. CoeffCount(c.matching) = 0
    <3>1. {0} \cup {Len(c.matching[b]) : b \in DOMAIN c.matching} = {0}
      BY <2>1 DEF CacheLeft
    <3>2. Max({0}) = 0
      <4>1. \E x \in {0} : \A y \in {0} : x >= y OBVIOUS
      <4> QED BY <4>1 DEF Max
    <3> QED BY <3>1, <3>2 DEF CoeffCount
  <2>3. DataAccepted(saved, size) BY <1>1, <1>2, <2>1 DEF DataAccepted, CacheLeft
  <2>4. MatchingAccepted(saved)
    BY <1>1, <1>2, <2>1, <2>2, Sizes DEF MatchingAccepted, CacheLeft
  <2>5. InterpAccepted(saved, size)
    BY <1>0, <1>1, <1>2, <2>1 DEF InterpAccepted, CacheLeft
  <2> QED BY <2>3, <2>4, <2>5 DEF CanLoad, saved
<1>3. CASE ~bare
  <2>1. Filled(bundle) /\ (~bundle.cache_invalid => c = RegenPolyns(bundle))
    BY <1>3 DEF Sound
  <2>2. DataAccepted(saved, size)
    <3>1. \A b \in Bins : Len(bundle.item_bins[b]) <= max_bin_size
      <4> SUFFICES ASSUME NEW b \in Bins PROVE Len(bundle.item_bins[b]) <= max_bin_size OBVIOUS
      <4>1. Len(bundle.item_bins[b]) \in Nat /\ Len(bundle.item_bins[b]) < max_bin_size
        BY <2>1 DEF Filled, Listing
      <4> QED BY <4>1, Sizes
    <3> QED BY <1>0, <1>1, <1>3, <2>1, <3>1 DEF DataAccepted, Filled
  <2>3. ASSUME ~bundle.cache_invalid PROVE MatchingAccepted(saved) /\ InterpAccepted(saved, size)
    <3>1. saved.cache = c /\ c = RegenPolyns(bundle) BY <1>1, <2>1, <2>3
    <3> HIDE DEF c
    <3>2. /\ DOMAIN c.matching = Bins
          /\ Len(c.batched_matching) = CoeffCount(c.matching)
          /\ CoeffCount(c.matching) \in Nat \ {0}
          /\ CoeffCount(c.matching) <= max_bin_size
          /\ Len(c.interp) = size /\ Len(c.batched_interp) = size
          /\ \A l \in 1..size :
               /\ Len(c.batched_interp[l]) = OrAllButOne(CoeffCount(c.matching))
               /\ \A b \in Bins : Len(c.interp[l][b]) = OrAllButOne(Len(c.matching[b]))
      BY <1>0, <2>1, <3>1, CacheLengths
    <3>3. MatchingAccepted(saved) BY <1>1, <1>3, <3>1, <3>2 DEF MatchingAccepted
    <3>4. InterpAccepted(saved, size) BY <1>1, <1>3, <3>1, <3>2 DEF InterpAccepted
    <3> QED BY <3>3, <3>4
  <2>4. saved.has_cache => ~bundle.cache_invalid BY <1>1
  <2> QED BY <2>2, <2>3, <2>4 DEF CanLoad, saved
<1> QED BY <1>2, <1>3

-----------------------------------------------------------------------------
(* The entries that the workers are given. *)

IsEntry(e) == Listing(e.parts) /\ e.idx \in Nat /\ PartsInField(e.parts)
Entries(s) == Listing(s) /\ \A k \in 1..Len(s) : IsEntry(s[k])

\* An item has felts_per_item parts, each with its row of the label.
LEMMA EntryTyped ==
  ASSUME NEW item \in ItemStrings, NEW label \in Seq(Bit), NEW location \in Nat
  PROVE  IsEntry(Entry(item, label, location))
<1> DEFINE felts == AlgebraizeItem(item)
           rows == AlgebraizeLabel(label)
           n == felts_per_item
           parts == [k \in DOMAIN felts |-> [felt |-> felts[k], label |-> rows[k]]]
           e == Entry(item, label, location)
<1>1. Listing(felts) /\ Len(felts) = n /\ (PowersOfTwo => AllFelts(felts))
  BY ItemTyped DEF ItemStrings
<1>2. DOMAIN felts = 1..n /\ n \in Nat BY <1>1, ListingSeq DEF Listing
<1>3. e.parts = parts /\ e.idx = location * felts_per_item BY DEF Entry
<1>r. PowersOfTwo => \A k \in 1..n : AllFelts(rows[k]) BY LabelTyped
<1> HIDE DEF e, felts, rows
<1>4. parts = [k \in 1..n |-> parts[k]] BY <1>2
<1>f. PartsInField(parts) BY <1>1, <1>2, <1>r DEF PartsInField, AllFelts
<1> HIDE DEF parts, n
<1>5. Listing(parts) BY <1>2, <1>4, ListingOf
<1>6. location * felts_per_item \in Nat
  <2>1. \A m \in Nat, x \in Nat : m * x \in Nat BY SMT
  <2> QED BY <2>1, Sizes
<1> QED BY <1>3, <1>f, <1>5, <1>6 DEF IsEntry, e

\* FlattenSeq takes nothing from elsewhere.
LEMMA FlattenFrom ==
  ASSUME NEW E, NEW seqs, Listing(seqs), \A k \in 1..Len(seqs) : seqs[k] \in Seq(E)
  PROVE  FlattenSeq(seqs) \in Seq(E)
<1> DEFINE n == Len(seqs)
           Flat(f, m) == f = [i \in 1..m |-> IF i = 1 THEN seqs[i] ELSE f[i - 1] \o seqs[i]]
           U == {m \in Nat : \E f : Flat(f, m)}
<1>0. n \in Nat BY DEF Listing
<1>1. CASE n = 0
  <2>1. FlattenSeq(seqs) = seqs BY <1>1 DEF FlattenSeq
  <2>2. seqs = [k \in 1..n |-> seqs[k]] BY DEF Listing
  <2>3. seqs = <<>> BY <1>1, <2>2
  <2> QED BY <2>1, <2>3
<1>2. CASE n # 0
  <2>1. 0 \in U
    <3> DEFINE f == [i \in 1..0 |-> 0]
    <3>1. Flat(f, 0) OBVIOUS
    <3> HIDE DEF Flat, f
    <3> QED BY <3>1
  <2>2. ASSUME NEW m \in U PROVE m + 1 \in U
    <3>1. PICK f : Flat(f, m) BY <2>2
    <3> DEFINE g == [i \in 1..(m + 1) |->
                      IF i <= m THEN f[i] ELSE IF i = 1 THEN seqs[1] ELSE f[m] \o seqs[m + 1]]
    <3>2. ASSUME NEW i \in 1..(m + 1)
          PROVE  g[i] = IF i = 1 THEN seqs[i] ELSE g[i - 1] \o seqs[i]
      <4>1. CASE i <= m
        <5>0. i \in 1..m BY <2>2, <4>1
        <5>a. g[i] = f[i] BY <4>1
        <5>b. f[i] = IF i = 1 THEN seqs[i] ELSE f[i - 1] \o seqs[i]
          <6> HIDE DEF g
          <6> QED BY <3>1, <5>0
        <5>1. g[i] = f[i] /\ f[i] = IF i = 1 THEN seqs[i] ELSE f[i - 1] \o seqs[i] BY <5>a, <5>b
        <5>2. i # 1 => g[i - 1] = f[i - 1] BY <2>2, <4>1
        <5> QED BY <5>1, <5>2
      <4>2. CASE i = m + 1
        <5>1. i # 1 => g[i - 1] = f[m] BY <2>2, <4>2
        <5>2. g[i] = IF i = 1 THEN seqs[1] ELSE f[m] \o seqs[m + 1] BY <2>2, <4>2
        <5> QED BY <4>2, <5>1, <5>2
      <4> QED BY <2>2, <4>1, <4>2
    <3>3. g = [i \in 1..(m + 1) |-> g[i]] OBVIOUS
    <3> HIDE DEF g
    <3>4. Flat(g, m + 1) BY <3>2, <3>3
    <3> HIDE DEF Flat
    <3> QED BY <2>2, <3>4
  <2> DEFINE f == CHOOSE f : Flat(f, n)
  <2> HIDE DEF Flat
  <2>3. U = Nat BY <2>1, <2>2, InductionOnNat
  <2>4. Flat(f, n) BY <1>0, <2>3
  <2> USE DEF Flat
  <2>5. FlattenSeq(seqs) = f[n] BY <1>2 DEF FlattenSeq
  <2> HIDE DEF f
  <2> DEFINE T == {k \in Nat : k + 1 <= n => f[k + 1] \in Seq(E)}
  <2>6. 0 \in T
    <3>1. 1 \in 1..n => f[1] = seqs[1] BY <2>4
    <3> QED BY <1>0, <3>1
  <2>7. ASSUME NEW k \in T PROVE k + 1 \in T
    <3> SUFFICES ASSUME k + 2 <= n PROVE f[k + 2] \in Seq(E) OBVIOUS
    <3>1. k + 2 \in 1..n /\ k + 2 # 1 /\ (k + 2) - 1 = k + 1 BY <1>0
    <3>2. f[k + 2] = f[k + 1] \o seqs[k + 2] BY <2>4, <3>1
    <3>3. f[k + 1] \in Seq(E) /\ seqs[k + 2] \in Seq(E) BY <1>0, <3>1
    <3> QED BY <3>2, <3>3, ConcatProperties
  <2>8. T = Nat BY <2>6, <2>7, InductionOnNat
  <2>9. n - 1 \in Nat BY <1>0, <1>2
  <2>10. n - 1 \in T BY <2>8, <2>9
  <2>11. (n - 1) + 1 <= n /\ (n - 1) + 1 = n BY <1>0
  <2> QED BY <2>5, <2>10, <2>11
<1> QED BY <1>1, <1>2

LEMMA FlattenEntries ==
  ASSUME NEW seqs, Listing(seqs), \A k \in 1..Len(seqs) : Entries(seqs[k])
  PROVE  Entries(FlattenSeq(seqs))
<1> DEFINE E == {e \in UNION {{seqs[k][j] : j \in 1..Len(seqs[k])} : k \in 1..Len(seqs)} : IsEntry(e)}
<1>1. ASSUME NEW k \in 1..Len(seqs) PROVE seqs[k] \in Seq(E)
  <2>1. Listing(seqs[k]) /\ \A j \in 1..Len(seqs[k]) : IsEntry(seqs[k][j]) BY DEF Entries
  <2>2. seqs[k] \in Seq({seqs[k][j] : j \in 1..Len(seqs[k])}) BY <2>1, ListingSeq
  <2>3. {seqs[k][j] : j \in 1..Len(seqs[k])} \subseteq E BY <2>1
  <2> HIDE DEF E
  <2> QED BY <2>2, <2>3, SeqMonotonic
<1>2. \A e \in E : IsEntry(e) OBVIOUS
<1> HIDE DEF E
<1>3. FlattenSeq(seqs) \in Seq(E) BY <1>1, FlattenFrom
<1>4. \A k \in 1..Len(FlattenSeq(seqs)) : FlattenSeq(seqs)[k] \in E BY <1>3, ElementOfSeq
<1> QED BY <1>2, <1>3, <1>4, ListingSeq DEF Entries

\* The data of a call: items of the batches or their hashes, with bit strings for labels.
Known(data) ==
  /\ Listing(data)
  /\ \A k \in 1..Len(data) : /\ data[k] = [item |-> data[k].item, label |-> data[k].label]
                             /\ data[k].item \in ItemsOrHashes /\ data[k].label \in Seq(Bit)

LEMMA BitStrings ==
  /\ ItemsOrHashes \subseteq ItemStrings /\ <<>> \in Seq(Bit)
  /\ \A session \in Sessions, location \in Locations, item \in ItemsOrHashes :
       KkrtOutput(session, location, item) \in ItemStrings
<1>1. \A batch \in Batches : ToSet(batch) \subseteq ItemStrings
  <2> SUFFICES ASSUME NEW batch \in Batches PROVE ToSet(batch) \subseteq ItemStrings OBVIOUS
  <2>1. batch \in Seq(ItemStrings) BY DataAssumption
  <2>2. DOMAIN batch = 1..Len(batch) /\ \A k \in 1..Len(batch) : batch[k] \in ItemStrings
    BY <2>1, LenProperties, ElementOfSeq
  <2> QED BY <2>2 DEF ToSet
<1>2. BatchItems \subseteq ItemStrings BY <1>1 DEF BatchItems
<1>h. ItemsOrHashes \subseteq ItemStrings BY <1>2, DataAssumption DEF ItemsOrHashes
<1>3. \A session \in Sessions, location \in Locations, item \in ItemsOrHashes :
        KkrtOutput(session, location, item) \in ItemStrings
  BY DataAssumption DEF Locations
<1>4. <<>> \in Seq(Bit) OBVIOUS
<1> QED BY <1>h, <1>3, <1>4

LEMMA KnownEmpty == Known(<<>>)
<1>1. Listing(<<>>) /\ Len(<<>>) = 0 BY DEF Listing
<1> QED BY <1>1 DEF Known

LEMMA LabeledEntries ==
  ASSUME NEW data, Known(data)
  PROVE  Entries(PreprocessLabeled(data))
<1> DEFINE all == [n \in 1..params.table_size |-> n - 1]
           places(k) == KeptAt(all, {n \in DOMAIN all : all[n] \in LocationsOf(data[k].item)})
           at(k) == [n \in DOMAIN places(k) |-> Entry(data[k].item, data[k].label, places(k)[n])]
           seqs == [k \in DOMAIN data |-> at(k)]
<1>0. Listing(data) BY DEF Known
<1>1. Listing(all) /\ \A j \in DOMAIN all : all[j] \in Nat
  <2>1. all = [n \in 1..params.table_size |-> all[n]] /\ params.table_size \in Nat BY Sizes
  <2>2. \A j \in DOMAIN all : all[j] \in Nat BY <2>1
  <2> HIDE DEF all
  <2> QED BY <2>1, <2>2, ListingOf
<1>2. ASSUME NEW k \in 1..Len(data) PROVE Entries(at(k))
  <2> DEFINE p == places(k)
  <2>1. Listing(p) /\ \A n \in DOMAIN p : p[n] \in Nat
    <3> DEFINE q == {n \in DOMAIN all : all[n] \in LocationsOf(data[k].item)}
    <3> HIDE DEF all, q
    <3>1. /\ Listing(KeptAt(all, q))
          /\ \A n \in DOMAIN KeptAt(all, q) :
               \E j \in DOMAIN all \cap q : KeptAt(all, q)[n] = all[j]
      BY <1>1, KeptFrom
    <3> QED BY <1>1, <3>1 DEF q
  <2> HIDE DEF places
  <2> DEFINE s == [n \in 1..Len(p) |-> Entry(data[k].item, data[k].label, p[n])]
  <2>2. DOMAIN p = 1..Len(p) /\ Len(p) \in Nat BY <2>1, ListingSeq DEF Listing
  <2>3. at(k) = s BY <2>2
  <2>4. s = [n \in 1..Len(p) |-> s[n]] OBVIOUS
  <2>5. \A n \in 1..Len(p) : IsEntry(s[n])
    <3>1. data[k].item \in ItemStrings /\ data[k].label \in Seq(Bit) BY BitStrings DEF Known
    <3> QED BY <2>1, <2>2, <3>1, EntryTyped
  <2> HIDE DEF s, at, p
  <2>6. Listing(s) /\ Len(s) = Len(p) BY <2>2, <2>4, ListingOf
  <2> QED BY <2>3, <2>5, <2>6 DEF Entries
<1>3. PreprocessLabeled(data) = FlattenSeq(seqs) BY DEF PreprocessLabeled
<1> HIDE DEF at
<1>4. DOMAIN data = 1..Len(data) /\ Len(data) \in Nat BY <1>0, ListingSeq DEF Listing
<1>5. seqs = [k \in 1..Len(data) |-> seqs[k]] /\ \A k \in 1..Len(data) : seqs[k] = at(k) BY <1>4
<1> HIDE DEF seqs
<1>6. Listing(seqs) /\ Len(seqs) = Len(data) BY <1>4, <1>5, ListingOf
<1>7. \A k \in 1..Len(seqs) : Entries(seqs[k]) BY <1>2, <1>5, <1>6
<1> QED BY <1>3, <1>6, <1>7, FlattenEntries

LEMMA UnlabeledEntries ==
  ASSUME NEW data, Known(data), NEW session \in Sessions
  PROVE  Entries(PreprocessUnlabeled(data, session))
<1> DEFINE here(location) == KeptAt(data, {k \in DOMAIN data : location \in LocationsOf(data[k].item)})
           oprf_in == [location \in Locations |->
                        [k \in DOMAIN here(location) |-> here(location)[k].item]]
           oprf_out == OprfSender(oprf_in, session)
           at(n) == [k \in DOMAIN oprf_out[n - 1] |-> Entry(oprf_out[n - 1][k], <<>>, n - 1)]
           seqs == [n \in 1..params.table_size |-> at(n)]
           size == params.table_size
<1>0. size \in Nat /\ Listing(data) BY Sizes DEF Known
<1>1. ASSUME NEW n \in 1..size PROVE Entries(at(n))
  <2> DEFINE h == here(n - 1)
             s == [k \in 1..Len(h) |-> Entry(oprf_out[n - 1][k], <<>>, n - 1)]
  <2> DEFINE q == {k \in DOMAIN data : n - 1 \in LocationsOf(data[k].item)}
  <2>1. Listing(h) /\ \A k \in DOMAIN h : \E j \in DOMAIN data : h[k] = data[j]
    <3>1. h = KeptAt(data, q) OBVIOUS
    <3> HIDE DEF h, q
    <3>2. /\ Listing(KeptAt(data, q))
          /\ \A k \in DOMAIN KeptAt(data, q) :
               \E j \in DOMAIN data \cap q : KeptAt(data, q)[k] = data[j]
      BY <1>0, KeptFrom
    <3> QED BY <3>1, <3>2
  <2>2. DOMAIN h = 1..Len(h) /\ Len(h) \in Nat BY <2>1, ListingSeq DEF Listing
  <2> HIDE DEF here
  <2>i. \A k \in 1..Len(h) : h[k].item \in ItemsOrHashes
    <3>1. DOMAIN data = 1..Len(data) BY <1>0, ListingSeq
    <3> HIDE DEF h
    <3> QED BY <2>1, <2>2, <3>1 DEF Known
  <2>3. n - 1 \in Locations /\ n - 1 \in Nat BY <1>0 DEF Locations
  <2>4. /\ DOMAIN oprf_out[n - 1] = 1..Len(h)
        /\ \A k \in 1..Len(h) : oprf_out[n - 1][k] = KkrtOutput(session, n - 1, h[k].item)
    <3>1. DOMAIN oprf_in = Locations /\ oprf_in[n - 1] = [k \in DOMAIN h |-> h[k].item] BY <2>3
    <3> HIDE DEF oprf_in, h
    <3>2. /\ DOMAIN oprf_in[n - 1] = 1..Len(h)
          /\ \A k \in 1..Len(h) : oprf_in[n - 1][k] = h[k].item
      BY <2>2, <3>1
    <3> QED BY <2>3, <3>1, <3>2 DEF OprfSender
  <2> HIDE DEF oprf_out, h
  <2>5. at(n) = s BY <2>4
  <2>6. s = [k \in 1..Len(h) |-> s[k]] OBVIOUS
  <2>7. \A k \in 1..Len(h) : IsEntry(s[k])
    <3>1. \A k \in 1..Len(h) : oprf_out[n - 1][k] \in ItemStrings BY <2>3, <2>4, <2>i, BitStrings
    <3> QED BY <2>3, <3>1, BitStrings, EntryTyped
  <2> HIDE DEF s, at
  <2>8. Listing(s) /\ Len(s) = Len(h) BY <2>2, <2>6, ListingOf
  <2> QED BY <2>5, <2>7, <2>8 DEF Entries
<1>2. PreprocessUnlabeled(data, session) = FlattenSeq(seqs) BY DEF PreprocessUnlabeled
<1> HIDE DEF at
<1>3. seqs = [n \in 1..size |-> seqs[n]] /\ \A n \in 1..size : seqs[n] = at(n) OBVIOUS
<1> HIDE DEF seqs, size
<1>4. Listing(seqs) /\ Len(seqs) = size BY <1>0, <1>3, ListingOf
<1>5. \A k \in 1..Len(seqs) : Entries(seqs[k]) BY <1>1, <1>3, <1>4
<1> QED BY <1>2, <1>4, <1>5, FlattenEntries

-----------------------------------------------------------------------------
(* The workers keep the bundles at a bundle index sound. *)

SoundSet(set, size, bare, once) == Listing(set) /\ \A k \in 1..Len(set) : Sound(set[k], size, bare, once)

\* What a worker hands from an entry to the next one.
AtWork(s, once) ==
  /\ s = [set |-> s.set, ok |-> s.ok] /\ s.ok \in BOOLEAN
  /\ SoundSet(s.set, label_size, FALSE, once)

LEMMA AtWorkIs ==
  ASSUME NEW once, NEW set, SoundSet(set, label_size, FALSE, once), NEW ok \in BOOLEAN
  PROVE  AtWork([set |-> set, ok |-> ok], once)
BY DEF AtWork

LEMMA SizeTyped == label_size \in Nat
<1>1. LabelSize(label_bit_count) \in Nat BY Division, Sizes, DataAssumption DEF LabelSize
<1> QED BY <1>1 DEF label_size

\* In one bundle for another.
LEMMA SetExcept ==
  ASSUME NEW once, NEW set, NEW size, NEW bare, SoundSet(set, size, bare, once),
         NEW k \in DOMAIN set, NEW b, Sound(b, size, bare, once)
  PROVE  SoundSet([set EXCEPT ![k] = b], size, bare, once)
<1> DEFINE new == [set EXCEPT ![k] = b]
<1>1. Listing(set) /\ DOMAIN set = 1..Len(set) BY ListingSeq DEF SoundSet
<1>2. Listing(new) /\ Len(new) = Len(set) BY <1>1, ListingExcept
<1>3. \A j \in 1..Len(set) : Sound(new[j], size, bare, once) BY <1>1 DEF SoundSet
<1> HIDE DEF new
<1> QED BY <1>2, <1>3 DEF SoundSet, new

\* Where HasSpace finds space no bin is filled.
LEMMA SpaceLeft ==
  ASSUME NEW once, NEW bundle, NEW size, Sound(bundle, size, FALSE, once), NEW e, IsEntry(e),
         NEW start \in Nat,
         HasSpace(bundle, e.parts, start), NEW b \in Bins, b - start + 1 \in DOMAIN e.parts
  PROVE  /\ Len(bundle.item_bins[b]) + 1 < max_bin_size
         /\ size > 0 => FoundAt(bundle, b, e.parts[b - start + 1].felt) = 0
<1> DEFINE parts == e.parts
           n == Len(parts)
           f == [k \in 1..n |-> Len(bundle.item_bins[start + k - 1]) + 1]
           S == {Len(bundle.item_bins[start + k - 1]) + 1 : k \in DOMAIN parts}
<1>1. n \in Nat /\ DOMAIN parts = 1..n BY ListingSeq DEF IsEntry, Listing
<1>2. /\ ~NoRoom(parts, start) /\ Max(S) < max_bin_size
      /\ size > 0 => \A k \in DOMAIN parts : FoundAt(bundle, start + k - 1, parts[k].felt) = 0
  <2> DEFINE size1 == MultiInsertDryRun(bundle, parts, start)
  <2>1. size1 > 0 /\ size1 < max_bin_size BY DEF HasSpace
  <2>2. size1 = -1 \/ (size1 = Max(S) /\ ~NoRoom(parts, start)) BY DEF MultiInsertDryRun
  <2>3. /\ bundle.label_size > 0
        /\ \E k \in DOMAIN parts : FoundAt(bundle, start + k - 1, parts[k].felt) # 0
        => size1 = -1
    BY DEF MultiInsertDryRun
  <2>4. bundle.label_size = size BY DEF Sound
  <2> HIDE DEF size1, S
  <2> QED BY <2>1, <2>2, <2>3, <2>4
<1>3. n <= num_bins - start BY <1>1, <1>2, Sizes DEF NoRoom
<1>4. \A k \in 1..n : start + k - 1 \in Bins BY <1>1, <1>3, Sizes DEF Bins
<1>5. \A k \in 1..n : f[k] \in Nat
  <2>1. \A c \in Bins : Len(bundle.item_bins[c]) \in Nat BY DEF Sound, Filled, Listing
  <2> QED BY <1>4, <2>1
<1>6. S = {f[k] : k \in 1..n} BY <1>1
<1> HIDE DEF f
<1>7. IsFiniteSet(S)
  <2> HIDE DEF S
  <2> DEFINE g == [k \in 1..n |-> f[k]]
  <2>1. g \in Surjection(1..n, S) BY <1>6 DEF Surjection
  <2> HIDE DEF g
  <2> QED BY <1>1, <2>1, FS_Interval, FS_Surjection
<1>8. b - start + 1 \in 1..n /\ start + (b - start + 1) - 1 = b BY <1>1, Sizes DEF Bins
<1>9. Len(bundle.item_bins[b]) + 1 \in S BY <1>1, <1>8
<1>10. S \in SUBSET Nat BY <1>5, <1>6
<1> HIDE DEF S
<1>11. Max(S) \in S /\ Len(bundle.item_bins[b]) + 1 <= Max(S) BY <1>7, <1>9, <1>10, MaxIs
<1> DEFINE x == Len(bundle.item_bins[b]) + 1
           m == Max(S)
<1>12. x \in Nat /\ m \in Nat /\ x <= m /\ m < max_bin_size BY <1>2, <1>9, <1>10, <1>11
<1> HIDE DEF x, m
<1>13. x < max_bin_size BY <1>12, Sizes
<1>14. size > 0 => FoundAt(bundle, b, parts[b - start + 1].felt) = 0
  <2>1. PICK k \in 1..n : k = b - start + 1 BY <1>8
  <2>2. start + k - 1 = b BY <1>8, <2>1
  <2>3. size > 0 => FoundAt(bundle, start + k - 1, parts[k].felt) = 0 BY <1>1, <1>2
  <2> QED BY <2>1, <2>2, <2>3
<1> QED BY <1>13, <1>14 DEF x

\* A bundle made for an entry: unless bins hold one item, one item does not fill them.
LEMMA FreshSound ==
  ASSUME NEW once, NEW size \in Nat, NEW parts, NEW start \in Nat,
         PartsInField(parts), \A k \in DOMAIN parts : Len(parts[k].label) = size
  PROVE  Sound(MultiInsert(EmptyBundle(size, FALSE), parts, start), size, FALSE, once)
<1> DEFINE bundle == EmptyBundle(size, FALSE)
<1>1. Sound(bundle, size, FALSE, once) BY EmptySound
<1>2. \A b \in Bins : Len(bundle.item_bins[b]) = 0 BY DEF EmptyBundle, Cleared
<1> HIDE DEF bundle
<1>3. max_bin_size >= 2 =>
        \A b \in Bins : b - start + 1 \in DOMAIN parts =>
          Len(bundle.item_bins[b]) + 1 < max_bin_size
  BY <1>2, Sizes
<1>4. \A b \in Bins : \A x : FoundAt(bundle, b, x) = 0
  <2>1. \A b \in Bins : bundle.item_bins[b] = <<>> BY DEF bundle, EmptyBundle, Cleared
  <2>2. \A x : PlaceIn(<<>>, x) = 0 BY DEF PlaceIn, ToSet
  <2> QED BY <2>1, <2>2 DEF FoundAt
<1>5. Sound(MultiInsert(bundle, parts, start), size, FALSE, once)
  BY <1>1, <1>3, <1>4, InsertSound
<1> QED BY <1>5 DEF bundle

LEMMA StartTyped ==
  ASSUME NEW e, IsEntry(e)
  PROVE  BinOf(e.idx, num_bins) \in Nat
<1>1. e.idx \in Nat /\ num_bins \in Nat \ {0} BY Sizes DEF IsEntry
<1>2. \A x \in Nat, q \in Nat \ {0} : x % q \in Nat BY SMT
<1> QED BY <1>1, <1>2 DEF BinOf

LEMMA WriteSound ==
  ASSUME NEW once, NEW s, AtWork(s, once), NEW e, IsEntry(e), NEW overwrite \in BOOLEAN
  PROVE  AtWork(WriteEntry(s, e, overwrite), once)
<1> DEFINE parts == e.parts
           bin   == BinOf(e.idx, num_bins)
           fresh == EmptyBundle(label_size, FALSE)
           Over(k) == overwrite /\ CanOverwrite(s.set[k], parts, bin)
           taking == {k \in DOMAIN s.set : Over(k) \/ HasSpace(s.set[k], parts, bin)}
           r == WriteEntry(s, e, overwrite)
           k == Max(taking)
           into == IF Over(k) THEN MultiOverwrite(s.set[k], parts, bin)
                   ELSE MultiInsert(s.set[k], parts, bin)
           made == MultiInsert(fresh, parts, bin)
           old == s.set
<1>0. /\ s = [set |-> old, ok |-> s.ok] /\ s.ok \in BOOLEAN /\ SoundSet(old, label_size, FALSE, once)
      /\ Listing(old) /\ DOMAIN old = 1..Len(old) /\ Len(old) \in Nat
      /\ \A j \in 1..Len(old) : Sound(old[j], label_size, FALSE, once)
  BY ListingSeq DEF AtWork, SoundSet, Listing
<1>1. bin \in Nat BY StartTyped
<1>2. \/ r = [s EXCEPT !.ok = FALSE]
      \/ ~Refuses(fresh, parts) /\ taking # {} /\ r = [s EXCEPT !.set[k] = into]
      \/ ~Refuses(fresh, parts) /\ r = [s EXCEPT !.set = Append(old, made)]
  <2> HIDE DEF made, taking, bin, parts, fresh
  <2>1. CASE ~s.ok \/ Refuses(fresh, parts)
    BY <2>1 DEF WriteEntry, parts, bin, fresh
  <2>2. CASE s.ok /\ ~Refuses(fresh, parts) /\ taking # {}
    BY <2>2 DEF WriteEntry, parts, bin, fresh, taking
  <2>3. CASE s.ok /\ ~Refuses(fresh, parts) /\ taking = {}
    BY <2>3 DEF WriteEntry, parts, bin, fresh, taking, made
  <2> QED BY <1>0, <2>1, <2>2, <2>3
<1>f. PartsInField(parts) BY DEF IsEntry
<1>l. ~Refuses(fresh, parts) => \A j \in DOMAIN parts : Len(parts[j].label) = label_size
  <2>1. fresh.label_size = label_size BY DEF EmptyBundle, Cleared
  <2> HIDE DEF fresh
  <2> QED BY <2>1 DEF Refuses
<1> HIDE DEF r, old
<1>3. CASE r = [s EXCEPT !.ok = FALSE]
  <2>1. r = [set |-> old, ok |-> FALSE] BY <1>0, <1>3 DEF old
  <2>2. AtWork([set |-> old, ok |-> FALSE], once) BY <1>0, AtWorkIs
  <2> QED BY <2>1, <2>2 DEF r
<1>4. CASE ~Refuses(fresh, parts) /\ taking # {} /\ r = [s EXCEPT !.set[k] = into]
  <2>1. k \in taking
    <3>1. IsFiniteSet(1..Len(old))
      <4>1. 1 \in Int /\ Len(old) \in Int BY <1>0
      <4> QED BY ONLY <4>1, FS_Interval
    <3>2. taking \subseteq 1..Len(old) BY <1>0 DEF old
    <3> HIDE DEF taking
    <3>3. IsFiniteSet(taking) BY <3>1, <3>2, FS_Subset
    <3>4. taking \in SUBSET Nat
      <4>1. \A x \in taking : x \in Nat BY <1>0, <3>2
      <4> QED BY <4>1
    <3> QED BY <1>4, <3>3, <3>4, MaxIs
  <2>2. k \in DOMAIN old /\ Sound(old[k], label_size, FALSE, once)
    <3>1. k \in DOMAIN old BY <2>1 DEF old
    <3> HIDE DEF k
    <3> QED BY <1>0, <3>1
  <2>3. Over(k) \/ HasSpace(old[k], parts, bin) BY <2>1 DEF old
  <2> HIDE DEF k, taking, bin
  <2>4. Sound(into, label_size, FALSE, once)
    <3>1. CASE Over(k)
      <4>1. Sound(MultiOverwrite(old[k], parts, bin), label_size, FALSE, once)
        BY <1>1, <1>f, <1>l, <1>4, <2>2, OverwriteSound
      <4> QED BY <3>1, <4>1 DEF old
    <3>2. CASE ~Over(k)
      <4>1. HasSpace(old[k], parts, bin) BY <2>3, <3>2
      <4>2. \A b \in Bins : b - bin + 1 \in DOMAIN parts =>
              /\ Len(old[k].item_bins[b]) + 1 < max_bin_size
              /\ label_size > 0 => FoundAt(old[k], b, parts[b - bin + 1].felt) = 0
        BY <1>1, <2>2, <4>1, SpaceLeft
      <4>3. Sound(MultiInsert(old[k], parts, bin), label_size, FALSE, once)
        BY <1>1, <1>f, <1>l, <1>4, <2>2, <4>2, InsertSound
      <4> QED BY <3>2, <4>3 DEF old
    <3> QED BY <3>1, <3>2
  <2> HIDE DEF into
  <2>5. r = [set |-> [old EXCEPT ![k] = into], ok |-> s.ok] BY <1>0, <1>4 DEF old
  <2>6. SoundSet([old EXCEPT ![k] = into], label_size, FALSE, once) BY <1>0, <2>2, <2>4, SetExcept
  <2>7. AtWork([set |-> [old EXCEPT ![k] = into], ok |-> s.ok], once) BY <1>0, <2>6, AtWorkIs
  <2> QED BY <2>5, <2>7 DEF r
<1>5. CASE ~Refuses(fresh, parts) /\ r = [s EXCEPT !.set = Append(old, made)]
  <2>1. Sound(made, label_size, FALSE, once) BY <1>1, <1>f, <1>l, <1>5, SizeTyped, FreshSound
  <2> HIDE DEF made
  <2>2. r = [set |-> Append(old, made), ok |-> s.ok] BY <1>0, <1>5 DEF old
  <2>3. /\ Listing(Append(old, made)) /\ Len(Append(old, made)) = Len(old) + 1
        /\ \A j \in 1..Len(old) : Append(old, made)[j] = old[j]
        /\ Append(old, made)[Len(old) + 1] = made
    BY <1>0, ListingAppend
  <2>4. \A j \in 1..(Len(old) + 1) : Sound(Append(old, made)[j], label_size, FALSE, once)
    <3> SUFFICES ASSUME NEW j \in 1..(Len(old) + 1)
                 PROVE  Sound(Append(old, made)[j], label_size, FALSE, once)
      OBVIOUS
    <3>1. CASE j \in 1..Len(old) BY <1>0, <2>3, <3>1
    <3>2. CASE j = Len(old) + 1 BY <2>1, <2>3, <3>2
    <3>3. j \in 1..Len(old) \/ j = Len(old) + 1
      <4>1. PICK m \in Nat : m = Len(old) BY <1>0
      <4>2. j \in 1..(m + 1) BY <4>1
      <4>3. j \in 1..m \/ j = m + 1 BY ONLY m \in Nat, <4>2
      <4> QED BY ONLY <4>1, <4>3
    <3> QED BY <3>1, <3>2, <3>3
  <2>5. SoundSet(Append(old, made), label_size, FALSE, once)
    <3>1. PICK t : t = Append(old, made) OBVIOUS
    <3>2. Listing(t) /\ Len(t) = Len(old) + 1 BY <2>3, <3>1
    <3>3. \A j \in 1..Len(t) : Sound(t[j], label_size, FALSE, once) BY <2>4, <3>1, <3>2
    <3> QED BY <3>1, <3>2, <3>3 DEF SoundSet
  <2>6. AtWork([set |-> Append(old, made), ok |-> s.ok], once) BY <1>0, <2>5, AtWorkIs
  <2> QED BY <2>2, <2>6 DEF r
<1> QED BY <1>2, <1>3, <1>4, <1>5

LEMMA KeptSound ==
  ASSUME NEW once, NEW set, NEW size, NEW bare, SoundSet(set, size, bare, once), NEW places
  PROVE  SoundSet(KeptAt(set, places), size, bare, once)
<1>1. Listing(set) /\ DOMAIN set = 1..Len(set) BY ListingSeq DEF SoundSet
<1> DEFINE kept == KeptAt(set, places)
<1>2. Listing(kept) /\ \A k \in DOMAIN kept : \E j \in DOMAIN set \cap places : kept[k] = set[j]
  BY <1>1, KeptFrom
<1> HIDE DEF kept
<1>3. DOMAIN kept = 1..Len(kept) BY <1>2, ListingSeq
<1>4. \A k \in 1..Len(kept) : Sound(kept[k], size, bare, once) BY <1>1, <1>2, <1>3 DEF SoundSet
<1> QED BY <1>2, <1>4 DEF SoundSet, kept

LEMMA RemoveEntrySound ==
  ASSUME NEW once, NEW s, AtWork(s, once), NEW e, IsEntry(e)
  PROVE  AtWork(RemoveEntry(s, e), once)
<1> DEFINE bin == BinOf(e.idx, num_bins)
           old == s.set
           having == {k \in DOMAIN old : CanOverwrite(old[k], e.parts, bin)}
           k == Min(having)
           less == MultiRemove(old[k], e.parts, bin)
           left == IF having = {} THEN old ELSE [old EXCEPT ![k] = less]
           places == {n \in DOMAIN left : ~IsEmpty(left[n])}
           r == RemoveEntry(s, e)
<1>0. /\ s.ok \in BOOLEAN /\ SoundSet(old, label_size, FALSE, once)
      /\ DOMAIN old = 1..Len(old) /\ Len(old) \in Nat
      /\ \A j \in 1..Len(old) : Sound(old[j], label_size, FALSE, once)
  BY ListingSeq DEF AtWork, SoundSet, Listing
<1>1. bin \in Nat BY StartTyped
<1>2. CASE ~s.ok BY <1>2 DEF RemoveEntry
<1>3. CASE s.ok
  <2>1. r = [set |-> KeptAt(left, places), ok |-> having # {}] BY <1>3 DEF RemoveEntry
  <2>2. SoundSet(left, label_size, FALSE, once)
    <3>1. CASE having = {} BY <1>0, <3>1
    <3>2. CASE having # {}
      <4>1. k \in having
        <5>1. \A x \in having : x \in Nat BY <1>0
        <5>2. having \in SUBSET Nat BY <5>1
        <5> HIDE DEF having
        <5>3. \E x \in having : \A y \in having : x <= y BY <3>2, <5>2, LeastNat
        <5> QED BY <5>3 DEF Min
      <4>2. k \in DOMAIN old /\ AllFound(old[k], e.parts, bin) BY <4>1 DEF CanOverwrite
      <4> HIDE DEF k, having, bin
      <4>3. Sound(old[k], label_size, FALSE, once) BY <1>0, <4>2
      <4>4. Sound(less, label_size, FALSE, once) BY <1>1, <4>2, <4>3, RemoveSound
      <4> HIDE DEF less
      <4>5. SoundSet([old EXCEPT ![k] = less], label_size, FALSE, once)
        BY <1>0, <4>2, <4>4, SetExcept
      <4> QED BY <3>2, <4>5
    <3> QED BY <3>1, <3>2
  <2> HIDE DEF left
  <2>3. SoundSet(KeptAt(left, places), label_size, FALSE, once)
    <3> HIDE DEF places
    <3> QED BY <2>2, KeptSound
  <2>4. AtWork([set |-> KeptAt(left, places), ok |-> having # {}], once)
    <3> HIDE DEF places, having
    <3>1. (having # {}) \in BOOLEAN OBVIOUS
    <3>2. PICK t, o : t = KeptAt(left, places) /\ o = (having # {}) OBVIOUS
    <3>3. AtWork([set |-> t, ok |-> o], once) BY <2>3, <3>1, <3>2, AtWorkIs
    <3> QED BY <3>2, <3>3
  <2> HIDE DEF r, places, having
  <2> QED BY <2>1, <2>4 DEF r
<1> QED BY <1>2, <1>3

LEMMA WorkSound ==
  ASSUME NEW once, NEW work \in {"insert", "overwrite", "remove"}, NEW s, AtWork(s, once),
         NEW e, IsEntry(e)
  PROVE  AtWork(WorkOn(work, s, e), once)
<1>1. CASE work = "insert"
  <2>1. WorkOn(work, s, e) = WriteEntry(s, e, FALSE) BY <1>1 DEF WorkOn
  <2> QED BY <2>1, WriteSound
<1>2. CASE work = "overwrite"
  <2>1. WorkOn(work, s, e) = WriteEntry(s, e, TRUE) BY <1>2 DEF WorkOn
  <2> QED BY <2>1, WriteSound
<1>3. CASE work = "remove"
  <2>1. WorkOn(work, s, e) = RemoveEntry(s, e) BY <1>3 DEF WorkOn
  <2> QED BY <2>1, RemoveEntrySound
<1> QED BY <1>1, <1>2, <1>3

\* A worker's whole task.
LEMMA TaskSound ==
  ASSUME NEW once, NEW work \in {"insert", "overwrite", "remove"}, NEW base, AtWork(base, once),
         NEW entries, Entries(entries)
  PROVE  AtWork(Task(work, base, entries), once)
<1> DEFINE n == Len(entries)
<1>0. Listing(entries) /\ n \in Nat /\ \A k \in 1..n : IsEntry(entries[k]) BY DEF Entries, Listing
<1>1. PICK g : /\ g[0] = base /\ g[n] = Task(work, base, entries)
               /\ \A k \in 0..(n - 1) : g[k + 1] = WorkOn(work, g[k], entries[k + 1])
  BY <1>0, WorkRounds
<1> DEFINE T == {k \in Nat : k <= n => AtWork(g[k], once)}
<1>2. 0 \in T BY <1>1
<1>3. ASSUME NEW k \in T PROVE k + 1 \in T
  <2> SUFFICES ASSUME k + 1 <= n PROVE AtWork(g[k + 1], once) OBVIOUS
  <2>1. k \in 0..(n - 1) /\ k + 1 \in 1..n /\ AtWork(g[k], once) BY <1>0
  <2>2. g[k + 1] = WorkOn(work, g[k], entries[k + 1]) BY <1>1, <2>1
  <2>3. IsEntry(entries[k + 1]) BY <1>0, <2>1
  <2>4. AtWork(WorkOn(work, g[k], entries[k + 1]), once) BY <2>1, <2>3, WorkSound
  <2> QED BY <2>2, <2>4
<1>4. T = Nat BY <1>2, <1>3, InductionOnNat
<1> QED BY <1>0, <1>1, <1>4

AllSound(bundles, size, bare, once) ==
  /\ bundles = [i \in BundleIdxs |-> bundles[i]]
  /\ \A i \in BundleIdxs : SoundSet(bundles[i], size, bare, once)

LEMMA DispatchSound ==
  ASSUME NEW once, NEW work \in {"insert", "overwrite", "remove"}, NEW entries, Entries(entries),
         AllSound(bin_bundles, label_size, FALSE, once)
  PROVE  LET r == Dispatch(work, entries)
         IN  AllSound(r.bundles, label_size, FALSE, once) /\ r.ok \in BOOLEAN
<1> DEFINE mine(i) == KeptAt(entries, {k \in DOMAIN entries : BundleOf(entries[k].idx, num_bins) = i})
           base(i) == [set |-> bin_bundles[i], ok |-> TRUE]
           done(i) == Task(work, base(i), mine(i))
           result == [i \in BundleIdxs |-> done(i)]
           r == Dispatch(work, entries)
<1>1. r = [bundles |-> [i \in BundleIdxs |-> result[i].set], ok |-> \A i \in BundleIdxs : result[i].ok]
  BY DEF Dispatch, Task
<1>2. ASSUME NEW i \in BundleIdxs PROVE SoundSet(done(i).set, label_size, FALSE, once)
  <2>1. AtWork(base(i), once) BY DEF AtWork, AllSound
  <2>2. Entries(mine(i))
    <3> DEFINE places == {k \in DOMAIN entries : BundleOf(entries[k].idx, num_bins) = i}
               kept == KeptAt(entries, places)
    <3>1. Listing(entries) /\ DOMAIN entries = 1..Len(entries) BY ListingSeq DEF Entries
    <3> HIDE DEF places
    <3>2. Listing(kept) /\ \A k \in DOMAIN kept :
                             \E j \in DOMAIN entries \cap places : kept[k] = entries[j]
      BY <3>1, KeptFrom
    <3> HIDE DEF kept
    <3>3. DOMAIN kept = 1..Len(kept) BY <3>2, ListingSeq
    <3>4. Entries(kept) BY <3>1, <3>2, <3>3 DEF Entries
    <3> QED BY <3>4 DEF kept, places
  <2>3. PICK x, y : x = base(i) /\ y = mine(i) OBVIOUS
  <2>4. AtWork(x, once) /\ Entries(y) BY <2>1, <2>2, <2>3
  <2>5. AtWork(Task(work, x, y), once)
    BY ONLY <2>4, TaskSound, work \in {"insert", "overwrite", "remove"}
  <2>6. AtWork(done(i), once) BY <2>3, <2>5
  <2> HIDE DEF done
  <2> QED BY <2>6 DEF AtWork
<1> HIDE DEF done, r
<1>3. r.bundles = [i \in BundleIdxs |-> done(i).set] /\ r.ok \in BOOLEAN BY <1>1
<1>4. AllSound(r.bundles, label_size, FALSE, once)
  <2>1. PICK t : t = r.bundles OBVIOUS
  <2>2. t = [i \in BundleIdxs |-> t[i]] /\ \A i \in BundleIdxs : SoundSet(t[i], label_size, FALSE, once)
    BY <1>2, <1>3, <2>1
  <2> QED BY <2>1, <2>2 DEF AllSound
<1> QED BY <1>3, <1>4 DEF r

-----------------------------------------------------------------------------
(* The lock. *)

\* A query that reads has the lock to itself: no call of the owner is under way.
\* It is what NoChangeUnderReader needs: the steps inside a call have no guard on the query.
ReaderAlone == query.at = "reading" => call.at = "none"

\* Every step of a call but its first one is a step inside it.
InsideCall ==
  \/ \E session \in Sessions : Insert(session) \/ Remove_(session)
  \/ Overwrite \/ FinishCall

\* The first steps of calls, and those that are one step.
EntersCall ==
  \/ \E data \in Datas : BeginInsert(data)
  \/ \E data \in Removals : BeginRemove(data)
  \/ Strip \/ Clear \/ SaveAndLoad

\* What the steps need and leave alone, as far as the lock is concerned.
LEMMA EntersFrame == EntersCall => WriterMayEnter /\ query' = query
<1>1. ASSUME NEW data \in Datas, BeginInsert(data) PROVE WriterMayEnter /\ query' = query
  BY <1>1 DEF BeginInsert
<1>2. ASSUME NEW data \in Removals, BeginRemove(data) PROVE WriterMayEnter /\ query' = query
  BY <1>2 DEF BeginRemove
<1>3. Strip => WriterMayEnter /\ query' = query
  BY DEF Strip
<1>4. Clear => WriterMayEnter /\ query' = query
  BY DEF Clear
<1>5. SaveAndLoad => WriterMayEnter /\ query' = query
  BY DEF SaveAndLoad
<1> QED
  BY <1>1, <1>2, <1>3, <1>4, <1>5 DEF EntersCall

LEMMA InsideFrame == InsideCall => call.at # "none" /\ query' = query
<1>1. ASSUME NEW session \in Sessions, Insert(session) PROVE call.at # "none" /\ query' = query
  BY <1>1 DEF Insert, After
<1>2. ASSUME NEW session \in Sessions, Remove_(session) PROVE call.at # "none" /\ query' = query
  BY <1>2 DEF Remove_, After
<1>3. Overwrite => call.at # "none" /\ query' = query
  BY DEF Overwrite, After
<1>4. FinishCall => call.at # "none" /\ query' = query
  BY DEF FinishCall
<1> QED
  BY <1>1, <1>2, <1>3, <1>4 DEF InsideCall

LEMMA QueryFrame ==
  /\ QueryStarts => call.at = "none" /\ call' = call /\ UNCHANGED dbVars
  /\ QueryCollects => query.at = "reading" /\ call' = call /\ UNCHANGED dbVars
BY DEF QueryStarts, QueryCollects

LEMMA NextCases == Next => EntersCall \/ InsideCall \/ QueryStarts \/ QueryCollects
BY DEF Next, EntersCall, InsideCall

\* The owner and the query never hold the lock together.
THEOREM Alone == Spec => []ReaderAlone
<1>1. Init => ReaderAlone
  BY DEF Init, ReaderAlone, NoQuery
<1>2. ASSUME ReaderAlone, [Next]_vars PROVE ReaderAlone'
  <2>1. CASE EntersCall
    BY <2>1, EntersFrame DEF WriterMayEnter, ReaderAlone
  <2>2. CASE InsideCall
    BY <1>2, <2>2, InsideFrame DEF ReaderAlone
  <2>3. CASE QueryStarts
    BY <2>3, QueryFrame DEF ReaderAlone
  <2>4. CASE QueryCollects
    BY <1>2, <2>4, QueryFrame DEF ReaderAlone
  <2>5. CASE UNCHANGED vars
    BY <1>2, <2>5 DEF vars, ReaderAlone
  <2> QED
    BY <1>2, <2>1, <2>2, <2>3, <2>4, <2>5, NextCases
<1> QED
  BY <1>1, <1>2, PTL DEF Spec

\* While a query runs nothing of the database changes, whatever the owner calls
\* (receiver_ddh.cpp 164 takes the lock, get_cache_at at receiver_db.cpp 919 does not).
THEOREM NothingChanges == Spec => NoChangeUnderReader
<1>1. ASSUME ReaderAlone, [Next]_vars PROVE [query.at = "reading" => UNCHANGED dbVars]_vars
  <2> SUFFICES ASSUME query.at = "reading" PROVE UNCHANGED dbVars
    OBVIOUS
  <2>1. ~EntersCall
    BY EntersFrame DEF WriterMayEnter
  <2>2. ~InsideCall
    BY <1>1, InsideFrame DEF ReaderAlone
  <2>3. CASE UNCHANGED vars
    BY <2>3 DEF vars, dbVars
  <2> QED
    BY <1>1, <2>1, <2>2, <2>3, NextCases, QueryFrame
<1> QED
  BY <1>1, Alone, PTL DEF Spec, NoChangeUnderReader

-----------------------------------------------------------------------------
(* The state of the database. *)

Typed ==
  /\ is_labeled \in BOOLEAN /\ stripped \in BOOLEAN
  /\ query = [at |-> query.at, next |-> query.next, caches |-> query.caches]
  /\ call = [at |-> call.at, existing |-> call.existing, data |-> call.data]
  /\ Known(call.existing) /\ Known(call.data)

\* A bundle is sound all the time, and a stripped database is changed by no call that works on it.
BundlesSound(once) ==
  /\ AllSound(bin_bundles, label_size, stripped, once)
  /\ call.at # "none" => ~stripped

\* The caches are up to date when no call is under way, until a call has failed.
CachesFresh ==
  call.at = "none" /\ ~failed =>
    \A i \in BundleIdxs : \A k \in DOMAIN bin_bundles[i] : ~bin_bundles[i][k].cache_invalid

\* The inductive invariant, with the stronger one that holds while no filter refuses a felt: then
\* no felt is twice in a labeled bin.
Keeps(once) == Typed /\ BundlesSound(once) /\ CachesFresh

\* The inductive invariant of the specification as it stands.
DBInv == Keeps(FALSE)

LEMMA InitDB ==
  ASSUME NEW once, Init
  PROVE  Keeps(once)
<1>1. Listing(<<>>) /\ Len(<<>>) = 0 BY DEF Listing
<1>2. Typed BY KnownEmpty DEF Init, Typed, NoQuery, NoCall
<1>3. bin_bundles = [i \in BundleIdxs |-> <<>>] /\ call.at = "none" BY DEF Init, NoCall
<1>4. AllSound(bin_bundles, label_size, stripped, once) BY <1>1, <1>3 DEF AllSound, SoundSet
<1>5. CachesFresh BY <1>3 DEF CachesFresh
<1> QED BY <1>2, <1>3, <1>4, <1>5 DEF Keeps, BundlesSound

\* A batch with each item or its hash, and a bit string for each.
LEMMA BatchTyped ==
  ASSUME NEW b \in Batches, NEW data, NEW given, DOMAIN given = DOMAIN b,
         \A k \in DOMAIN b : given[k] \in Seq(Bit),
         data = [k \in DOMAIN b |-> [item |-> b[k], label |-> given[k]]]
           \/ data = [k \in DOMAIN b |-> [item |-> OprfHash(b[k]), label |-> given[k]]]
  PROVE  Known(data)
<1>2. Listing(b)
  <2>1. b \in Seq(ItemStrings) BY DataAssumption
  <2> QED BY <2>1, ListingSeq
<1>3. DOMAIN b = 1..Len(b) /\ Len(b) \in Nat BY <1>2, ListingSeq DEF Listing
<1>4. data = [k \in 1..Len(b) |-> data[k]] BY <1>3
<1>5. Listing(data) /\ Len(data) = Len(b) BY <1>3, <1>4, ListingOf
<1>6. ASSUME NEW k \in 1..Len(b)
      PROVE  /\ data[k] = [item |-> data[k].item, label |-> data[k].label]
             /\ data[k].item \in ItemsOrHashes /\ data[k].label \in Seq(Bit)
  <2>1. data[k] = [item |-> b[k], label |-> given[k]]
          \/ data[k] = [item |-> OprfHash(b[k]), label |-> given[k]]
    BY <1>3
  <2>2. b[k] \in BatchItems BY <1>3 DEF BatchItems, ToSet
  <2>3. given[k] \in Seq(Bit) BY <1>3
  <2>4. b[k] \in ItemsOrHashes /\ OprfHash(b[k]) \in ItemsOrHashes BY <2>2 DEF ItemsOrHashes
  <2> QED BY <2>1, <2>3, <2>4
<1> QED BY <1>5, <1>6 DEF Known

LEMMA DatasTyped ==
  ASSUME NEW data \in Datas
  PROVE  Known(data)
<1> DEFINE labels == IF is_labeled THEN Labels ELSE {<<>>}
<1>0. labels \subseteq Seq(Bit) BY DataAssumption, BitStrings
<1> HIDE DEF labels
<1>1. PICK b \in Batches : \E l \in [DOMAIN b -> labels] :
        data = [k \in DOMAIN b |-> [item |-> HashedItem(b[k]), label |-> l[k]]]
  BY DEF Datas, labels
<1>2. PICK l \in [DOMAIN b -> labels] :
        data = [k \in DOMAIN b |-> [item |-> HashedItem(b[k]), label |-> l[k]]]
  BY <1>1
<1>3. DOMAIN l = DOMAIN b /\ \A k \in DOMAIN b : l[k] \in Seq(Bit) BY <1>0
<1>4. data = [k \in DOMAIN b |-> [item |-> b[k], label |-> l[k]]]
        \/ data = [k \in DOMAIN b |-> [item |-> OprfHash(b[k]), label |-> l[k]]]
  BY <1>2 DEF HashedItem
<1> QED BY <1>3, <1>4, BatchTyped

LEMMA RemovalsTyped ==
  ASSUME NEW data \in Removals
  PROVE  Known(data)
<1>1. PICK b \in Batches : data = [k \in DOMAIN b |-> [item |-> b[k], label |-> <<>>]] BY DEF Removals
<1> DEFINE given == [k \in DOMAIN b |-> <<>>]
<1>2. DOMAIN given = DOMAIN b /\ \A k \in DOMAIN b : given[k] \in Seq(Bit) BY BitStrings
<1>3. data = [k \in DOMAIN b |-> [item |-> b[k], label |-> given[k]]] BY <1>1
<1> HIDE DEF given
<1> QED BY <1>2, <1>3, BatchTyped

LEMMA RemoveIfTyped ==
  ASSUME NEW data, Known(data), NEW dropped
  PROVE  Known(RemoveIf(data, dropped).kept) /\ Known(RemoveIf(data, dropped).tail)
<1> DEFINE places == DOMAIN data \ dropped
           kept == KeptAt(data, places)
           n == Len(kept)
           m == Len(data) - n
           tail == [k \in 1..m |->
                     IF n + k \in dropped THEN data[n + k] ELSE [data[n + k] EXCEPT !.label = <<>>]]
           Good(d) == d = [item |-> d.item, label |-> d.label] /\ d.item \in ItemsOrHashes /\ d.label \in Seq(Bit)
<1>0. Listing(data) /\ DOMAIN data = 1..Len(data) /\ Len(data) \in Nat /\ \A k \in 1..Len(data) : Good(data[k])
  BY ListingSeq DEF Known, Listing
<1>1. RemoveIf(data, dropped).kept = kept /\ RemoveIf(data, dropped).tail = tail BY DEF RemoveIf
<1>2. Listing(kept) /\ \A k \in DOMAIN kept : \E j \in DOMAIN data : kept[k] = data[j]
  <2> HIDE DEF places
  <2>1. /\ Listing(KeptAt(data, places))
        /\ \A k \in DOMAIN KeptAt(data, places) :
             \E j \in DOMAIN data \cap places : KeptAt(data, places)[k] = data[j]
    BY <1>0, KeptFrom
  <2> QED BY <2>1
<1> HIDE DEF kept
<1>k. Known(kept)
  <2>1. DOMAIN kept = 1..Len(kept) BY <1>2, ListingSeq
  <2>2. \A k \in 1..Len(kept) : Good(kept[k]) BY <1>0, <1>2, <2>1
  <2> QED BY <1>2, <2>2 DEF Known
<1>3. m \in Int /\ n \in Nat
  <2>1. Len(kept) \in Nat /\ Len(data) \in Nat BY <1>0, <1>2 DEF Listing
  <2> QED BY <2>1
<1>4. ASSUME NEW k \in 1..m PROVE Good(tail[k])
  <2>1. PICK j : j = n + k OBVIOUS
  <2>2. j \in 1..Len(data) BY <1>0, <1>3, <2>1
  <2>3. PICK d : d = data[j] OBVIOUS
  <2>4. tail[k] = IF j \in dropped THEN d ELSE [d EXCEPT !.label = <<>>] BY <2>1, <2>3
  <2>5. Good(d) BY <1>0, <2>2, <2>3
  <2>6. [d EXCEPT !.label = <<>>] = [item |-> d.item, label |-> <<>>]
    <3>1. d = [item |-> d.item, label |-> d.label] BY <2>5
    <3> DEFINE y == [d EXCEPT !.label = <<>>]
    <3>2. y = [d EXCEPT !.label = <<>>] OBVIOUS
    <3> HIDE DEF y
    <3>3. y = [item |-> d.item, label |-> <<>>] BY ONLY <3>1, <3>2
    <3> QED BY ONLY <3>2, <3>3
  <2> HIDE DEF tail
  <2> QED BY <2>4, <2>5, <2>6, BitStrings
<1>5. Listing(tail) /\ Len(tail) \in Nat /\ 1..Len(tail) = 1..m
  <2>1. tail = [k \in 1..m |-> tail[k]] OBVIOUS
  <2> HIDE DEF m, tail
  <2>2. CASE m \in Nat BY <2>1, <2>2, ListingOf
  <2>3. CASE m \notin Nat
    <3>1. 1..m = {} BY <1>3, <2>3
    <3>2. 1..m = 1..0 BY <3>1
    <3>3. tail = [k \in 1..0 |-> tail[k]] BY ONLY <2>1, <3>2
    <3>4. Listing(tail) /\ Len(tail) = 0 BY <3>3, ListingOf
    <3> QED BY <3>2, <3>4
  <2> QED BY <2>2, <2>3
<1> HIDE DEF tail, m, n
<1>6. Known(tail) BY <1>4, <1>5 DEF Known
<1> QED BY <1>1, <1>k, <1>6

LEMMA ConcatFrom ==
  ASSUME NEW s, Listing(s), NEW t, Listing(t), NEW E,
         \A k \in 1..Len(s) : s[k] \in E, \A k \in 1..Len(t) : t[k] \in E
  PROVE  Listing(s \o t) /\ \A k \in 1..Len(s \o t) : (s \o t)[k] \in E
<1>1. s \in Seq({s[k] : k \in 1..Len(s)}) /\ t \in Seq({t[k] : k \in 1..Len(t)}) BY ListingSeq
<1>2. s \o t \in Seq(E)
  <2>1. s \in Seq(E)
    <3>1. PICK D : D = {s[k] : k \in 1..Len(s)} /\ D \subseteq E OBVIOUS
    <3> QED BY ONLY <1>1, <3>1, SeqMonotonic
  <2>2. t \in Seq(E)
    <3>1. PICK D : D = {t[k] : k \in 1..Len(t)} /\ D \subseteq E OBVIOUS
    <3> QED BY ONLY <1>1, <3>1, SeqMonotonic
  <2> QED BY <2>1, <2>2, ConcatProperties
<1>3. Listing(s \o t) BY <1>2, ListingSeq
<1>4. \A k \in 1..Len(s \o t) : (s \o t)[k] \in E BY <1>2, ElementOfSeq
<1> QED BY <1>3, <1>4

LEMMA KnownConcat ==
  ASSUME NEW a, Known(a), NEW b, Known(b)
  PROVE  Known(a \o b)
<1> DEFINE E == [item : ItemsOrHashes, label : Seq(Bit)]
<1>1. \A c : Known(c) <=> Listing(c) /\ \A k \in 1..Len(c) : c[k] \in E
  <2>1. \A e : e \in E <=> (e = [item |-> e.item, label |-> e.label] /\ e.item \in ItemsOrHashes
                              /\ e.label \in Seq(Bit))
    OBVIOUS
  <2> HIDE DEF E
  <2> QED BY <2>1 DEF Known
<1> HIDE DEF E
<1>2. Listing(a) /\ (\A k \in 1..Len(a) : a[k] \in E) BY <1>1
<1>3. Listing(b) /\ (\A k \in 1..Len(b) : b[k] \in E) BY <1>1
<1>4. Listing(a \o b) /\ \A k \in 1..Len(a \o b) : (a \o b)[k] \in E
  BY ONLY <1>2, <1>3, ConcatFrom
<1> QED BY <1>1, <1>4

\* What a call that works on no bundle has to leave alone.
LEMMA SameBundles ==
  ASSUME NEW once, Keeps(once), UNCHANGED <<bin_bundles, stripped, is_labeled>>, Typed',
         call'.at # "none" => ~stripped,
         (call'.at = "none" /\ ~failed') => (call.at = "none" /\ ~failed)
  PROVE  Keeps(once)'
<1>1. label_size' = label_size BY DEF label_size
<1>2. BundlesSound(once)' BY <1>1 DEF Keeps, BundlesSound, AllSound
<1>3. CachesFresh' BY DEF Keeps, CachesFresh
<1> QED BY <1>2, <1>3 DEF Keeps

LEMMA InsertBegins ==
  ASSUME NEW once, Keeps(once), NEW data \in Datas, BeginInsert(data)
  PROVE  Keeps(once)'
<1> DEFINE known == {k \in DOMAIN data : data[k].item \in hashed_items \cup Earlier(data, k)}
           split == RemoveIf(data, known)
<1>1. Known(data) BY DatasTyped
<1>2. Known(split.kept) /\ Known(split.tail)
  <2> HIDE DEF known
  <2> QED BY <1>1, RemoveIfTyped
<1>3. /\ ~stripped /\ UNCHANGED <<bin_bundles, stripped, is_labeled, query>>
      /\ call' = IF ~is_labeled THEN [at |-> "insert", existing |-> <<>>, data |-> split.kept]
                 ELSE [at |-> IF split.tail # <<>> THEN "overwrite" ELSE "insert",
                       existing |-> split.tail, data |-> split.kept]
  BY DEF BeginInsert
<1>4. Known(<<>>) BY KnownEmpty
<1> HIDE DEF split
<1>5. call'.at # "none" BY <1>3
<1>6. Typed' BY <1>2, <1>3, <1>4 DEF Keeps, Typed
<1> QED BY <1>3, <1>5, <1>6, SameBundles

LEMMA RemovalBegins ==
  ASSUME NEW once, Keeps(once), NEW data \in Removals, BeginRemove(data)
  PROVE  Keeps(once)'
<1> DEFINE unknown == {k \in DOMAIN data :
                        data[k].item \notin hashed_items \/ data[k].item \in Earlier(data, k)}
           split == RemoveIf(data, unknown)
<1>1. Known(data) BY RemovalsTyped
<1>2. Known(split.kept) /\ Known(split.tail)
  <2> HIDE DEF unknown
  <2> QED BY <1>1, RemoveIfTyped
<1>3. /\ ~stripped /\ UNCHANGED <<bin_bundles, stripped, is_labeled, query>>
      /\ call' = [at |-> "remove", existing |-> <<>>, data |-> split.kept \o split.tail]
  BY DEF BeginRemove
<1>4. Known(<<>>) BY KnownEmpty
<1> HIDE DEF split
<1>5. Known(split.kept \o split.tail) BY <1>2, KnownConcat
<1>6. call'.at # "none" BY <1>3
<1>7. Typed' BY <1>3, <1>4, <1>5 DEF Keeps, Typed
<1> QED BY <1>3, <1>6, <1>7, SameBundles

\* The steps of a call in which the workers run.
LEMMA WorkersDone ==
  ASSUME NEW once, Keeps(once), call.at # "none", NEW work \in {"insert", "overwrite", "remove"},
         NEW entries, Entries(entries), NEW next, next # "none",
         After(Dispatch(work, entries), next)
  PROVE  Keeps(once)'
<1> DEFINE r == Dispatch(work, entries)
<1>0. ~stripped /\ stripped \in BOOLEAN BY DEF Keeps, BundlesSound, Typed
<1>1. AllSound(r.bundles, label_size, FALSE, once) /\ r.ok \in BOOLEAN
  <2>1. stripped = FALSE BY <1>0
  <2>2. AllSound(bin_bundles, label_size, FALSE, once) BY <2>1 DEF Keeps, BundlesSound
  <2> QED BY <2>2, DispatchSound
<1>2. /\ bin_bundles' = r.bundles
      /\ call' = IF r.ok THEN [call EXCEPT !.at = next] ELSE NoCall
      /\ failed' = (failed \/ ~r.ok)
      /\ UNCHANGED <<stripped, is_labeled, query>>
  BY DEF After
<1> HIDE DEF r
<1>3. label_size' = label_size /\ stripped' = FALSE BY <1>0, <1>2 DEF label_size
<1>4. AllSound(bin_bundles', label_size', stripped', once) BY <1>1, <1>2, <1>3
<1>5. Known(<<>>) BY KnownEmpty
<1>6. Typed'
  <2>1. CASE r.ok
    <3>1. call' = [at |-> next, existing |-> call.existing, data |-> call.data]
      BY <1>2, <2>1 DEF Keeps, Typed
    <3> QED BY <1>2, <3>1 DEF Keeps, Typed
  <2>2. CASE ~r.ok BY <1>2, <1>5, <2>2 DEF Keeps, Typed, NoCall
  <2> QED BY <2>1, <2>2
<1>7. call'.at = "none" /\ ~failed' => FALSE
  <2>1. CASE r.ok
    <3>1. call'.at = next BY <1>2, <2>1 DEF Keeps, Typed
    <3> QED BY <3>1
  <2>2. CASE ~r.ok BY <1>2, <2>2
  <2> QED BY <2>1, <2>2
<1>8. CachesFresh' BY <1>7 DEF CachesFresh
<1>9. BundlesSound(once)' BY <1>3, <1>4 DEF BundlesSound, AllSound
<1> QED BY <1>6, <1>8, <1>9 DEF Keeps

LEMMA WorkingSteps ==
  ASSUME NEW once, Keeps(once), \/ Overwrite
                \/ \E session \in Sessions : Insert(session) \/ Remove_(session)
  PROVE  Keeps(once)'
<1>0. Known(call.existing) /\ Known(call.data) BY DEF Keeps, Typed
<1>1. CASE Overwrite
  <2> DEFINE next == IF call.data # <<>> THEN "insert" ELSE "caches"
  <2>1. Entries(PreprocessLabeled(call.existing)) BY <1>0, LabeledEntries
  <2>2. /\ call.at # "none" /\ next # "none"
        /\ After(Dispatch("overwrite", PreprocessLabeled(call.existing)), next)
    BY <1>1 DEF Overwrite
  <2> HIDE DEF next
  <2> QED BY <2>1, <2>2, WorkersDone
<1>2. CASE \E session \in Sessions : Insert(session)
  <2>1. PICK session \in Sessions : Insert(session) BY <1>2
  <2> DEFINE entries == IF is_labeled THEN PreprocessLabeled(call.data)
                        ELSE PreprocessUnlabeled(call.data, session)
  <2>2. Entries(entries) BY <1>0, LabeledEntries, UnlabeledEntries
  <2>3. call.at # "none" /\ After(Dispatch("insert", entries), "caches") BY <2>1 DEF Insert
  <2> HIDE DEF entries
  <2> QED BY <2>2, <2>3, WorkersDone
<1>3. CASE \E session \in Sessions : Remove_(session)
  <2>1. PICK session \in Sessions : Remove_(session) BY <1>3
  <2>2. Entries(PreprocessUnlabeled(call.data, session)) BY <1>0, UnlabeledEntries
  <2>3. /\ call.at # "none"
        /\ After(Dispatch("remove", PreprocessUnlabeled(call.data, session)), "caches")
    BY <2>1 DEF Remove_
  <2> QED BY <2>2, <2>3, WorkersDone
<1> QED BY <1>1, <1>2, <1>3

\* All caches regenerated.
LEMMA Regenerated ==
  ASSUME NEW once, NEW bundles, NEW size, NEW bare \in BOOLEAN, AllSound(bundles, size, bare, once)
  PROVE  /\ AllSound(GenerateCaches(bundles), size, bare, once)
         /\ \A i \in BundleIdxs : \A k \in DOMAIN GenerateCaches(bundles)[i] :
              ~GenerateCaches(bundles)[i][k].cache_invalid
<1> DEFINE new == GenerateCaches(bundles)
<1>1. ASSUME NEW i \in BundleIdxs
      PROVE  SoundSet(new[i], size, bare, once) /\ \A k \in DOMAIN new[i] : ~new[i][k].cache_invalid
  <2> DEFINE old == bundles[i]
             s == [k \in DOMAIN old |-> RegenCache(old[k])]
  <2>1. Listing(old) /\ \A k \in 1..Len(old) : Sound(old[k], size, bare, once)
    BY DEF AllSound, SoundSet
  <2> HIDE DEF old
  <2>2. DOMAIN old = 1..Len(old) /\ Len(old) \in Nat BY <2>1, ListingSeq DEF Listing
  <2>3. s = [k \in 1..Len(old) |-> s[k]] /\ \A k \in 1..Len(old) : s[k] = RegenCache(old[k]) BY <2>2
  <2>4. new[i] = s BY DEF GenerateCaches, old
  <2> HIDE DEF s, new
  <2>5. Listing(s) /\ Len(s) = Len(old) /\ DOMAIN s = 1..Len(old) BY <2>2, <2>3, ListingOf
  <2>6. \A k \in 1..Len(s) : Sound(s[k], size, bare, once) /\ ~s[k].cache_invalid
    BY <2>1, <2>3, <2>5, RegenSound
  <2> QED BY <2>4, <2>5, <2>6 DEF SoundSet
<1>2. new = [i \in BundleIdxs |-> new[i]] BY DEF GenerateCaches
<1> HIDE DEF new
<1> QED BY <1>1, <1>2 DEF AllSound, new

LEMMA CallFinishes ==
  ASSUME NEW once, Keeps(once), FinishCall
  PROVE  Keeps(once)'
<1>1. /\ bin_bundles' = GenerateCaches(bin_bundles) /\ call' = NoCall
      /\ UNCHANGED <<stripped, is_labeled, query, failed>>
  BY DEF FinishCall
<1>2. label_size' = label_size BY <1>1 DEF label_size
<1>3. AllSound(bin_bundles, label_size, stripped, once) /\ stripped \in BOOLEAN
  BY DEF Keeps, BundlesSound, Typed
<1> DEFINE new == GenerateCaches(bin_bundles)
<1>4. /\ AllSound(new, label_size, stripped, once)
      /\ \A i \in BundleIdxs : \A k \in DOMAIN new[i] : ~new[i][k].cache_invalid
  BY <1>3, Regenerated
<1> HIDE DEF new
<1>5. bin_bundles' = new BY <1>1 DEF new
<1>6. call'.at = "none" BY <1>1 DEF NoCall
<1>7. BundlesSound(once)' BY <1>1, <1>2, <1>4, <1>5, <1>6 DEF BundlesSound, AllSound
<1>8. CachesFresh' BY <1>4, <1>5 DEF CachesFresh
<1>9. Known(<<>>) BY KnownEmpty
<1>10. Typed' BY <1>1, <1>9 DEF Keeps, Typed, NoCall
<1> QED BY <1>7, <1>8, <1>10 DEF Keeps

LEMMA Strips ==
  ASSUME NEW once, Keeps(once), Strip
  PROVE  Keeps(once)'
<1> DEFINE new == [i \in BundleIdxs |-> [k \in DOMAIN bin_bundles[i] |->
                                          StripBundle(bin_bundles[i][k])]]
<1>1. /\ stripped' = TRUE /\ bin_bundles' = new /\ call.at = "none"
      /\ UNCHANGED <<is_labeled, call, query, failed>>
  BY DEF Strip, WriterMayEnter
<1>2. label_size' = label_size BY <1>1 DEF label_size
<1>3. AllSound(bin_bundles, label_size, stripped, once) /\ stripped \in BOOLEAN
  BY DEF Keeps, BundlesSound, Typed
<1>4. ASSUME NEW i \in BundleIdxs
      PROVE  SoundSet(new[i], label_size, TRUE, once) /\ \A k \in DOMAIN new[i] : ~new[i][k].cache_invalid
  <2> DEFINE old == bin_bundles[i]
             s == [k \in DOMAIN old |-> StripBundle(old[k])]
  <2>1. Listing(old) /\ \A k \in 1..Len(old) : Sound(old[k], label_size, stripped, once)
    BY <1>3 DEF AllSound, SoundSet
  <2>4. new[i] = s OBVIOUS
  <2> HIDE DEF old, new
  <2>2. DOMAIN old = 1..Len(old) /\ Len(old) \in Nat BY <2>1, ListingSeq DEF Listing
  <2>3. s = [k \in 1..Len(old) |-> s[k]] /\ \A k \in 1..Len(old) : s[k] = StripBundle(old[k])
    BY <2>2
  <2> HIDE DEF s
  <2>5. Listing(s) /\ Len(s) = Len(old) /\ DOMAIN s = 1..Len(old) BY <2>2, <2>3, ListingOf
  <2>6. \A k \in 1..Len(s) : Sound(s[k], label_size, TRUE, once)
    BY <1>3, <2>1, <2>3, <2>5, StripSound
  <2>7. \A k \in 1..Len(s) : ~s[k].cache_invalid BY <2>6 DEF Sound, CacheLeft
  <2> QED BY <2>4, <2>5, <2>6, <2>7 DEF SoundSet
<1>5. new = [i \in BundleIdxs |-> new[i]] OBVIOUS
<1> HIDE DEF new
<1>6. AllSound(new, label_size, TRUE, once) BY <1>4, <1>5 DEF AllSound
<1>7. BundlesSound(once)' BY <1>1, <1>2, <1>6 DEF BundlesSound, AllSound
<1>8. CachesFresh' BY <1>1, <1>4 DEF CachesFresh
<1>9. Typed' BY <1>1 DEF Keeps, Typed
<1> QED BY <1>7, <1>8, <1>9 DEF Keeps

LEMMA Clears ==
  ASSUME NEW once, Keeps(once), Clear
  PROVE  Keeps(once)'
<1>1. /\ stripped' = FALSE /\ bin_bundles' = [i \in BundleIdxs |-> <<>>] /\ call.at = "none"
      /\ UNCHANGED <<is_labeled, call, query>>
  BY DEF Clear, WriterMayEnter
<1>2. Listing(<<>>) /\ Len(<<>>) = 0 BY DEF Listing
<1>3. \A i \in BundleIdxs : SoundSet(<<>>, label_size', FALSE, once) BY <1>2 DEF SoundSet
<1>4. BundlesSound(once)' BY <1>1, <1>3 DEF BundlesSound, AllSound
<1>5. CachesFresh' BY <1>1 DEF CachesFresh
<1>6. Typed' BY <1>1 DEF Keeps, Typed
<1> QED BY <1>4, <1>5, <1>6 DEF Keeps

\* No filter has refused an item: add returns false once the overflow entry is taken, and nobody
\* looks at what it returns (bin_bundle.cpp multi_insert, load).
NoneRefused ==
  \A i \in BundleIdxs : \A bundle \in Bundles(i) : \A b \in DOMAIN bundle.item_bins :
    bundle.filters[b].num_items = Len(bundle.item_bins[b])

LEMMA SavesAndLoads ==
  ASSUME NEW once, Keeps(once), SaveAndLoad, once => NoneRefused
  PROVE  Keeps(once)'
<1> DEFINE orders(i) == Bijection(DOMAIN bin_bundles[i], DOMAIN bin_bundles[i])
<1>0. PICK p \in [BundleIdxs -> UNION {orders(i) : i \in BundleIdxs}] :
        /\ \A i \in BundleIdxs : p[i] \in orders(i)
        /\ bin_bundles' = GenerateCaches(
             [i \in BundleIdxs |-> [k \in DOMAIN bin_bundles[i] |->
                                     LoadBundle(Saved[i][p[i][k]], label_size)]])
  BY DEF SaveAndLoad
<1>1. call.at = "none" /\ UNCHANGED <<stripped, is_labeled, call, query, failed>>
  BY DEF SaveAndLoad, WriterMayEnter
<1>2. label_size' = label_size BY <1>1 DEF label_size
<1>3. AllSound(bin_bundles, label_size, stripped, once) /\ stripped \in BOOLEAN
  BY DEF Keeps, BundlesSound, Typed
<1> DEFINE loaded == [i \in BundleIdxs |-> [k \in DOMAIN bin_bundles[i] |->
                                             LoadBundle(Saved[i][p[i][k]], label_size)]]
<1>4. ASSUME NEW i \in BundleIdxs PROVE SoundSet(loaded[i], label_size, stripped, once)
  <2> DEFINE old == bin_bundles[i]
             s == [k \in DOMAIN old |-> LoadBundle(Saved[i][p[i][k]], label_size)]
  <2>1. Listing(old) /\ \A k \in 1..Len(old) : Sound(old[k], label_size, stripped, once)
    BY <1>3 DEF AllSound, SoundSet
  <2>2. loaded[i] = s OBVIOUS
  <2>3. p[i] \in [DOMAIN old -> DOMAIN old] BY <1>0 DEF Bijection, Injection
  <2>4. \A j \in DOMAIN old : Saved[i][j] = SaveBundle(old[j], i) BY DEF Saved
  <2> HIDE DEF old, loaded
  <2>5. DOMAIN old = 1..Len(old) /\ Len(old) \in Nat BY <2>1, ListingSeq DEF Listing
  <2>6. ASSUME NEW k \in 1..Len(old)
        PROVE  \E j \in 1..Len(old) : s[k] = LoadBundle(SaveBundle(old[j], i), label_size)
    <3>1. p[i][k] \in 1..Len(old) BY <2>3, <2>5
    <3>2. s[k] = LoadBundle(Saved[i][p[i][k]], label_size) BY <2>5
    <3> QED BY <2>4, <2>5, <3>1, <3>2
  <2>7. s = [k \in 1..Len(old) |-> s[k]] BY <2>5
  <2> HIDE DEF s
  <2>8. Listing(s) /\ Len(s) = Len(old) BY <2>5, <2>7, ListingOf
  <2>9. ASSUME NEW k \in 1..Len(s) PROVE Sound(s[k], label_size, stripped, once)
    <3>1. PICK j \in 1..Len(old) : s[k] = LoadBundle(SaveBundle(old[j], i), label_size)
      BY <2>6, <2>8
    <3>2. PICK x : x = old[j] OBVIOUS
    <3>3. Sound(x, label_size, stripped, once) BY <2>1, <3>2
    <3>c. once => \A b \in DOMAIN x.item_bins : x.filters[b].num_items = Len(x.item_bins[b])
      <4>1. x \in Bundles(i) BY <2>5, <3>2 DEF Bundles, old
      <4> QED BY <4>1 DEF NoneRefused
    <3>4. Sound(LoadBundle(SaveBundle(x, i), label_size), label_size, stripped, once)
      BY ONLY <1>3, <3>3, <3>c, SizeTyped, LoadSound
    <3> QED BY <3>1, <3>2, <3>4
  <2> QED BY <2>2, <2>8, <2>9 DEF SoundSet
<1>5. loaded = [i \in BundleIdxs |-> loaded[i]] OBVIOUS
<1>6. bin_bundles' = GenerateCaches(loaded) BY <1>0
<1> HIDE DEF loaded
<1>7. AllSound(loaded, label_size, stripped, once) BY <1>4, <1>5 DEF AllSound
<1> DEFINE new == GenerateCaches(loaded)
<1>8. /\ AllSound(new, label_size, stripped, once)
      /\ \A i \in BundleIdxs : \A k \in DOMAIN new[i] : ~new[i][k].cache_invalid
  BY <1>3, <1>7, Regenerated
<1>9. bin_bundles' = new BY <1>6
<1> HIDE DEF new
<1>10. BundlesSound(once)' BY <1>1, <1>2, <1>8, <1>9 DEF BundlesSound, AllSound
<1>11. CachesFresh' BY <1>8, <1>9 DEF CachesFresh
<1>12. Typed' BY <1>1 DEF Keeps, Typed
<1> QED BY <1>10, <1>11, <1>12 DEF Keeps

LEMMA QuerySteps ==
  ASSUME NEW once, Keeps(once), QueryStarts \/ QueryCollects \/ UNCHANGED vars
  PROVE  Keeps(once)'
<1>1. UNCHANGED <<bin_bundles, stripped, is_labeled, call, failed>>
  BY DEF QueryStarts, QueryCollects, vars, dbVars
<1>2. query' = [at |-> query'.at, next |-> query'.next, caches |-> query'.caches]
  <2>1. PICK q : q = query OBVIOUS
  <2>2. q = [at |-> q.at, next |-> q.next, caches |-> q.caches] BY <2>1 DEF Keeps, Typed
  <2>3. \A x, y, z : /\ [q EXCEPT !.at = x] = [at |-> x, next |-> q.next, caches |-> q.caches]
                     /\ [q EXCEPT !.next = y, !.caches = z] = [at |-> q.at, next |-> y, caches |-> z]
    <3> SUFFICES ASSUME NEW x, NEW y, NEW z
                 PROVE  /\ [q EXCEPT !.at = x] = [at |-> x, next |-> q.next, caches |-> q.caches]
                        /\ [q EXCEPT !.next = y, !.caches = z] =
                             [at |-> q.at, next |-> y, caches |-> z]
      OBVIOUS
    <3> DEFINE r == [q EXCEPT !.at = x]
               t == [q EXCEPT !.next = y, !.caches = z]
    <3>1. r = [q EXCEPT !.at = x] /\ t = [q EXCEPT !.next = y, !.caches = z] OBVIOUS
    <3> HIDE DEF r, t
    <3>2. r = [at |-> x, next |-> q.next, caches |-> q.caches] BY ONLY <2>2, <3>1
    <3>3. t = [at |-> q.at, next |-> y, caches |-> z] BY ONLY <2>2, <3>1
    <3> QED BY <3>1, <3>2, <3>3
  <2>4. CASE QueryStarts BY <2>1, <2>3, <2>4 DEF QueryStarts
  <2>5. CASE UNCHANGED vars BY <2>5 DEF vars, Keeps, Typed
  <2>6. CASE QueryCollects
    <3>1. \E x, y, z : \/ query' = [q EXCEPT !.at = x]
                       \/ query' = [q EXCEPT !.next = y, !.caches = z]
      BY <2>1, <2>6 DEF QueryCollects
    <3> QED BY <2>3, <3>1
  <2> QED BY <2>4, <2>5, <2>6
<1>3. Typed' BY <1>1, <1>2 DEF Keeps, Typed
<1>4. call'.at # "none" => ~stripped BY <1>1 DEF Keeps, BundlesSound
<1> QED BY <1>1, <1>3, <1>4, SameBundles

LEMMA KeepsStep ==
  ASSUME NEW once, Keeps(once), [Next]_vars, once => NoneRefused
  PROVE  Keeps(once)'
<1>1. CASE \E data \in Datas : BeginInsert(data) BY <1>1, InsertBegins
<1>2. CASE \E data \in Removals : BeginRemove(data) BY <1>2, RemovalBegins
<1>3. CASE Overwrite \/ \E session \in Sessions : Insert(session) \/ Remove_(session)
  BY <1>3, WorkingSteps
<1>4. CASE FinishCall BY <1>4, CallFinishes
<1>5. CASE Strip BY <1>5, Strips
<1>6. CASE Clear BY <1>6, Clears
<1>7. CASE SaveAndLoad BY <1>7, SavesAndLoads
<1>8. CASE QueryStarts \/ QueryCollects \/ UNCHANGED vars BY <1>8, QuerySteps
<1> QED BY <1>1, <1>2, <1>3, <1>4, <1>5, <1>6, <1>7, <1>8 DEF Next

\* Whatever the owner calls and in which order, with one query beside it.
THEOREM DatabaseSound == Spec => []DBInv
<1>1. DBInv /\ [Next]_vars => DBInv' BY KeepsStep DEF DBInv
<1>2. Init => DBInv BY InitDB DEF DBInv
<1> QED BY <1>1, <1>2, PTL DEF Spec

\* A query meets a stale cache only after a call has ended in an exception: between the insertion
\* and the regeneration of the caches the lock is not given back, and save, Load and strip leave
\* none stale (receiver_db.cpp 919 get_cache_at, bin_bundle.cpp get_cache).
THEOREM FreshCaches == Spec => QueryMeetsFreshCache
<1>1. ASSUME DBInv, ReaderAlone, [Next]_vars
      PROVE  [query'.at = "threw" /\ query.at # "threw" => failed]_vars
  <2> SUFFICES ASSUME query'.at = "threw", query.at # "threw" PROVE failed OBVIOUS
  <2>1. ~EntersCall BY EntersFrame
  <2>2. ~InsideCall BY InsideFrame
  <2>3. ~UNCHANGED vars BY DEF vars
  <2>4. ~QueryStarts
    <3>1. QueryStarts => query'.at = "reading"
      <4>1. query = [at |-> query.at, next |-> query.next, caches |-> query.caches]
        BY <1>1 DEF DBInv, Keeps, Typed
      <4> QED BY <4>1 DEF QueryStarts
    <3> QED BY <3>1
  <2>5. QueryCollects BY <1>1, <2>1, <2>2, <2>3, <2>4, NextCases
  <2>6. query.next \in BundleIdxs /\ StaleAt(query.next)
    <3>0. query = [at |-> query.at, next |-> query.next, caches |-> query.caches]
      BY <1>1 DEF DBInv, Keeps, Typed
    <3>1. CASE query.next \notin BundleIdxs
      <4>1. query' = [query EXCEPT !.at = "done"] BY <2>5, <3>1 DEF QueryCollects
      <4>2. query'.at = "done" BY <3>0, <4>1
      <4> QED BY <4>2
    <3>2. CASE query.next \in BundleIdxs /\ ~StaleAt(query.next)
      <4>1. \E y, z : query' = [query EXCEPT !.next = y, !.caches = z]
        BY <2>5, <3>2 DEF QueryCollects
      <4>2. query'.at = query.at BY <3>0, <4>1
      <4>3. query.at = "reading" BY <2>5 DEF QueryCollects
      <4> QED BY <4>2, <4>3
    <3> QED BY <3>1, <3>2
  <2>7. call.at = "none" BY <1>1, <2>5 DEF QueryCollects, ReaderAlone
  <2> QED BY <1>1, <2>6, <2>7 DEF DBInv, Keeps, CachesFresh, StaleAt
<1> QED BY <1>1, Alone, DatabaseSound, PTL DEF Spec, QueryMeetsFreshCache

LEMMA BundleSound ==
  ASSUME NEW once, Keeps(once), NEW i \in BundleIdxs, NEW bundle \in Bundles(i)
  PROVE  stripped \in BOOLEAN /\ Sound(bundle, label_size, stripped, once)
<1>1. stripped \in BOOLEAN /\ AllSound(bin_bundles, label_size, stripped, once)
  BY DEF Keeps, Typed, BundlesSound
<1>2. PICK k \in DOMAIN bin_bundles[i] : bundle = bin_bundles[i][k] BY DEF Bundles
<1>3. SoundSet(bin_bundles[i], label_size, stripped, once) BY <1>1 DEF AllSound
<1>4. DOMAIN bin_bundles[i] = 1..Len(bin_bundles[i]) BY <1>3, ListingSeq DEF SoundSet
<1> QED BY <1>1, <1>2, <1>3, <1>4 DEF SoundSet

\* What save writes Load accepts, and the bundles come back as they were, whatever calls have built
\* the database and however they ended.  Bins of one item are no such database: HasSpace finds
\* space in no bundle (receiver_db.cpp 486), but the bundle made for an item holds it all the
\* same, and its matching polynomials have one coefficient more than load allows (bin_bundle.cpp 1348).
THEOREM ComesBack ==
  ASSUME max_bin_size >= 2
  PROVE  Spec => []LoadsBack
<1>1. ASSUME DBInv PROVE LoadsBack
  <2> SUFFICES ASSUME NEW i \in BundleIdxs, NEW bundle \in Bundles(i)
               PROVE  /\ CanLoad(SaveBundle(bundle, i), label_size)
                      /\ RegenCache([LoadBundle(SaveBundle(bundle, i), label_size)
                                       EXCEPT !.filters = bundle.filters]) = RegenCache(bundle)
    BY DEF LoadsBack
  <2>1. stripped \in BOOLEAN /\ Sound(bundle, label_size, stripped, FALSE)
    BY <1>1, BundleSound DEF DBInv
  <2>2. CanLoad(SaveBundle(bundle, i), label_size) BY <2>1, SizeTyped, Accepted
  <2>3. RegenCache([LoadBundle(SaveBundle(bundle, i), label_size)
                      EXCEPT !.filters = bundle.filters]) = RegenCache(bundle)
    <3>1. PICK once : once = FALSE /\ Sound(bundle, label_size, stripped, once) BY <2>1
    <3>2. once => \A b \in DOMAIN bundle.item_bins :
                    bundle.filters[b].num_items = Len(bundle.item_bins[b]) BY <3>1
    <3> QED BY <2>1, <3>1, <3>2, SizeTyped, LoadSound
  <2> QED BY <2>2, <2>3
<1> QED BY <1>1, DatabaseSound, PTL

-----------------------------------------------------------------------------
(* A valid cache belongs to the bins. *)

\* The column of a bin in the cached matching polynomials.
Column(cache, bin) ==
  [d \in DOMAIN cache.batched_matching |-> cache.batched_matching[d][bin]]

LEMMA ColumnRoots ==
  ASSUME NEW bundle, Filled(bundle), NEW bin \in Bins, NEW x \in Felt,
         \A k \in 1..Len(bundle.item_bins[bin]) : bundle.item_bins[bin][k] \in Felt
  PROVE  ValueAt(Column(RegenPolyns(bundle), bin), x) = 0 <=> x \in ToSet(bundle.item_bins[bin])
<1> DEFINE items == bundle.item_bins[bin]
           matching == [b \in Bins |-> PolynWithRoots(bundle.item_bins[b])]
           m == Max({1} \cup {Len(matching[b]) : b \in DOMAIN matching})
           batched == [i \in 1..m |-> [b \in DOMAIN matching |->
                                        IF i <= Len(matching[b]) THEN matching[b][i] ELSE 0]]
           p == PolynWithRoots(items)
           column == Column(RegenPolyns(bundle), bin)
<1>0. /\ \A b \in Bins : Listing(bundle.item_bins[b]) /\ Len(bundle.item_bins[b]) \in Nat
      /\ mod \in Nat /\ mod >= 2 /\ x \in Int
  <2>1. \A b \in Bins : Listing(bundle.item_bins[b]) BY DEF Filled
  <2>2. \A b \in Bins : Len(bundle.item_bins[b]) \in Nat BY <2>1 DEF Listing
  <2>3. mod \in Nat /\ mod >= 2 BY ModAssumption
  <2>4. x \in Int BY <2>3 DEF Felt
  <2> QED BY <2>1, <2>2, <2>3, <2>4
<1>1. RegenPolyns(bundle).batched_matching = batched BY DEF RegenPolyns, Batched
<1>2. DOMAIN matching = Bins /\ \A b \in Bins : Len(matching[b]) = Len(bundle.item_bins[b]) + 1
  BY <1>0, RootsLength
<1>3. m \in Nat /\ \A b \in Bins : Len(matching[b]) <= m
  <2> HIDE DEF matching
  <2>1. \A b \in Bins : Len(matching[b]) \in Nat \ {0} BY <1>0, <1>2
  <2> QED BY <1>2, <2>1, LongestIs
<1> HIDE DEF m
<1>4. matching[bin] = p OBVIOUS
<1>5. column = Padded(p, m)
  <2>1. column = [d \in 1..m |-> batched[d][bin]] BY <1>1 DEF Column
  <2>2. \A d \in 1..m : batched[d][bin] = IF d <= Len(p) THEN p[d] ELSE 0 BY <1>2, <1>4
  <2> HIDE DEF batched, p, matching, column
  <2>3. [d \in 1..m |-> batched[d][bin]] = [d \in 1..m |-> IF d <= Len(p) THEN p[d] ELSE 0]
    BY <2>2
  <2> QED BY <2>1, <2>3 DEF Padded
<1>6. Len(p) <= m BY <1>3, <1>4
<1>7. Ints(items)
  <2>1. Felt \subseteq Int BY <1>0 DEF Felt
  <2> QED BY <1>0, <2>1 DEF Ints
<1> HIDE DEF items, p, matching, batched, column
<1>8. /\ Ints(p) /\ (ValueAt(p, x) = 0 <=> \E k \in 1..Len(items) : (x - items[k]) % mod = 0)
  BY <1>0, <1>7, RootsValue DEF p
<1>9. ValueAt(column, x) = ValueAt(p, x) BY <1>0, <1>3, <1>5, <1>6, <1>8, PaddedValue
<1>10. \A y \in Felt : (x - y) % mod = 0 <=> x = y
  <2> SUFFICES ASSUME NEW y \in Felt PROVE (x - y) % mod = 0 <=> x = y OBVIOUS
  <2>1. x \in 0..(mod - 1) /\ y \in 0..(mod - 1) BY DEF Felt
  <2> QED BY ONLY <1>0, <2>1, SMT
<1>11. ToSet(items) = {items[k] : k \in 1..Len(items)}
  <2>1. DOMAIN items = 1..Len(items) BY <1>0, ListingSeq DEF items
  <2> QED BY <2>1 DEF ToSet
<1>12. \A k \in 1..Len(items) : items[k] \in Felt BY DEF items
<1> QED BY <1>8, <1>9, <1>10, <1>11, <1>12 DEF items, column
\* One bin of a bundle: the matching polynomial tells its felts from all other field elements, the
\* interpolation polynomials their labels.
LEMMA CacheOfBin ==
  ASSUME PowersOfTwo, InversesRight, NEW bundle, NEW size, Sound(bundle, size, FALSE, FALSE),
         ~bundle.cache_invalid, NEW bin \in Bins,
         size > 0 => IsInjective(bundle.item_bins[bin])
  PROVE  LET items == bundle.item_bins[bin]
             labels(l) == bundle.label_bins[l][bin]
             column == [d \in DOMAIN bundle.cache.batched_matching |->
                         bundle.cache.batched_matching[d][bin]]
         IN  /\ \A x \in Felt : (ValueAt(column, x) = 0) <=> x \in ToSet(items)
             /\ \A l \in 1..bundle.label_size :
                  /\ ~CannotInterpolate(items, labels(l))
                  /\ \A n \in DOMAIN items :
                       ValueAt(bundle.cache.interp[l][bin], items[n]) = labels(l)[n]
<1> DEFINE items == bundle.item_bins[bin]
           labels(l) == bundle.label_bins[l][bin]
           column == [d \in DOMAIN bundle.cache.batched_matching |->
                       bundle.cache.batched_matching[d][bin]]
<1>0. /\ Filled(bundle) /\ InField(bundle) /\ bundle.label_size = size
      /\ bundle.cache = RegenPolyns(bundle)
  BY DEF Sound
<1>1. Listing(items) /\ AllFelts(items) BY <1>0 DEF Filled, InField
<1>2. column = Column(RegenPolyns(bundle), bin) BY <1>0 DEF Column
<1> HIDE DEF column
<1>3. ASSUME NEW x \in Felt PROVE (ValueAt(column, x) = 0) <=> x \in ToSet(items)
  <2>1. \A k \in 1..Len(items) : items[k] \in Felt BY <1>1 DEF AllFelts
  <2> QED BY <1>0, <1>2, <2>1, ColumnRoots
<1>4. ASSUME NEW l \in 1..size
      PROVE  /\ ~CannotInterpolate(items, labels(l))
             /\ \A n \in DOMAIN items :
                  ValueAt(bundle.cache.interp[l][bin], items[n]) = labels(l)[n]
  <2>1. /\ Listing(labels(l)) /\ AllFelts(labels(l)) /\ Len(labels(l)) = Len(items)
        /\ size \in Nat /\ DOMAIN bundle.label_bins = 1..size
    BY <1>0, ListingSeq DEF Filled, InField, Listing
  <2>2. size > 0 BY <2>1
  <2>3. IsInjective(items) BY <2>2
  <2>4. DOMAIN items = 1..Len(items) BY <1>1, ListingSeq
  <2>5. bundle.cache.interp[l][bin] = NewtonInterpolatePolyn(items, labels(l))
    BY <1>0, <2>1 DEF RegenPolyns
  <2> DEFINE v == labels(l)
  <2> HIDE DEF items, v
  <2>6. /\ \A k \in 1..Len(items) : items[k] \in Felt /\ v[k] \in Felt
        /\ \A j, k \in 1..Len(items) : items[j] = items[k] => j = k
    BY <1>1, <2>1, <2>3, <2>4 DEF AllFelts, IsInjective, v
  <2>7. Listing(items) /\ Listing(v) /\ Len(v) = Len(items) BY <1>1, <2>1 DEF v
  <2>8. ASSUME NEW n \in DOMAIN items
        PROVE  ValueAt(NewtonInterpolatePolyn(items, v), items[n]) = v[n]
    <3>1. n \in 1..Len(items) BY <2>4
    <3> QED BY <2>6, <2>7, <3>1, NewtonValue
  <2>9. ~CannotInterpolate(items, v) BY <2>3, <2>7 DEF CannotInterpolate
  <2> QED BY <2>5, <2>8, <2>9 DEF v
<1> HIDE DEF items
<1> QED BY <1>0, <1>3, <1>4 DEF items, column

\* No felt is twice in a labeled bin.  The code relies on the filters for it: HasSpace asks them
\* before it inserts.
NoFeltTwice ==
  \A i \in BundleIdxs : \A bundle \in Bundles(i) :
    bundle.label_size > 0 /\ ~bundle.stripped =>
      \A bin \in Bins : IsInjective(bundle.item_bins[bin])

\* The cache that get_cache hands out is that of the present bins, whatever calls have built the
\* database and however they ended: its matching polynomials are zero at the felts stored and
\* nowhere else in the field, and its interpolation polynomials take their labels there, as long as
\* no felt is twice in a labeled bin.  In an unlabeled database nothing is asked of the bins.
THEOREM CachesRight ==
  ASSUME PowersOfTwo, InversesRight
  PROVE  Spec => [](NoFeltTwice => CachesMatchBins)
<1>1. ASSUME DBInv, NoFeltTwice PROVE CachesMatchBins
  <2> SUFFICES ASSUME NEW i \in BundleIdxs, NEW bundle \in Bundles(i), ~bundle.cache_invalid,
                      ~bundle.stripped, NEW bin \in Bins
               PROVE  LET items == bundle.item_bins[bin]
                          labels(l) == bundle.label_bins[l][bin]
                          column == [d \in DOMAIN bundle.cache.batched_matching |->
                                      bundle.cache.batched_matching[d][bin]]
                      IN  /\ \A x \in Felt : (ValueAt(column, x) = 0) <=> x \in ToSet(items)
                          /\ \A l \in 1..bundle.label_size :
                               /\ ~CannotInterpolate(items, labels(l))
                               /\ \A n \in DOMAIN items :
                                    ValueAt(bundle.cache.interp[l][bin], items[n]) = labels(l)[n]
    BY DEF CachesMatchBins
  <2>1. stripped \in BOOLEAN /\ Sound(bundle, label_size, stripped, FALSE)
    BY <1>1, BundleSound DEF DBInv
  <2>4. Sound(bundle, label_size, FALSE, FALSE) /\ bundle.label_size = label_size
    <3>1. bundle.stripped = stripped /\ bundle.label_size = label_size BY <2>1 DEF Sound
    <3>2. stripped = FALSE BY <2>1, <3>1
    <3> QED BY <2>1, <3>1, <3>2
  <2>5. label_size > 0 => IsInjective(bundle.item_bins[bin]) BY <1>1, <2>4 DEF NoFeltTwice
  <2> QED BY <2>4, <2>5, CacheOfBin
<1> QED BY <1>1, DatabaseSound, PTL

-----------------------------------------------------------------------------
(* The filters find what the bins hold. *)

\* Through insertions, evictions, removals, save and Load, the filter of a bin has a tag for every
\* felt in it, or its count is behind: only where no filter has refused a felt can the count and
\* the bin agree, and then no felt is missed.
THEOREM FiltersRight ==
  ASSUME PowersOfTwo, BucketsPaired
  PROVE  Spec => [](NoneRefused => FilterFindsAll)
<1>1. ASSUME DBInv, NoneRefused PROVE FilterFindsAll
  <2> SUFFICES ASSUME NEW i \in BundleIdxs, NEW bundle \in Bundles(i),
                      NEW b \in DOMAIN bundle.item_bins, NEW x \in ToSet(bundle.item_bins[b])
               PROVE  FilterContains(bundle.filters[b], x)
    BY DEF FilterFindsAll
  <2>1. stripped \in BOOLEAN /\ Sound(bundle, label_size, stripped, FALSE)
    BY <1>1, BundleSound DEF DBInv
  <2>2. ~stripped
    <3> SUFFICES ASSUME stripped PROVE FALSE OBVIOUS
    <3>1. bundle.item_bins = <<>> BY <2>1 DEF Sound, CacheLeft
    <3> QED BY <3>1
  <2>3. Filled(bundle) /\ Filtered(bundle, FALSE) BY <2>1, <2>2 DEF Sound
  <2>4. PICK f, bin : f = bundle.filters[b] /\ bin = bundle.item_bins[b] OBVIOUS
  <2>5. b \in Bins /\ Listing(bin) BY <2>3, <2>4 DEF Filled
  <2>6. FilterRight(f, bin) BY <2>3, <2>4, <2>5 DEF Filtered
  <2>7. f.num_items = Len(bin) BY <1>1, <2>4 DEF NoneRefused
  <2>8. IsFilter(f) /\ Kept(f, bin) BY <2>6, <2>7 DEF FilterRight
  <2>9. PICK j \in 1..Len(bin) : x = bin[j]
    <3>1. DOMAIN bin = 1..Len(bin) BY <2>5, ListingSeq
    <3> QED BY <2>4, <3>1 DEF ToSet
  <2> QED BY <2>4, <2>8, <2>9, KeptFound
<1> QED BY <1>1, DatabaseSound, PTL

\* As long as no filter refuses a felt, no felt is twice in a labeled bin.  A felt that was refused
\* is not seen by HasSpace the next time, and is put in once more.
THEOREM NoneTwice ==
  ASSUME PowersOfTwo, BucketsPaired
  PROVE  Spec /\ []NoneRefused => []NoFeltTwice
<1>1. Keeps(TRUE) /\ NoneRefused /\ [Next]_vars => Keeps(TRUE)' BY KeepsStep
<1>2. Init => Keeps(TRUE) BY InitDB
<1>3. ASSUME Keeps(TRUE), NoneRefused PROVE NoFeltTwice
  <2> SUFFICES ASSUME NEW i \in BundleIdxs, NEW bundle \in Bundles(i), bundle.label_size > 0,
                      ~bundle.stripped, NEW b \in Bins
               PROVE  IsInjective(bundle.item_bins[b])
    BY DEF NoFeltTwice
  <2>1. Sound(bundle, label_size, stripped, TRUE) BY <1>3, BundleSound
  <2>2. Filled(bundle) /\ Filtered(bundle, TRUE) BY <2>1 DEF Sound
  <2>3. DOMAIN bundle.item_bins = Bins BY <2>2 DEF Filled
  <2>4. bundle.filters[b].num_items = Len(bundle.item_bins[b]) BY <1>3, <2>3 DEF NoneRefused
  <2> QED BY <2>2, <2>4 DEF Filtered
<1> QED BY <1>1, <1>2, <1>3, PTL DEF Spec

\* The two together: where no filter refuses a felt every valid cache is right.
THEOREM CachesStayRight ==
  ASSUME PowersOfTwo, BucketsPaired, InversesRight
  PROVE  Spec /\ []NoneRefused => []CachesMatchBins
<1>1. Spec /\ []NoneRefused => []NoFeltTwice BY NoneTwice
<1>2. Spec => [](NoFeltTwice => CachesMatchBins) BY CachesRight
<1> QED BY <1>1, <1>2, PTL

-----------------------------------------------------------------------------
(* The item count. *)

CountInv == IsFiniteSet(hashed_items) /\ CountRight

\* The items at the first places of a batch.
LEMMA ItemsSoFar ==
  ASSUME NEW data, NEW k \in Nat
  PROVE  /\ Earlier(data, 1) = {} /\ Earlier(data, k + 1) = {data[j].item : j \in 1..k}
         /\ k # 0 => Earlier(data, k + 1) = Earlier(data, k) \cup {data[k].item}
         /\ Listing(data) /\ k = Len(data) => Earlier(data, k + 1) = ItemsOf(data)
<1>1. (k + 1) - 1 = k /\ 1 - 1 = 0 OBVIOUS
<1>2. Earlier(data, k + 1) = {data[j].item : j \in 1..k} BY <1>1 DEF Earlier
<1>3. Earlier(data, 1) = {}
  <2>1. 1..(1 - 1) = {} OBVIOUS
  <2> QED BY <2>1 DEF Earlier
<1>4. ASSUME k # 0 PROVE Earlier(data, k + 1) = Earlier(data, k) \cup {data[k].item}
  <2>1. \A j : j \in 1..k <=> j \in 1..(k - 1) \/ j = k BY <1>4
  <2> QED BY <1>2, <2>1 DEF Earlier
<1>5. ASSUME Listing(data), k = Len(data) PROVE Earlier(data, k + 1) = ItemsOf(data)
  <2>1. DOMAIN data = 1..k BY <1>5, ListingSeq
  <2> QED BY <1>2, <2>1 DEF ItemsOf
<1> QED BY <1>2, <1>3, <1>4, <1>5

\* One rule for the sequence that keeps the elements at some places: it is as long as a number that
\* goes up by one at each of them.
LEMMA KeptLength ==
  ASSUME NEW data, Listing(data), NEW places, NEW size,
         size[0] = 0,
         \A k \in 0..(Len(data) - 1) :
           size[k] \in Int => size[k + 1] = IF k + 1 \in places THEN size[k] + 1 ELSE size[k]
  PROVE  Len(KeptAt(data, places)) = size[Len(data)] /\ size[Len(data)] \in Nat
<1> DEFINE n == Len(data)
<1>0. n \in Nat BY DEF Listing
<1>1. PICK g : /\ g[0] = <<>> /\ g[n] = KeptAt(data, places)
               /\ \A k \in 0..(n - 1) :
                    g[k + 1] = IF k + 1 \in places THEN Append(g[k], data[k + 1]) ELSE g[k]
  BY KeptRounds
<1> DEFINE T == {k \in Nat : k <= n => Listing(g[k]) /\ Len(g[k]) = size[k] /\ size[k] \in Nat}
<1>2. 0 \in T
  <2>1. Listing(<<>>) /\ Len(<<>>) = 0 BY DEF Listing
  <2> QED BY <1>1, <2>1
<1>3. ASSUME NEW k \in T PROVE k + 1 \in T
  <2> SUFFICES ASSUME k + 1 <= n
               PROVE  Listing(g[k + 1]) /\ Len(g[k + 1]) = size[k + 1] /\ size[k + 1] \in Nat
    OBVIOUS
  <2>1. k \in 0..(n - 1) BY <1>0
  <2>2. Listing(g[k]) /\ Len(g[k]) = size[k] /\ size[k] \in Nat BY <2>1
  <2>3. size[k + 1] = IF k + 1 \in places THEN size[k] + 1 ELSE size[k] BY <2>1, <2>2
  <2>4. g[k + 1] = IF k + 1 \in places THEN Append(g[k], data[k + 1]) ELSE g[k] BY <1>1, <2>1
  <2>5. PICK c, s : c = g[k] /\ s = Append(c, data[k + 1]) OBVIOUS
  <2>6. Listing(s) /\ Len(s) = Len(c) + 1 BY <2>2, <2>5, ListingAppend
  <2> QED BY <2>2, <2>3, <2>4, <2>5, <2>6
<1> HIDE DEF T
<1>4. T = Nat
  <2>1. T \in SUBSET Nat BY DEF T
  <2> QED BY <2>1, <1>2, <1>3, InductionOnNat
<1>5. n \in T BY <1>0, <1>4
<1> QED BY <1>1, <1>5 DEF T

\* insert_or_assign counts an item when it records it, once, however often the batch has it.
LEMMA CountsInserted ==
  ASSUME NEW data, Listing(data), NEW items, IsFiniteSet(items),
         NEW known, known = {k \in DOMAIN data : data[k].item \in items \cup Earlier(data, k)}
  PROVE  /\ IsFiniteSet(items \cup ItemsOf(data))
         /\ Cardinality(items \cup ItemsOf(data)) =
              Cardinality(items) + Len(RemoveIf(data, known).kept)
<1> DEFINE n == Len(data)
           seen(k) == items \cup Earlier(data, k + 1)
           size == [k \in 0..n |-> Cardinality(seen(k)) - Cardinality(items)]
           T == {k \in Nat : k <= n => IsFiniteSet(seen(k))}
<1>0. n \in Nat /\ DOMAIN data = 1..n BY ListingSeq DEF Listing
<1>1. seen(0) = items
  <2>1. 0 + 1 = 1 OBVIOUS
  <2> QED BY <2>1, ItemsSoFar
<1>2. ASSUME NEW k \in Nat PROVE seen(k + 1) = seen(k) \cup {data[k + 1].item}
  <2>1. k + 1 \in Nat /\ k + 1 # 0 OBVIOUS
  <2> QED BY <2>1, ItemsSoFar
<1>3. T = Nat
  <2>1. 0 \in T BY <1>1
  <2>2. ASSUME NEW k \in T PROVE k + 1 \in T
    <3> SUFFICES ASSUME k + 1 <= n PROVE IsFiniteSet(seen(k + 1)) OBVIOUS
    <3>1. IsFiniteSet(seen(k)) BY <1>0
    <3>2. PICK S, x : S = seen(k) /\ x = data[k + 1].item OBVIOUS
    <3>3. IsFiniteSet(S) /\ seen(k + 1) = S \cup {x}
      <4> HIDE DEF seen
      <4> QED BY <1>2, <3>1, <3>2
    <3>4. IsFiniteSet(S \cup {x}) BY <3>3, FS_AddElement
    <3> HIDE DEF seen
    <3> QED BY <3>3, <3>4
  <2>3. T \in SUBSET Nat OBVIOUS
  <2> HIDE DEF T
  <2> QED BY <2>1, <2>2, <2>3, InductionOnNat
<1>4. ASSUME NEW k \in 0..(n - 1)
      PROVE  size[k + 1] = IF k + 1 \in DOMAIN data \ known THEN size[k] + 1 ELSE size[k]
  <2>1. k \in Nat /\ k \in 0..n /\ k + 1 \in 0..n /\ k + 1 \in DOMAIN data BY <1>0
  <2>2. PICK S, x : S = seen(k) /\ x = data[k + 1].item OBVIOUS
  <2>3. IsFiniteSet(S) /\ seen(k + 1) = S \cup {x}
    <3>1. k <= n /\ k \in T BY <2>1, <1>0, <1>3
    <3> QED BY <1>2, <2>1, <2>2, <3>1
  <2>4. k + 1 \in DOMAIN data \ known <=> x \notin S BY <2>1, <2>2
  <2>5. Cardinality(seen(k + 1)) = IF x \in S THEN Cardinality(S) ELSE Cardinality(S) + 1
    BY <2>3, FS_AddElement
  <2>6. Cardinality(S) \in Int /\ Cardinality(items) \in Int BY <2>3, FS_CardinalityType
  <2>7. /\ size[k] = Cardinality(S) - Cardinality(items)
        /\ size[k + 1] = Cardinality(seen(k + 1)) - Cardinality(items)
    BY <2>1, <2>2
  <2> HIDE DEF size, seen
  <2> QED BY <2>4, <2>5, <2>6, <2>7
<1>5. size[0] = 0
  <2>1. Cardinality(items) \in Int BY FS_CardinalityType
  <2>2. size[0] = Cardinality(seen(0)) - Cardinality(items) BY <1>0
  <2> HIDE DEF size, seen
  <2> QED BY <1>1, <2>1, <2>2
<1>6. n \in 0..n /\ n \in T /\ seen(n) = items \cup ItemsOf(data)
  <2>1. n \in 0..n BY <1>0
  <2>2. n \in T
    <3> HIDE DEF T
    <3> QED BY <1>0, <1>3
  <2> QED BY <1>0, <2>1, <2>2, ItemsSoFar
<1>7. size[n] = Cardinality(items \cup ItemsOf(data)) - Cardinality(items) BY <1>6
<1>8. IsFiniteSet(items \cup ItemsOf(data))
  <2>1. IsFiniteSet(seen(n)) BY <1>0, <1>6
  <2> HIDE DEF seen
  <2> QED BY <1>6, <2>1
<1> HIDE DEF size, T, seen
<1>9. Len(KeptAt(data, DOMAIN data \ known)) = size[n] BY <1>4, <1>5, KeptLength
<1>10. RemoveIf(data, known).kept = KeptAt(data, DOMAIN data \ known) BY DEF RemoveIf
<1>11. Cardinality(items) \in Int /\ Cardinality(items \cup ItemsOf(data)) \in Int
  BY <1>8, FS_CardinalityType
<1> QED BY <1>7, <1>8, <1>9, <1>10, <1>11

\* remove counts an item when it forgets it, once, however often the batch has it.
LEMMA CountsRemoved ==
  ASSUME NEW data, Listing(data), NEW items, IsFiniteSet(items),
         NEW unknown,
         unknown = {k \in DOMAIN data : data[k].item \notin items \/ data[k].item \in Earlier(data, k)}
  PROVE  /\ IsFiniteSet(items \ ItemsOf(data))
         /\ Cardinality(items \ ItemsOf(data)) =
              Cardinality(items) - Len(RemoveIf(data, unknown).kept)
<1> DEFINE n == Len(data)
           left(k) == items \ Earlier(data, k + 1)
           size == [k \in 0..n |-> Cardinality(items) - Cardinality(left(k))]
           T == {k \in Nat : k <= n => IsFiniteSet(left(k))}
<1>0. n \in Nat /\ DOMAIN data = 1..n BY ListingSeq DEF Listing
<1>1. left(0) = items
  <2>1. 0 + 1 = 1 OBVIOUS
  <2> QED BY <2>1, ItemsSoFar
<1>2. ASSUME NEW k \in Nat PROVE left(k + 1) = left(k) \ {data[k + 1].item}
  <2>1. k + 1 \in Nat /\ k + 1 # 0 OBVIOUS
  <2> QED BY <2>1, ItemsSoFar
<1>3. T = Nat
  <2>1. 0 \in T BY <1>1
  <2>2. ASSUME NEW k \in T PROVE k + 1 \in T
    <3> SUFFICES ASSUME k + 1 <= n PROVE IsFiniteSet(left(k + 1)) OBVIOUS
    <3>1. IsFiniteSet(left(k)) BY <1>0
    <3>2. PICK S, x : S = left(k) /\ x = data[k + 1].item OBVIOUS
    <3>3. IsFiniteSet(S) /\ left(k + 1) = S \ {x}
      <4> HIDE DEF left
      <4> QED BY <1>2, <3>1, <3>2
    <3>4. IsFiniteSet(S \ {x}) BY <3>3, FS_RemoveElement
    <3> HIDE DEF left
    <3> QED BY <3>3, <3>4
  <2>3. T \in SUBSET Nat OBVIOUS
  <2> HIDE DEF T
  <2> QED BY <2>1, <2>2, <2>3, InductionOnNat
<1>4. ASSUME NEW k \in 0..(n - 1)
      PROVE  size[k + 1] = IF k + 1 \in DOMAIN data \ unknown THEN size[k] + 1 ELSE size[k]
  <2>1. k \in Nat /\ k \in 0..n /\ k + 1 \in 0..n /\ k + 1 \in DOMAIN data BY <1>0
  <2>2. PICK S, x : S = left(k) /\ x = data[k + 1].item OBVIOUS
  <2>3. IsFiniteSet(S) /\ left(k + 1) = S \ {x}
    <3>1. k <= n /\ k \in T BY <2>1, <1>0, <1>3
    <3> QED BY <1>2, <2>1, <2>2, <3>1
  <2>4. k + 1 \in DOMAIN data \ unknown <=> x \in S BY <2>1, <2>2
  <2>5. Cardinality(left(k + 1)) = IF x \in S THEN Cardinality(S) - 1 ELSE Cardinality(S)
    BY <2>3, FS_RemoveElement
  <2>6. Cardinality(S) \in Int /\ Cardinality(items) \in Int BY <2>3, FS_CardinalityType
  <2>7. /\ size[k] = Cardinality(items) - Cardinality(S)
        /\ size[k + 1] = Cardinality(items) - Cardinality(left(k + 1))
    BY <2>1, <2>2
  <2> HIDE DEF size, left
  <2> QED BY <2>4, <2>5, <2>6, <2>7
<1>5. size[0] = 0
  <2>1. Cardinality(items) \in Int BY FS_CardinalityType
  <2>2. size[0] = Cardinality(items) - Cardinality(left(0)) BY <1>0
  <2> HIDE DEF size, left
  <2> QED BY <1>1, <2>1, <2>2
<1>6. n \in 0..n /\ n \in T /\ left(n) = items \ ItemsOf(data)
  <2>1. n \in 0..n BY <1>0
  <2>2. n \in T
    <3> HIDE DEF T
    <3> QED BY <1>0, <1>3
  <2> QED BY <1>0, <2>1, <2>2, ItemsSoFar
<1>7. size[n] = Cardinality(items) - Cardinality(items \ ItemsOf(data)) BY <1>6
<1>8. IsFiniteSet(items \ ItemsOf(data))
  <2>1. IsFiniteSet(left(n)) BY <1>0, <1>6
  <2> HIDE DEF left
  <2> QED BY <1>6, <2>1
<1> HIDE DEF size, T, left
<1>9. Len(KeptAt(data, DOMAIN data \ unknown)) = size[n] BY <1>4, <1>5, KeptLength
<1>10. RemoveIf(data, unknown).kept = KeptAt(data, DOMAIN data \ unknown) BY DEF RemoveIf
<1>11. Cardinality(items) \in Int /\ Cardinality(items \ ItemsOf(data)) \in Int
  BY <1>8, FS_CardinalityType
<1> QED BY <1>7, <1>8, <1>9, <1>10, <1>11

\* The count is that of the items, whatever the owner calls, repeats within a batch or across
\* batches, and however the calls end: the check that Load makes never refuses what save wrote.
THEOREM CountsItems == Spec => []CountRight
<1>1. Init => CountInv BY FS_EmptySet DEF Init, CountInv, CountRight
<1>2. CountInv /\ [Next]_vars => CountInv'
  <2> SUFFICES ASSUME CountInv, [Next]_vars PROVE CountInv' OBVIOUS
  <2> USE DEF CountInv, CountRight
  <2>1. ASSUME NEW data \in Datas, BeginInsert(data) PROVE CountInv'
    <3> DEFINE known == {k \in DOMAIN data : data[k].item \in hashed_items \cup Earlier(data, k)}
    <3>1. Listing(data) BY DatasTyped DEF Known
    <3>2. /\ ~stripped /\ hashed_items' = hashed_items \cup ItemsOf(data)
          /\ item_count' = item_count + Len(RemoveIf(data, known).kept)
      BY <2>1 DEF BeginInsert
    <3> HIDE DEF known
    <3>3. /\ IsFiniteSet(hashed_items \cup ItemsOf(data))
          /\ Cardinality(hashed_items \cup ItemsOf(data)) =
               Cardinality(hashed_items) + Len(RemoveIf(data, known).kept)
      BY <3>1, CountsInserted DEF known
    <3> QED BY <3>2, <3>3
  <2>2. ASSUME NEW data \in Removals, BeginRemove(data) PROVE CountInv'
    <3> DEFINE unknown == {k \in DOMAIN data :
                            data[k].item \notin hashed_items \/ data[k].item \in Earlier(data, k)}
    <3>1. Listing(data) BY RemovalsTyped DEF Known
    <3>2. /\ ~stripped /\ hashed_items' = hashed_items \ ItemsOf(data)
          /\ item_count' = item_count - Len(RemoveIf(data, unknown).kept)
      BY <2>2 DEF BeginRemove
    <3> HIDE DEF unknown
    <3>3. /\ IsFiniteSet(hashed_items \ ItemsOf(data))
          /\ Cardinality(hashed_items \ ItemsOf(data)) =
               Cardinality(hashed_items) - Len(RemoveIf(data, unknown).kept)
      BY <3>1, CountsRemoved DEF unknown
    <3> QED BY <3>2, <3>3
  <2>3. ASSUME Strip \/ Clear PROVE CountInv' BY <2>3, FS_EmptySet DEF Strip, Clear
  <2>4. ASSUME UNCHANGED <<hashed_items, item_count, stripped>> PROVE CountInv' BY <2>4
  <2>5. CASE SaveAndLoad BY <2>4, <2>5 DEF SaveAndLoad
  <2>6. CASE Overwrite BY <2>4, <2>6 DEF Overwrite, After
  <2>7. CASE FinishCall BY <2>4, <2>7 DEF FinishCall
  <2>8. CASE QueryStarts \/ QueryCollects
    BY <2>4, <2>8 DEF QueryStarts, QueryCollects, dbVars
  <2>9. CASE UNCHANGED vars BY <2>4, <2>9 DEF vars
  <2>10. ASSUME NEW session \in Sessions, Insert(session) PROVE CountInv'
    BY <2>4, <2>10 DEF Insert, After
  <2>11. ASSUME NEW session \in Sessions, Remove_(session) PROVE CountInv'
    BY <2>4, <2>11 DEF Remove_, After
  <2> QED BY <2>1, <2>2, <2>3, <2>5, <2>6, <2>7, <2>8, <2>9, <2>10, <2>11 DEF Next
<1> QED BY <1>1, <1>2, PTL DEF Spec, CountInv
=============================================================================
