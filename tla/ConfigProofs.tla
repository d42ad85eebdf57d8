---------------------------- MODULE ConfigProofs ----------------------------
(***************************************************************************)
(* Proofs about ConfigLoader, for every set of lines, fields and defaults: *)
(* a file indented by two blanks loads as its indentation shows, and a     *)
(* load that fails leaves the caller's configuration alone.                *)
(***************************************************************************)
EXTENDS ConfigLoader, FiniteSetTheorems, TLAPS

\* The sections that a next line, if it is indented enough, is in.
StillOpen ==
    {j \in Meaningful :
        /\ file[j].kind = "section"
        /\ \A k \in Meaningful : j < k => file[k].spaces > file[j].spaces}

\* The stack holds the keys of the sections that are open, outermost first, pos giving
\* their lines, and the e-th of them is indented e - 1 times.
OpenAt(pos) ==
    /\ \A j \in StillOpen : \E e \in 1 .. Len(stack) : pos[e] = j
    /\ \A e, f \in 1 .. Len(stack) : e < f => pos[e] < pos[f]
    /\ \A e \in 1 .. Len(stack) :
        /\ pos[e] \in StillOpen
        /\ stack[e] = file[pos[e]].key
        /\ file[pos[e]].spaces = 2 * (e - 1)

StackShown == \E pos \in [1 .. Len(stack) -> DOMAIN file] : OpenAt(pos)

\* The map holds, for each path the indentation shows, the value of its first pair.
MapShown ==
    /\ \A e \in kv : \E i \in ShownPairs(e.path) :
        /\ \A j \in ShownPairs(e.path) : i <= j
        /\ e.value = file[i].value
    /\ \A i \in Meaningful : file[i].kind = "pair" => ShownPath(i) \in Paths

\* What a field has been set to.
FieldsShown ==
    /\ DOMAIN cfg = DOMAIN Fields
    /\ \A f \in DOMAIN Fields :
        IF f < next THEN Said(f).ok /\ cfg[f] = Said(f).value ELSE cfg[f] = Defaults[f]

\* pos lists the m elements of a set of line numbers in increasing order.
Listing(pos, m, S) ==
    /\ pos \in [1 .. m -> S]
    /\ \A j \in S : \E e \in 1 .. m : pos[e] = j
    /\ \A e, f \in 1 .. m : e < f => pos[e] < pos[f]

\* The sections around each line can be listed.
Enumerated ==
    \A i \in Meaningful :
        \E m \in Nat : \E pos : Listing(pos, m, Enclosing(i))

\* What a load keeps, the shown parts as far as the file is indented by two blanks.
LoadInv ==
    /\ file \in Seq(Lines)
    /\ stack \in Seq(Seq(STRING))
    /\ next \in 1 .. Len(Fields) + 1
    /\ phase = "parse" => next = 1 /\ cfg = Defaults
    /\ phase # "ok" => out = Previous
    /\ phase = "ok" => out = cfg /\ next = Len(Fields) + 1
    /\ Indented(2) =>
        /\ Enumerated
        /\ phase = "parse" => StackShown
        /\ phase \in {"parse", "set", "ok"} => MapShown /\ FieldsShown
        /\ phase = "failed" => \E f \in DOMAIN Fields : ~Said(f).ok

-----------------------------------------------------------------------------
\* A listing is as long as its set is large.
LEMMA ListingCounts ==
  ASSUME NEW m \in Nat, NEW S \in SUBSET Nat, NEW pos, Listing(pos, m, S)
  PROVE  IsFiniteSet(S) /\ Cardinality(S) = m
<1>1. IsFiniteSet(1 .. m) /\ Cardinality(1 .. m) = m
  BY FS_Interval
<1>2. pos \in Bijection(1 .. m, S)
  <2>1. pos \in [1 .. m -> S] /\ \A j \in S : \E e \in 1 .. m : pos[e] = j
    BY DEF Listing
  <2>2. ASSUME NEW e \in 1 .. m, NEW f \in 1 .. m, pos[e] = pos[f] PROVE e = f
    <3>1. pos[e] \in Nat /\ (e < f => pos[e] < pos[f]) /\ (f < e => pos[f] < pos[e])
      BY <2>1 DEF Listing
    <3> QED
      BY <2>2, <3>1
  <2> QED
    BY <2>1, <2>2 DEF Bijection, Injection, Surjection, IsInjective
<1>3. ExistsBijection(1 .. m, S)
  BY <1>2 DEF ExistsBijection
<1> QED
  BY <1>1, <1>3, FS_Bijection, FS_CountingElements

\* The e-th smallest element is the e-th of the listing.
LEMMA ListingNth ==
  ASSUME NEW m \in Nat, NEW S \in SUBSET Nat, NEW pos, Listing(pos, m, S),
         NEW e \in 1 .. m
  PROVE  Nth(S, e) = pos[e]
<1> DEFINE Below(f) == {k \in S : k < pos[f]}
<1>1. ASSUME NEW f \in 1 .. m PROVE Cardinality(Below(f)) = f - 1
  <2> DEFINE first == [g \in 1 .. f - 1 |-> pos[g]]
  <2>1. f \in Nat /\ f - 1 \in Nat /\ f \in 1 .. m
    BY <1>1
  <2>2. Below(f) \in SUBSET Nat
    BY DEF Below
  <2>3. ASSUME NEW g \in 1 .. f - 1 PROVE first[g] \in Below(f) /\ first[g] = pos[g]
    BY <2>1, <2>3 DEF Listing
  <2>4. ASSUME NEW j \in Below(f) PROVE \E g \in 1 .. f - 1 : first[g] = j
    <3>1. PICK g \in 1 .. m : pos[g] = j
      BY DEF Listing
    <3>2. pos[g] < pos[f] /\ pos[g] \in Nat /\ pos[f] \in Nat
      BY <2>1, <3>1 DEF Listing
    <3>3. f <= g => f = g \/ pos[f] < pos[g]
      BY <2>1, <3>1 DEF Listing
    <3>4. g < f
      BY <2>1, <3>2, <3>3
    <3> QED
      BY <2>1, <3>1, <3>4
  <2>5. Listing(first, f - 1, Below(f))
    BY <2>3, <2>4 DEF Listing
  <2> HIDE DEF first, Below
  <2> QED
    BY <2>1, <2>5, <2>2, ListingCounts
<1>2. pos[e] \in S
  BY DEF Listing
<1>3. ASSUME NEW j \in S, Cardinality({k \in S : k < j}) = e - 1 PROVE j = pos[e]
  <2>1. PICK f \in 1 .. m : pos[f] = j
    BY DEF Listing
  <2>2. Cardinality(Below(f)) = e - 1
    BY <1>3, <2>1
  <2> QED
    BY <1>1, <2>1, <2>2
<1>4. Cardinality({k \in S : k < pos[e]}) = e - 1
  BY <1>1
<1> QED
  BY <1>2, <1>3, <1>4 DEF Nth

-----------------------------------------------------------------------------
\* A line is read.

LEMMA LineFacts ==
  ASSUME NEW l \in Lines
  PROVE  /\ l.spaces \in Nat
         /\ l.kind = "section" => ~Skipped(l) /\ l.key \in Seq(STRING)
         /\ l.kind = "pair" => ~Skipped(l) /\ l.key \in Seq(STRING)
         /\ ~Skipped(l) => l.kind \in {"section", "pair"}
  BY LoaderAssumption DEF Line, Skipped

LEMMA FileFacts ==
  ASSUME file \in Seq(Lines)
  PROVE  /\ Len(file) \in Nat /\ DOMAIN file = 1 .. Len(file)
         /\ \A i \in 1 .. Len(file) : file[i] \in Lines /\ file[i].spaces \in Nat
         /\ Meaningful \subseteq 1 .. Len(file)
         /\ \A i \in Meaningful : Enclosing(i) \subseteq Meaningful \cap (1 .. i - 1)
<1>1. /\ Len(file) \in Nat /\ DOMAIN file = 1 .. Len(file)
      /\ \A i \in 1 .. Len(file) : file[i] \in Lines /\ file[i].spaces \in Nat
  BY LineFacts
<1>2. Meaningful \subseteq 1 .. Len(file)
  BY <1>1 DEF Meaningful
<1>3. ASSUME NEW i \in Meaningful, NEW j \in Enclosing(i)
      PROVE  j \in Meaningful \cap (1 .. i - 1)
  BY <1>1, <1>2 DEF Enclosing, Encloses
<1> QED
  BY <1>1, <1>2, <1>3

LEMMA OpenFacts ==
  ASSUME file \in Seq(Lines)
  PROVE  StillOpen \subseteq Meaningful /\ StillOpen \in SUBSET Nat
<1>1. StillOpen \subseteq Meaningful
  BY DEF StillOpen
<1>2. Len(file) \in Nat /\ Meaningful \subseteq 1 .. Len(file)
  BY FileFacts
<1>3. 1 .. Len(file) \subseteq Nat
  BY <1>2
<1> QED
  BY <1>1, <1>2, <1>3

\* Reading l leaves the lines before it and the sections around them what they are.
Reading(l) == file \in Seq(Lines) /\ l \in Lines /\ file' = Append(file, l)

LEMMA LineIsAdded ==
  ASSUME NEW l, Reading(l)
  PROVE  /\ file' \in Seq(Lines) /\ Len(file') = Len(file) + 1
         /\ file'[Len(file) + 1] = l
         /\ \A i \in 1 .. Len(file) : file'[i] = file[i]
         /\ Meaningful' = Meaningful \cup (IF Skipped(l) THEN {} ELSE {Len(file) + 1})
<1>1. /\ file' \in Seq(Lines) /\ Len(file') = Len(file) + 1
      /\ file'[Len(file) + 1] = l
      /\ \A i \in 1 .. Len(file) : file'[i] = file[i]
  BY DEF Reading
<1>2. DOMAIN file' = 1 .. Len(file) + 1 /\ DOMAIN file = 1 .. Len(file) /\ Len(file) \in Nat
  BY <1>1 DEF Reading
<1> QED
  BY <1>1, <1>2 DEF Meaningful

LEMMA OldLinesKeepSections ==
  ASSUME NEW l, Reading(l), NEW i \in Meaningful
  PROVE  Enclosing(i)' = Enclosing(i)
<1>1. PICK n \in Nat : n = Len(file)
  BY FileFacts DEF Reading
<1>2. i \in 1 .. n /\ Meaningful \subseteq 1 .. n
  BY <1>1, FileFacts DEF Reading
<1>3. /\ Meaningful \subseteq Meaningful' /\ Meaningful' \subseteq Meaningful \cup {n + 1}
      /\ \A j \in Meaningful : file'[j] = file[j]
  BY <1>1, <1>2, LineIsAdded
<1>4. ASSUME NEW j \in Meaningful PROVE Encloses(j, i)' <=> Encloses(j, i)
  <2>1. \A k \in Meaningful' : k <= i => k \in Meaningful
    BY <1>2, <1>3
  <2> QED
    BY <1>3, <2>1 DEF Encloses
<1>5. ~Encloses(n + 1, i)'
  BY <1>2 DEF Encloses
<1> QED
  BY <1>3, <1>4, <1>5 DEF Enclosing

\* Nor does a later line change the path an earlier one shows.
LEMMA OldLinesKeepPaths ==
  ASSUME NEW l, Reading(l), Enumerated, NEW i \in Meaningful
  PROVE  ShownPath(i)' = ShownPath(i)
<1> DEFINE S == Enclosing(i)
<1>6. PICK m \in Nat : \E pos : Listing(pos, m, S)
  BY DEF Enumerated
<1>1. PICK pos : Listing(pos, m, S)
  BY <1>6
<1>2. m \in Nat /\ S \in SUBSET Nat /\ S \subseteq 1 .. Len(file) /\ i \in 1 .. Len(file)
  BY FileFacts DEF Reading
<1>3. Cardinality(S) = m /\ \A e \in 1 .. m : Nth(S, e) \in 1 .. Len(file)
  <2> HIDE DEF S
  <2>1. \A e \in 1 .. m : Nth(S, e) = pos[e] /\ pos[e] \in S
    BY <1>1, <1>2, ListingNth DEF Listing
  <2> QED
    BY <1>1, <1>2, <2>1, ListingCounts
<1>4. [e \in 1 .. Cardinality(S) |-> file'[Nth(S, e)].key]
        = [e \in 1 .. Cardinality(S) |-> file[Nth(S, e)].key]
  BY <1>3, LineIsAdded
<1>5. file'[i] = file[i] /\ Enclosing(i)' = S
  BY <1>2, LineIsAdded, OldLinesKeepSections
<1>7. ShownPath(i) = FlattenSeq([e \in 1 .. Cardinality(S) |-> file[Nth(S, e)].key]) \o file[i].key
  BY DEF ShownPath
<1> HIDE DEF S
<1>8. ShownPath(i)'
        = FlattenSeq([e \in 1 .. Cardinality(S) |-> file'[Nth(S, e)].key]) \o file'[i].key
  BY <1>5 DEF ShownPath, Nth
<1> QED
  BY <1>4, <1>5, <1>7, <1>8

\* Indentation is judged line by line.
LEMMA IndentedBefore ==
  ASSUME NEW l, Reading(l), Indented(2)'
  PROVE  Indented(2)
<1> SUFFICES ASSUME NEW i \in Meaningful
             PROVE  file[i].spaces = 2 * Cardinality(Enclosing(i))
  BY DEF Indented
<1>1. i \in Meaningful' /\ file'[i] = file[i]
  BY LineIsAdded, FileFacts DEF Reading
<1>2. file'[i].spaces = 2 * Cardinality(Enclosing(i)')
  BY <1>1 DEF Indented
<1> QED
  BY <1>1, <1>2, OldLinesKeepSections

LEMMA SkippedLineOpensNothing ==
  ASSUME NEW l, Reading(l), Skipped(l)
  PROVE  Meaningful' = Meaningful /\ StillOpen' = StillOpen
<1>1. Meaningful' = Meaningful /\ \A j \in Meaningful : file'[j] = file[j]
  BY LineIsAdded, FileFacts DEF Reading
<1> QED
  BY <1>1 DEF StillOpen

\* A line is in the open sections that are indented less, and the others are closed.
LEMMA SectionsOfNewLine ==
  ASSUME NEW l, Reading(l), ~Skipped(l), NEW n \in Nat, n = Len(file)
  PROVE  LET around == {j \in StillOpen : file[j].spaces < l.spaces}
         IN /\ Enclosing(n + 1)' = around
            /\ StillOpen' = around \cup (IF l.kind = "section" THEN {n + 1} ELSE {})
<1> DEFINE around == {j \in StillOpen : file[j].spaces < l.spaces}
<1>1. /\ Meaningful \subseteq 1 .. n
      /\ \A j \in Meaningful : file[j].spaces \in Nat
  BY FileFacts DEF Reading
<1>2. /\ Meaningful' = Meaningful \cup {n + 1} /\ file'[n + 1] = l
      /\ \A j \in Meaningful : file'[j] = file[j]
  BY <1>1, LineIsAdded
<1>3. l.spaces \in Nat
  BY LineFacts DEF Reading
<1>4. ASSUME NEW j \in Meaningful PROVE Encloses(j, n + 1)' <=> j \in around
  <2>1. Encloses(j, n + 1)' <=>
            /\ file[j].kind = "section"
            /\ \A k \in Meaningful : j < k => file[k].spaces > file[j].spaces
            /\ l.spaces > file[j].spaces
    BY <1>1, <1>2, <1>3 DEF Encloses
  <2> QED
    BY <1>1, <1>3, <2>1 DEF StillOpen
<1>5. ~Encloses(n + 1, n + 1)'
  BY DEF Encloses
<1>6. Enclosing(n + 1)' = around
  BY <1>2, <1>4, <1>5 DEF Enclosing, StillOpen
<1>7. ASSUME NEW j \in Meaningful PROVE j \in StillOpen' <=> j \in around
  BY <1>1, <1>2, <1>3 DEF StillOpen
<1>8. n + 1 \in StillOpen' <=> l.kind = "section"
  BY <1>1, <1>2 DEF StillOpen
<1>9. StillOpen' \subseteq Meaningful \cup {n + 1} /\ around \subseteq Meaningful
  BY <1>2 DEF StillOpen
<1>10. StillOpen' = around \cup (IF l.kind = "section" THEN {n + 1} ELSE {})
  BY <1>7, <1>8, <1>9
<1> QED
  BY <1>6, <1>10

\* A line of the indented part of a file is read, with pos the lines of the stack.
AtNewLine(l, n, pos) ==
    /\ Reading(l) /\ ~Skipped(l) /\ n = Len(file) /\ Indented(2)'
    /\ stack \in Seq(Seq(STRING))
    /\ pos \in [1 .. Len(stack) -> DOMAIN file] /\ OpenAt(pos)

Outer(pos, x) == [e \in 1 .. x |-> pos[e]]

\* In a file indented by two blanks a line is in the outermost sections of the stack,
\* as many as it is indented, and popping leaves those.
LEMMA StackAtNewLine ==
  ASSUME NEW l, NEW n \in Nat, NEW pos, AtNewLine(l, n, pos)
  PROVE  /\ Depth(l) \in 0 .. Len(stack) /\ l.spaces = 2 * Depth(l)
         /\ Listing(Outer(pos, Depth(l)), Depth(l), Enclosing(n + 1)')
<1> DEFINE s == l.spaces
           L == Len(stack)
           half == (s + 1) \div 2
           x == IF half <= L THEN half ELSE L
           around == {j \in StillOpen : file[j].spaces < s}
           first == Outer(pos, x)
<1> USE DEF AtNewLine
<1>1. s \in Nat /\ L \in Nat
  BY LineFacts DEF Reading
<1>2. half \in Nat /\ x \in 0 .. L /\ \A e \in 1 .. L : e <= x <=> 2 * (e - 1) < s
  <2> HIDE DEF s, L
  <2> QED
    BY <1>1
<1>3. Enclosing(n + 1)' = around
  BY SectionsOfNewLine
<1>4. \A e \in 1 .. L : /\ pos[e] \in StillOpen /\ pos[e] \in Nat
                        /\ file[pos[e]].spaces = 2 * (e - 1)
  <2>1. StillOpen \in SUBSET Nat
    BY OpenFacts DEF Reading
  <2> QED
    BY <2>1 DEF OpenAt
<1> HIDE DEF half, x, s, L
<1>5. Listing(first, x, around)
  <2>1. ASSUME NEW e \in 1 .. x PROVE first[e] = pos[e] /\ pos[e] \in around /\ e \in 1 .. L
    <3>1. e \in 1 .. L /\ e <= x
      BY <1>1, <1>2
    <3> QED
      BY <1>2, <1>4, <3>1 DEF Outer
  <2>2. ASSUME NEW j \in around PROVE \E e \in 1 .. x : first[e] = j
    <3>1. PICK e \in 1 .. L : pos[e] = j
      BY DEF OpenAt, L
    <3>2. e <= x
      BY <1>2, <1>4, <3>1
    <3>3. e \in 1 .. x
      BY <1>1, <1>2, <3>2
    <3> QED
      BY <2>1, <3>1, <3>3
  <2>3. ASSUME NEW e \in 1 .. x, NEW f \in 1 .. x, e < f PROVE first[e] < first[f]
    BY <2>1, <2>3 DEF OpenAt, L
  <2>4. first \in [1 .. x -> around]
    BY <2>1 DEF Outer
  <2> HIDE DEF first, around
  <2> QED
    BY <2>2, <2>3, <2>4 DEF Listing
<1>6. Cardinality(around) = x
  <2>1. around \in SUBSET Nat
    BY OpenFacts DEF Reading
  <2>2. x \in Nat
    BY <1>1, <1>2
  <2> HIDE DEF first, around
  <2> QED
    BY <1>5, <2>1, <2>2, ListingCounts
<1>7. s = 2 * x
  <2>1. n + 1 \in Meaningful' /\ file'[n + 1] = l
    BY LineIsAdded
  <2>2. file'[n + 1].spaces = 2 * Cardinality(Enclosing(n + 1)')
    BY <2>1 DEF Indented
  <2> HIDE DEF around
  <2> QED
    BY <1>3, <1>6, <2>1, <2>2 DEF s
<1>8. Depth(l) = x
  <2>1. x \in Nat /\ Depth(l) = s \div 2
    BY <1>1, <1>2 DEF Depth, s
  <2> QED
    BY <1>7, <2>1
<1> QED
  <2> HIDE DEF around
  <2> QED
    BY <1>2, <1>3, <1>5, <1>7, <1>8 DEF s, L

\* What popping leaves, and the path of the new line under it.
LEMMA PathAtNewLine ==
  ASSUME NEW l, NEW n \in Nat, NEW pos, AtNewLine(l, n, pos)
  PROVE  /\ Popped(stack, Depth(l)) = [e \in 1 .. Depth(l) |-> stack[e]]
         /\ ShownPath(n + 1)' = PathOf(Popped(stack, Depth(l)), l.key)
<1> DEFINE x == Depth(l)
           first == Outer(pos, x)
           S == Enclosing(n + 1)'
<1>0. Reading(l) /\ ~Skipped(l) /\ stack \in Seq(Seq(STRING))
  BY DEF AtNewLine
<1>1. x \in 0 .. Len(stack) /\ x \in Nat /\ Len(stack) \in Nat /\ Listing(first, x, S)
  <2>1. Depth(l) \in 0 .. Len(stack) /\ Len(stack) \in Nat
    BY <1>0, StackAtNewLine
  <2>2. Listing(Outer(pos, Depth(l)), Depth(l), Enclosing(n + 1)')
    BY StackAtNewLine
  <2> QED
    BY <2>1, <2>2
<1>2. S \in SUBSET Nat
  <2>1. StillOpen \in SUBSET Nat
    BY OpenFacts DEF Reading, AtNewLine
  <2>2. S = {j \in StillOpen : file[j].spaces < l.spaces}
    BY SectionsOfNewLine DEF AtNewLine
  <2> QED
    BY <2>1, <2>2
<1> HIDE DEF x, S
<1>3. Popped(stack, x) = [e \in 1 .. x |-> stack[e]]
  BY <1>1 DEF Popped
<1>4. Cardinality(S) = x
  <2> HIDE DEF first
  <2> QED
    BY <1>1, <1>2, ListingCounts
<1>5. ASSUME NEW e \in 1 .. x PROVE file'[Nth(S, e)].key = stack[e]
  <2>1. Nth(S, e) = first[e]
    <3>1. e \in 1 .. x
      BY <1>5
    <3> HIDE DEF first
    <3> QED
      BY <1>1, <1>2, <3>1, ListingNth
  <2>2. e \in 1 .. Len(stack) /\ first[e] = pos[e]
    BY <1>1 DEF Outer
  <2>3. pos[e] \in 1 .. Len(file)
    <3>1. DOMAIN file = 1 .. Len(file)
      BY FileFacts DEF Reading, AtNewLine
    <3> QED
      BY <2>2, <3>1 DEF AtNewLine
  <2>4. file'[pos[e]] = file[pos[e]]
    BY <1>0, <2>3, LineIsAdded
  <2> QED
    BY <2>1, <2>2, <2>4 DEF OpenAt, AtNewLine
<1>6. [e \in 1 .. Cardinality(S) |-> file'[Nth(S, e)].key] = [e \in 1 .. x |-> stack[e]]
  BY <1>4, <1>5
<1>7. ShownPath(n + 1)' = FlattenSeq([e \in 1 .. x |-> stack[e]]) \o l.key
  <2>1. file'[n + 1] = l
    BY LineIsAdded DEF AtNewLine
  <2> QED
    BY <1>6, <2>1 DEF ShownPath, S, Nth
<1> QED
  BY <1>3, <1>7 DEF PathOf, x

LEMMA SectionsStayEnumerated ==
  ASSUME NEW l, Reading(l), Enumerated, NEW n \in Nat, n = Len(file),
         ~Skipped(l) => \E m \in Nat : \E pos : Listing(pos, m, Enclosing(n + 1)')
  PROVE  Enumerated'
<1> SUFFICES ASSUME NEW i \in Meaningful'
             PROVE  \E m \in Nat : \E pos : Listing(pos, m, Enclosing(i)')
  BY DEF Enumerated, Listing
<1>1. CASE i \in Meaningful
  <2>1. Enclosing(i)' = Enclosing(i)
    BY <1>1, OldLinesKeepSections
  <2> QED
    BY <1>1, <2>1 DEF Enumerated
<1>2. CASE i \notin Meaningful
  <2>1. ~Skipped(l) /\ i = n + 1
    BY <1>2, LineIsAdded
  <2> QED
    BY <2>1
<1> QED
  BY <1>1, <1>2

\* The pairs of a path are those it had, and the new line where it is one of them.
LEMMA PairsWithNewLine ==
  ASSUME NEW l, Reading(l), Enumerated, NEW n \in Nat, n = Len(file), NEW path
  PROVE  ShownPairs(path)' =
            ShownPairs(path) \cup
                IF l.kind = "pair" /\ ShownPath(n + 1)' = path THEN {n + 1} ELSE {}
<1>1. Meaningful \subseteq 1 .. n
  BY FileFacts DEF Reading
<1>2. /\ Meaningful' = Meaningful \cup (IF Skipped(l) THEN {} ELSE {n + 1})
      /\ file'[n + 1] = l /\ \A i \in Meaningful : file'[i] = file[i]
  BY <1>1, LineIsAdded
<1>3. \A i \in Meaningful : ShownPath(i)' = ShownPath(i)
  BY OldLinesKeepPaths
<1>4. l.kind = "pair" => ~Skipped(l)
  BY LineFacts DEF Reading
<1>5. \A i \in Meaningful : i \in ShownPairs(path)' <=> i \in ShownPairs(path)
  BY <1>2, <1>3 DEF ShownPairs
<1>6. n + 1 \in ShownPairs(path)' <=> l.kind = "pair" /\ ShownPath(n + 1)' = path
  BY <1>2, <1>4 DEF ShownPairs
<1>7. ShownPairs(path)' \subseteq Meaningful \cup {n + 1} /\ ShownPairs(path) \subseteq Meaningful
  BY <1>2 DEF ShownPairs
<1> QED
  BY <1>5, <1>6, <1>7

\* A line that is no pair leaves the map right, whatever sections it opens or closes.
LEMMA MapKeepsWithoutPair ==
  ASSUME NEW l, Reading(l), Enumerated, MapShown, l.kind # "pair", kv' = kv
  PROVE  MapShown'
<1>1. PICK n \in Nat : n = Len(file)
  BY FileFacts DEF Reading
<1>2. /\ Meaningful \subseteq 1 .. n
      /\ Meaningful' \subseteq Meaningful \cup {n + 1} /\ file'[n + 1] = l
      /\ \A i \in Meaningful : file'[i] = file[i]
  BY <1>1, FileFacts, LineIsAdded DEF Reading
<1>3. ASSUME NEW e \in kv'
      PROVE  \E i \in ShownPairs(e.path)' :
                /\ \A j \in ShownPairs(e.path)' : i <= j
                /\ e.value = file'[i].value
  <2>1. ShownPairs(e.path)' = ShownPairs(e.path)
    BY <1>1, PairsWithNewLine
  <2>2. ShownPairs(e.path) \subseteq Meaningful
    BY DEF ShownPairs
  <2>3. PICK i \in ShownPairs(e.path) :
            (\A j \in ShownPairs(e.path) : i <= j) /\ e.value = file[i].value
    BY DEF MapShown
  <2> QED
    BY <1>2, <2>1, <2>2, <2>3
<1>4. ASSUME NEW i \in Meaningful', file'[i].kind = "pair" PROVE ShownPath(i)' \in Paths'
  <2>1. i \in Meaningful /\ file[i].kind = "pair"
    BY <1>2, <1>4
  <2>2. ShownPath(i)' = ShownPath(i) /\ Paths' = Paths
    BY <2>1, OldLinesKeepPaths DEF Paths
  <2> QED
    BY <2>1, <2>2 DEF MapShown
<1> QED
  BY <1>3, <1>4 DEF MapShown

\* emplace keeps the first value: an earlier pair of the path comes first in the file.
LEMMA MapTakesPair ==
  ASSUME NEW l, Reading(l), Enumerated, MapShown, l.kind = "pair", NEW n \in Nat, n = Len(file),
         NEW path, path = ShownPath(n + 1)', kv' = Emplaced(path, l.value)
  PROVE  MapShown'
<1> DEFINE new == [path |-> path, value |-> l.value]
<1>1. /\ Meaningful \subseteq 1 .. n
      /\ Meaningful' \subseteq Meaningful \cup {n + 1} /\ file'[n + 1] = l
      /\ \A i \in Meaningful : file'[i] = file[i]
  BY FileFacts, LineIsAdded DEF Reading
<1>2. kv' = IF path \in Paths THEN kv ELSE kv \cup {new}
  BY DEF Emplaced
<1>3. kv \subseteq kv' /\ path \in Paths'
  BY <1>2 DEF Paths
<1>4. \A q : ShownPairs(q) \subseteq Meaningful
  BY DEF ShownPairs
<1>5. ASSUME NEW e \in kv
      PROVE  \E i \in ShownPairs(e.path)' :
                /\ \A j \in ShownPairs(e.path)' : i <= j
                /\ e.value = file'[i].value
  <2>1. /\ ShownPairs(e.path) \subseteq ShownPairs(e.path)'
        /\ ShownPairs(e.path)' \subseteq ShownPairs(e.path) \cup {n + 1}
    BY PairsWithNewLine
  <2>2. PICK i \in ShownPairs(e.path) :
            (\A j \in ShownPairs(e.path) : i <= j) /\ e.value = file[i].value
    BY DEF MapShown
  <2>3. i \in 1 .. n /\ file'[i] = file[i]
    BY <1>1, <1>4
  <2>4. ASSUME NEW j \in ShownPairs(e.path)' PROVE i <= j
    <3>1. j \in ShownPairs(e.path) \/ j = n + 1
      BY <2>1
    <3>2. i <= n + 1
      BY <2>3
    <3> QED
      BY <2>2, <3>1, <3>2
  <2> QED
    BY <2>1, <2>2, <2>3, <2>4
<1>6. ASSUME path \notin Paths
      PROVE  ShownPairs(path)' = {n + 1}
  <2>1. ShownPairs(path) = {}
    BY <1>6 DEF ShownPairs, MapShown
  <2> QED
    BY <2>1, PairsWithNewLine
<1>7. ASSUME NEW e \in kv'
      PROVE  \E i \in ShownPairs(e.path)' :
                /\ \A j \in ShownPairs(e.path)' : i <= j
                /\ e.value = file'[i].value
  <2>1. CASE e \in kv
    BY <1>5, <2>1
  <2>2. CASE e \notin kv
    <3>1. path \notin Paths /\ e = new
      BY <1>2, <2>2
    <3>2. ShownPairs(e.path)' = {n + 1} /\ e.value = l.value
      BY <1>6, <3>1
    <3> QED
      BY <1>1, <3>2
  <2> QED
    BY <2>1, <2>2
<1>8. ASSUME NEW i \in Meaningful', file'[i].kind = "pair" PROVE ShownPath(i)' \in Paths'
  <2>1. CASE i = n + 1
    BY <1>3, <2>1
  <2>2. CASE i \in Meaningful
    <3>1. ShownPath(i)' = ShownPath(i) /\ file[i].kind = "pair"
      BY <1>1, <1>8, <2>2, OldLinesKeepPaths
    <3>2. Paths \subseteq Paths'
      BY <1>3 DEF Paths
    <3> QED
      BY <2>2, <3>1, <3>2 DEF MapShown
  <2> QED
    BY <1>1, <2>1, <2>2
<1> QED
  BY <1>7, <1>8 DEF MapShown

\* The stack after a section's header or a pair is that of the sections still open.
LEMMA StackAfterLine ==
  ASSUME NEW l, NEW n \in Nat, NEW pos, AtNewLine(l, n, pos),
         stack' = IF l.kind = "section" THEN Append(Popped(stack, Depth(l)), l.key)
                  ELSE Popped(stack, Depth(l))
  PROVE  StackShown'
<1> DEFINE x == Depth(l)
           S == Enclosing(n + 1)'
           outer == Outer(pos, x)
           kept == [e \in 1 .. x |-> stack[e]]
<1>1. /\ x \in Nat /\ x \in 0 .. Len(stack) /\ Len(stack) \in Nat
      /\ l.spaces = 2 * x /\ Listing(outer, x, S) /\ Popped(stack, x) = kept
  <2>1. /\ Depth(l) \in 0 .. Len(stack) /\ l.spaces = 2 * Depth(l)
        /\ Listing(Outer(pos, Depth(l)), Depth(l), Enclosing(n + 1)')
    BY StackAtNewLine
  <2>2. Popped(stack, Depth(l)) = [e \in 1 .. Depth(l) |-> stack[e]]
    BY PathAtNewLine
  <2>3. Len(stack) \in Nat
    BY DEF AtNewLine
  <2> QED
    BY <2>1, <2>2, <2>3
<1>2. /\ StillOpen' = S \cup (IF l.kind = "section" THEN {n + 1} ELSE {})
      /\ S \subseteq StillOpen
  <2>1. StillOpen' = S \cup (IF l.kind = "section" THEN {n + 1} ELSE {})
    BY SectionsOfNewLine DEF AtNewLine
  <2>2. S = {j \in StillOpen : file[j].spaces < l.spaces}
    BY SectionsOfNewLine DEF AtNewLine
  <2> QED
    BY <2>1, <2>2
<1>3. /\ StillOpen \subseteq 1 .. n /\ DOMAIN file' = 1 .. n + 1
      /\ file'[n + 1] = l /\ \A j \in 1 .. n : file'[j] = file[j]
  <2>1. Reading(l) /\ n = Len(file)
    BY DEF AtNewLine
  <2>2. StillOpen \subseteq Meaningful /\ Meaningful \subseteq 1 .. n
    BY <2>1, OpenFacts, FileFacts DEF Reading
  <2>3. /\ file' \in Seq(Lines) /\ Len(file') = n + 1
        /\ file'[n + 1] = l /\ \A j \in 1 .. n : file'[j] = file[j]
    BY <2>1, LineIsAdded
  <2>4. DOMAIN file' = 1 .. n + 1
    BY <2>3
  <2> QED
    BY <2>2, <2>3, <2>4
<1>4. ASSUME NEW e \in 1 .. x
      PROVE  /\ outer[e] = pos[e] /\ pos[e] \in S /\ pos[e] \in 1 .. n
             /\ stack[e] = file'[pos[e]].key /\ file'[pos[e]].spaces = 2 * (e - 1)
  <2>1. e \in 1 .. Len(stack) /\ outer[e] = pos[e]
    BY <1>1 DEF Outer
  <2>2. pos[e] \in S
    BY <1>1, <2>1 DEF Listing
  <2>3. stack[e] = file[pos[e]].key /\ file[pos[e]].spaces = 2 * (e - 1)
    BY <2>1 DEF AtNewLine, OpenAt
  <2> QED
    BY <1>2, <1>3, <2>1, <2>2, <2>3
<1>5. \A j \in S : \E e \in 1 .. x : pos[e] = j
  BY <1>1, <1>4 DEF Listing
<1>6. \A e, f \in 1 .. x : e < f => pos[e] < pos[f]
  BY <1>1, <1>4 DEF Listing
<1>7. stack' = IF l.kind = "section" THEN Append(kept, l.key) ELSE kept
  BY <1>1
<1> HIDE DEF x, S, outer
<1>8. CASE l.kind # "section"
  <2> DEFINE pos2 == [e \in 1 .. x |-> pos[e]]
  <2>1. Len(stack') = x /\ \A e \in 1 .. x : stack'[e] = stack[e]
    BY <1>1, <1>7, <1>8
  <2>2. pos2 \in [1 .. x -> DOMAIN file'] /\ \A e \in 1 .. x : pos2[e] = pos[e]
    BY <1>3, <1>4
  <2> HIDE DEF pos2
  <2>3. OpenAt(pos2)'
    <3>1. StillOpen' = S
      BY <1>2, <1>8
    <3>2. \A j \in StillOpen' : \E e \in 1 .. Len(stack') : pos2[e] = j
      BY <1>5, <2>1, <2>2, <3>1
    <3>3. \A e, f \in 1 .. Len(stack') : e < f => pos2[e] < pos2[f]
      BY <1>6, <2>1, <2>2
    <3>4. \A e \in 1 .. Len(stack') :
            /\ pos2[e] \in StillOpen'
            /\ stack'[e] = file'[pos2[e]].key
            /\ file'[pos2[e]].spaces = 2 * (e - 1)
      BY <1>4, <2>1, <2>2, <3>1
    <3> QED
      BY <3>2, <3>3, <3>4 DEF OpenAt
  <2> QED
    BY <2>1, <2>2, <2>3 DEF StackShown
<1>9. CASE l.kind = "section"
  <2> DEFINE pos2 == [e \in 1 .. x + 1 |-> IF e <= x THEN pos[e] ELSE n + 1]
  <2>1. /\ Len(stack') = x + 1 /\ stack'[x + 1] = l.key
        /\ \A e \in 1 .. x : stack'[e] = stack[e]
    <3>1. kept \in Seq(Seq(STRING)) /\ Len(kept) = x /\ \A e \in 1 .. x : kept[e] = stack[e]
      <4>1. \A e \in 1 .. x : stack[e] \in Seq(STRING)
        BY <1>1 DEF AtNewLine
      <4> QED
        BY <1>1, <4>1
    <3>2. l.key \in Seq(STRING)
      BY <1>9, LineFacts DEF AtNewLine, Reading
    <3> HIDE DEF kept
    <3> QED
      BY <1>1, <1>7, <1>9, <3>1, <3>2
  <2>2. /\ pos2 \in [1 .. x + 1 -> DOMAIN file'] /\ pos2[x + 1] = n + 1
        /\ \A e \in 1 .. x : pos2[e] = pos[e]
    BY <1>1, <1>3, <1>4
  <2>3. \A e \in 1 .. x + 1 : e \in 1 .. x \/ e = x + 1
    BY <1>1
  <2>4. x + 1 \in 1 .. x + 1 /\ 1 .. x \subseteq 1 .. x + 1
    BY <1>1
  <2> HIDE DEF pos2
  <2>5. OpenAt(pos2)'
    <3>1. StillOpen' = S \cup {n + 1}
      BY <1>2, <1>9
    <3>2. ASSUME NEW j \in StillOpen' PROVE \E e \in 1 .. x + 1 : pos2[e] = j
      BY <1>5, <2>2, <2>4, <3>1
    <3>3. ASSUME NEW e \in 1 .. x + 1, NEW f \in 1 .. x + 1, e < f PROVE pos2[e] < pos2[f]
      <4>1. e \in 1 .. x
        BY <1>1, <3>3
      <4>2. CASE f \in 1 .. x
        BY <1>6, <2>2, <3>3, <4>1, <4>2
      <4>3. CASE f = x + 1
        BY <1>4, <2>2, <4>1, <4>3
      <4> QED
        BY <2>3, <4>2, <4>3
    <3>4. ASSUME NEW e \in 1 .. x + 1
          PROVE  /\ pos2[e] \in StillOpen'
                 /\ stack'[e] = file'[pos2[e]].key
                 /\ file'[pos2[e]].spaces = 2 * (e - 1)
      <4>1. CASE e \in 1 .. x
        BY <1>4, <2>1, <2>2, <3>1, <4>1
      <4>2. CASE e = x + 1
        <5>1. x + 1 - 1 = x
          BY <1>1
        <5> QED
          BY <1>1, <1>3, <2>1, <2>2, <3>1, <4>2, <5>1
      <4> QED
        BY <2>3, <4>1, <4>2
    <3> QED
      BY <2>1, <3>2, <3>3, <3>4 DEF OpenAt
  <2> QED
    BY <2>1, <2>2, <2>5 DEF StackShown
<1> QED
  BY <1>8, <1>9

-----------------------------------------------------------------------------
\* The fields are set.

\* Once the file has been read, what it says stays said.
LEMMA FileSaysTheSame ==
  ASSUME file' = file
  PROVE  /\ Indented(2)' <=> Indented(2)
         /\ \A f : Said(f)' = Said(f)
         /\ kv' = kv /\ MapShown => MapShown'
         /\ Enumerated => Enumerated'
<1>1. Meaningful' = Meaningful
  BY DEF Meaningful
<1>2. \A i, j : Encloses(j, i)' <=> Encloses(j, i)
  BY <1>1 DEF Encloses
<1>3. \A i : Enclosing(i)' = Enclosing(i)
  BY <1>1, <1>2 DEF Enclosing
<1>4. ASSUME NEW i PROVE ShownPath(i)' = ShownPath(i)
  <2> DEFINE S == Enclosing(i)
  <2>1. Enclosing(i)' = S
    BY <1>3
  <2>2. ShownPath(i)
          = FlattenSeq([e \in 1 .. Cardinality(S) |-> file[Nth(S, e)].key]) \o file[i].key
    BY DEF ShownPath
  <2> HIDE DEF S
  <2>3. ShownPath(i)'
          = FlattenSeq([e \in 1 .. Cardinality(S) |-> file'[Nth(S, e)].key]) \o file'[i].key
    BY <2>1 DEF ShownPath, Nth
  <2> QED
    BY <2>2, <2>3
<1>5. \A path : ShownPairs(path)' = ShownPairs(path)
  BY <1>1, <1>4 DEF ShownPairs
<1>6. Indented(2)' <=> Indented(2)
  BY <1>1, <1>3 DEF Indented
<1>7. \A f : Said(f)' = Said(f)
  BY <1>5 DEF Said
<1>8. ASSUME kv' = kv, MapShown PROVE MapShown'
  <2>1. Paths' = Paths
    BY <1>8 DEF Paths
  <2> QED
    BY <1>1, <1>4, <1>5, <1>8, <2>1 DEF MapShown
<1>9. Enumerated => Enumerated'
  BY <1>1, <1>3 DEF Enumerated
<1> QED
  BY <1>6, <1>7, <1>8, <1>9

\* maybe_set finds what the file says.
LEMMA LookedIsSaid ==
  ASSUME file \in Seq(Lines), MapShown, NEW f, cfg[f] = Defaults[f]
  PROVE  Looked(f) = Said(f)
<1> DEFINE path == Fields[f].path
           S == ShownPairs(path)
<1>1. S \subseteq Nat
  <2>1. Meaningful \subseteq 1 .. Len(file) /\ Len(file) \in Nat
    BY FileFacts
  <2>2. S \subseteq Meaningful
    BY DEF ShownPairs
  <2>3. 1 .. Len(file) \subseteq Nat
    BY <2>1
  <2> QED
    BY <2>1, <2>2, <2>3
<1>2. CASE path \in Paths
  <2> DEFINE e == CHOOSE d \in kv : d.path = path
  <2>1. e \in kv /\ e.path = path
    BY <1>2 DEF Paths
  <2> HIDE DEF e
  <2>2. PICK i \in S : (\A j \in S : i <= j) /\ e.value = file[i].value
    BY <2>1 DEF MapShown
  <2>3. First(S) = i
    <3> HIDE DEF S
    <3>1. First(S) \in S /\ \A j \in S : First(S) <= j
      BY <2>2 DEF First
    <3>2. First(S) \in Nat /\ i \in Nat /\ First(S) <= i /\ i <= First(S)
      BY <1>1, <2>2, <3>1
    <3> QED
      BY <3>2
  <2>4. ValueAt(path) = file[First(S)].value
    BY <2>2, <2>3 DEF ValueAt, e
  <2> QED
    BY <1>2, <2>2, <2>4 DEF Looked, Said
<1>3. CASE path \notin Paths
  <2>1. S = {}
    BY <1>3 DEF ShownPairs, MapShown
  <2> QED
    BY <1>3, <2>1 DEF Looked, Said
<1> QED
  BY <1>2, <1>3

-----------------------------------------------------------------------------
\* The invariant.

LEMMA LoadInit == Init => LoadInv
<1> SUFFICES ASSUME Init PROVE LoadInv
  OBVIOUS
<1>1. file = <<>> /\ stack = <<>> /\ kv = {} /\ phase = "parse" /\ next = 1 /\ cfg = Defaults
  BY DEF Init
<1>2. Meaningful = {} /\ StillOpen = {}
  BY <1>1 DEF Meaningful, StillOpen
<1>3. StackShown
  <2>1. Len(stack) = 0 /\ 1 .. 0 = {}
    BY <1>1
  <2> DEFINE pos == [e \in 1 .. Len(stack) |-> 1]
  <2>2. pos \in [1 .. Len(stack) -> DOMAIN file]
    BY <2>1
  <2>3. OpenAt(pos)
    BY <1>2, <2>1 DEF OpenAt
  <2> QED
    BY <2>2, <2>3 DEF StackShown
<1>4. MapShown
  BY <1>1, <1>2 DEF MapShown
<1>5. Len(Fields) \in Nat /\ DOMAIN Fields = 1 .. Len(Fields) /\ DOMAIN Defaults = DOMAIN Fields
  BY LoaderAssumption
<1>6. FieldsShown
  BY <1>1, <1>5 DEF FieldsShown
<1>7. Enumerated
  BY <1>2 DEF Enumerated
<1>8. file \in Seq(Lines) /\ stack \in Seq(Seq(STRING)) /\ next \in 1 .. Len(Fields) + 1
  BY <1>1, <1>5
<1> QED
  BY <1>1, <1>3, <1>4, <1>6, <1>7, <1>8 DEF LoadInv, Init

\* Reading a line, whichever way it is taken.
LEMMA LineKeepsInv ==
  ASSUME LoadInv, NEW l \in Lines, SkipLine(l) \/ RefuseLine(l) \/ OpenSection(l) \/ StorePair(l)
  PROVE  LoadInv'
<1>1. /\ phase = "parse" /\ file' = Append(file, l) /\ UNCHANGED <<next, cfg, out>>
      /\ phase' \in {"parse", "failed"}
  BY DEF SkipLine, RefuseLine, OpenSection, StorePair, Read, LoadInv
<1>2. /\ file \in Seq(Lines) /\ stack \in Seq(Seq(STRING))
      /\ next = 1 /\ cfg = Defaults /\ out = Previous /\ next \in 1 .. Len(Fields) + 1
  BY <1>1 DEF LoadInv
<1>3. Reading(l)
  BY <1>1, <1>2 DEF Reading
<1>4. PICK n \in Nat : n = Len(file)
  BY <1>2
<1>5. /\ file' \in Seq(Lines) /\ next' \in 1 .. Len(Fields) + 1 /\ next' = 1 /\ cfg' = Defaults
      /\ out' = Previous
  BY <1>1, <1>2, <1>3, LineIsAdded
<1>6. stack' \in Seq(Seq(STRING))
  <2>1. Popped(stack, Depth(l)) \in Seq(Seq(STRING))
    <3>1. Depth(l) \in Nat
      BY LineFacts DEF Depth
    <3> QED
      BY <1>2, <3>1 DEF Popped
  <2>2. l.kind = "section" => l.key \in Seq(STRING)
    BY LineFacts
  <2>3. CASE SkipLine(l) \/ RefuseLine(l)
    BY <1>2, <2>3 DEF SkipLine, RefuseLine
  <2>4. CASE OpenSection(l)
    <3>1. stack' = Append(Popped(stack, Depth(l)), l.key) /\ l.kind = "section"
      BY <2>4 DEF OpenSection
    <3> QED
      BY <2>1, <2>2, <3>1
  <2>5. CASE StorePair(l)
    BY <2>1, <2>5 DEF StorePair
  <2> QED
    BY <2>3, <2>4, <2>5
<1>7. ASSUME Indented(2)'
      PROVE  Enumerated' /\ phase' = "parse" /\ StackShown' /\ MapShown' /\ FieldsShown'
  <2>1. Enumerated /\ StackShown /\ MapShown
    BY <1>1, <1>3, <1>7, IndentedBefore DEF LoadInv
  <2>2. PICK pos \in [1 .. Len(stack) -> DOMAIN file] : OpenAt(pos)
    BY <2>1 DEF StackShown
  <2>3. ~Skipped(l) => AtNewLine(l, n, pos)
    BY <1>2, <1>3, <1>4, <1>7, <2>2 DEF AtNewLine
  <2>4. ~Skipped(l) => Depth(l) \in Nat /\ l.spaces = 2 * Depth(l)
                       /\ \E m \in Nat : \E p : Listing(p, m, Enclosing(n + 1)')
    <3>1. SUFFICES ASSUME ~Skipped(l)
                   PROVE  Depth(l) \in Nat /\ l.spaces = 2 * Depth(l)
                          /\ \E m \in Nat : \E p : Listing(p, m, Enclosing(n + 1)')
      OBVIOUS
    <3>2. /\ Depth(l) \in 0 .. Len(stack) /\ l.spaces = 2 * Depth(l)
          /\ Listing(Outer(pos, Depth(l)), Depth(l), Enclosing(n + 1)')
      BY <2>3, <3>1, StackAtNewLine
    <3>3. Depth(l) \in Nat
      BY <1>2, <3>2
    <3> QED
      BY <3>2, <3>3
  <2>5. Enumerated'
    BY <1>3, <1>4, <2>1, <2>4, SectionsStayEnumerated
  <2>6. FieldsShown'
    <3>1. /\ Len(Fields) \in Nat /\ DOMAIN Fields = 1 .. Len(Fields)
          /\ DOMAIN Defaults = DOMAIN Fields
      BY LoaderAssumption
    <3>2. \A f \in DOMAIN Fields : ~(f < 1)
      BY <3>1
    <3> QED
      BY <1>5, <3>1, <3>2 DEF FieldsShown
  <2>7. CASE SkipLine(l)
    <3>1. Skipped(l) /\ stack' = stack /\ kv' = kv /\ phase' = "parse" /\ l.kind # "pair"
      BY <1>1, <2>7 DEF SkipLine, Skipped
    <3>2. StillOpen' = StillOpen
      BY <1>3, <3>1, SkippedLineOpensNothing
    <3>3. /\ DOMAIN file = 1 .. n /\ DOMAIN file' = 1 .. n + 1
          /\ \A i \in 1 .. n : file'[i] = file[i]
      BY <1>2, <1>3, <1>4, LineIsAdded
    <3>4. pos \in [1 .. Len(stack') -> DOMAIN file']
      BY <2>2, <3>1, <3>3
    <3>5. OpenAt(pos)'
      BY <2>2, <3>1, <3>2, <3>3 DEF OpenAt
    <3>6. StackShown'
      BY <3>4, <3>5 DEF StackShown
    <3>7. MapShown'
      BY <1>3, <2>1, <3>1, MapKeepsWithoutPair
    <3> QED
      BY <2>5, <2>6, <3>1, <3>6, <3>7
  <2>8. CASE RefuseLine(l)
    BY <2>4, <2>8 DEF RefuseLine
  <2>9. CASE OpenSection(l)
    <3>1. /\ l.kind = "section" /\ kv' = kv /\ phase' = "parse" /\ ~Skipped(l)
          /\ stack' = Append(Popped(stack, Depth(l)), l.key)
      BY <1>1, <2>9, LineFacts DEF OpenSection
    <3>2. StackShown'
      BY <2>3, <3>1, StackAfterLine
    <3>3. MapShown'
      BY <1>3, <2>1, <3>1, MapKeepsWithoutPair
    <3> QED
      BY <2>5, <2>6, <3>1, <3>2, <3>3
  <2>10. CASE StorePair(l)
    <3>1. /\ l.kind = "pair" /\ phase' = "parse" /\ ~Skipped(l)
          /\ stack' = Popped(stack, Depth(l))
          /\ kv' = Emplaced(PathOf(stack', l.key), l.value)
      BY <1>1, <2>10, LineFacts DEF StorePair
    <3>2. StackShown'
      BY <2>3, <3>1, StackAfterLine
    <3>3. ShownPath(n + 1)' = PathOf(Popped(stack, Depth(l)), l.key)
      BY <2>3, <3>1, PathAtNewLine
    <3>4. PICK path : path = ShownPath(n + 1)'
      OBVIOUS
    <3>5. kv' = Emplaced(path, l.value)
      BY <3>1, <3>3, <3>4
    <3>6. MapShown'
      BY <1>3, <1>4, <2>1, <3>1, <3>4, <3>5, MapTakesPair
    <3> QED
      BY <2>5, <2>6, <3>1, <3>2, <3>6
  <2> QED
    BY <2>7, <2>8, <2>9, <2>10
<1> QED
  BY <1>1, <1>5, <1>6, <1>7 DEF LoadInv

LEMMA SetFieldKeepsInv == LoadInv /\ SetField => LoadInv'
<1> SUFFICES ASSUME LoadInv, SetField PROVE LoadInv'
  OBVIOUS
<1>1. /\ phase = "set" /\ next \in DOMAIN Fields /\ Looked(next).ok
      /\ cfg' = [cfg EXCEPT ![next] = Looked(next).value]
      /\ next' = next + 1 /\ UNCHANGED <<file, stack, kv, phase, out>>
  BY DEF SetField
<1>2. /\ file \in Seq(Lines) /\ stack \in Seq(Seq(STRING)) /\ out = Previous
  BY <1>1 DEF LoadInv
<1>3. DOMAIN Fields = 1 .. Len(Fields) /\ Len(Fields) \in Nat
  BY LoaderAssumption
<1>4. next' \in 1 .. Len(Fields) + 1 /\ next \in Int
  BY <1>1, <1>3
<1>5. ASSUME Indented(2)
      PROVE  Enumerated' /\ MapShown' /\ FieldsShown'
  <2>1. Enumerated /\ MapShown /\ FieldsShown
    BY <1>1, <1>5 DEF LoadInv
  <2>2. cfg[next] = Defaults[next]
    BY <1>1, <1>4, <2>1 DEF FieldsShown
  <2>3. Looked(next) = Said(next)
    BY <1>2, <2>1, <2>2, LookedIsSaid
  <2>4. ASSUME NEW f \in DOMAIN Fields
        PROVE  IF f < next' THEN Said(f).ok /\ cfg'[f] = Said(f).value
               ELSE cfg'[f] = Defaults[f]
    <3>1. f \in Int /\ f \in DOMAIN cfg
      BY <1>3, <2>1 DEF FieldsShown
    <3>2. CASE f = next
      BY <1>1, <1>4, <2>3, <3>1, <3>2
    <3>3. CASE f # next
      <4>1. cfg'[f] = cfg[f] /\ (f < next' <=> f < next)
        BY <1>1, <1>4, <3>1, <3>3
      <4> QED
        BY <2>1, <4>1 DEF FieldsShown
    <3> QED
      BY <3>2, <3>3
  <2>5. DOMAIN cfg' = DOMAIN Fields
    BY <1>1, <2>1 DEF FieldsShown
  <2>6. \A f : Said(f)' = Said(f)
    BY <1>1, FileSaysTheSame
  <2>7. FieldsShown'
    BY <2>4, <2>5, <2>6 DEF FieldsShown
  <2> QED
    BY <1>1, <2>1, <2>7, FileSaysTheSame
<1>6. Indented(2)' <=> Indented(2)
  BY <1>1, FileSaysTheSame
<1> QED
  BY <1>1, <1>2, <1>4, <1>5, <1>6 DEF LoadInv

LEMMA RestKeepsInv ==
  ASSUME LoadInv, FailToOpen \/ EndOfFile \/ RefuseField \/ Deliver \/ UNCHANGED vars
  PROVE  LoadInv'
<1>1. UNCHANGED <<file, stack, kv, next, cfg>>
  BY DEF FailToOpen, EndOfFile, RefuseField, Deliver, vars
<1>2. file \in Seq(Lines) /\ stack \in Seq(Seq(STRING)) /\ next \in 1 .. Len(Fields) + 1
  BY DEF LoadInv
<1>3. /\ Indented(2)' <=> Indented(2)
      /\ \A f : Said(f)' = Said(f)
      /\ MapShown => MapShown'
      /\ Enumerated => Enumerated'
  BY <1>1, FileSaysTheSame
<1>4. FieldsShown => FieldsShown'
  BY <1>1, <1>3 DEF FieldsShown
<1>5. (\E f \in DOMAIN Fields : ~Said(f).ok) => (\E f \in DOMAIN Fields : ~Said(f).ok)'
  BY <1>3
<1>6. CASE FailToOpen
  <2>1. phase = "parse" /\ phase' = "unopened" /\ out' = out
    BY <1>6 DEF FailToOpen
  <2> QED
    BY <1>1, <1>2, <1>3, <2>1 DEF LoadInv
<1>7. CASE EndOfFile
  <2>1. phase = "parse" /\ phase' = "set" /\ out' = out
    BY <1>7 DEF EndOfFile
  <2> QED
    BY <1>1, <1>2, <1>3, <1>4, <2>1 DEF LoadInv
<1>8. CASE RefuseField
  <2>1. /\ phase = "set" /\ phase' = "failed" /\ out' = out
        /\ next \in DOMAIN Fields /\ ~Looked(next).ok
    BY <1>8 DEF RefuseField
  <2>2. ASSUME Indented(2) PROVE \E f \in DOMAIN Fields : ~Said(f).ok
    <3>1. MapShown /\ FieldsShown
      BY <2>1, <2>2 DEF LoadInv
    <3>2. cfg[next] = Defaults[next]
      <4>1. ~(next < next)
        BY <1>2, LoaderAssumption
      <4> QED
        BY <2>1, <3>1, <4>1 DEF FieldsShown
    <3>3. Looked(next) = Said(next)
      BY <1>2, <3>1, <3>2, LookedIsSaid
    <3> QED
      BY <2>1, <3>3
  <2> QED
    BY <1>1, <1>2, <1>3, <1>5, <2>1, <2>2 DEF LoadInv
<1>9. CASE Deliver
  <2>1. phase = "set" /\ phase' = "ok" /\ out' = cfg /\ next \notin DOMAIN Fields
    BY <1>9 DEF Deliver
  <2>2. next = Len(Fields) + 1
    BY <1>2, <2>1, LoaderAssumption
  <2> QED
    BY <1>1, <1>2, <1>3, <1>4, <2>1, <2>2 DEF LoadInv
<1>10. CASE UNCHANGED vars
  <2>1. phase' = phase /\ out' = out
    BY <1>10 DEF vars
  <2>2. StackShown /\ Enumerated => StackShown'
    <3>1. Meaningful' = Meaningful
      BY <1>1 DEF Meaningful
    <3>2. StillOpen' = StillOpen
      BY <1>1, <3>1 DEF StillOpen
    <3>3. \A pos : OpenAt(pos) => OpenAt(pos)'
      BY <1>1, <3>2 DEF OpenAt
    <3> QED
      BY <1>1, <3>3 DEF StackShown
  <2> QED
    BY <1>1, <1>2, <1>3, <1>4, <1>5, <2>1, <2>2 DEF LoadInv
<1> QED
  BY <1>6, <1>7, <1>8, <1>9, <1>10

LEMMA LoadInvariance == Spec => []LoadInv
<1>1. LoadInv /\ [Next]_vars => LoadInv'
  BY LineKeepsInv, SetFieldKeepsInv, RestKeepsInv DEF Next
<1> QED
  BY <1>1, LoadInit, PTL DEF Spec

-----------------------------------------------------------------------------

\* For every set of lines, fields and defaults, a file indented by two blanks loads as its
\* indentation shows: the section stack of parse_scalar_map is at every line the sections
\* around it, and the map keeps the first value of each path.
THEOREM LoadsAsShown == Spec => []LoadedAsShown
<1>1. LoadInv => LoadedAsShown
  <2> SUFFICES ASSUME LoadInv, phase = "ok", Indented(2), NEW f \in DOMAIN Fields
               PROVE  Said(f).ok /\ out[f] = Said(f).value
    BY DEF LoadedAsShown
  <2>1. FieldsShown /\ out = cfg /\ next = Len(Fields) + 1
    BY DEF LoadInv
  <2>2. f < next
    BY <2>1, LoaderAssumption
  <2> QED
    BY <2>1, <2>2 DEF FieldsShown
<1> QED
  BY <1>1, LoadInvariance, PTL

\* A load that fails has written nothing, and a file indented by two blanks fails only for
\* a field whose first value does not convert.
THEOREM FailuresAreClean == Spec => []FailureIsClean
<1>1. LoadInv => FailureIsClean
  BY DEF LoadInv, FailureIsClean
<1> QED
  BY <1>1, LoadInvariance, PTL
=============================================================================
