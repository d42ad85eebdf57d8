---------------------------- MODULE ConfigLoader ----------------------------
(***************************************************************************)
(* load_config (src/src/config_loader.cpp): a file is read line by line    *)
(* into a map from dotted paths to raw values, then the known fields are   *)
(* converted one by one, and only a load without an error writes *out.     *)
(*                                                                         *)
(* A line is what strip_comment leaves of it: its leading blanks, what it  *)
(* is, and its key as the list of its dot-separated names.  A raw value is *)
(* an integer, a list of raw values, or a word; an integer has the widths  *)
(* of int and long in bits, scaled down by the runs.                       *)
(***************************************************************************)
EXTENDS Integers, SequencesExt

CONSTANTS
    Lines,     \* the lines a file may hold
    Fields,    \* the fields of Config in the order they are set: path and kind
    Defaults,  \* default_config, by field
    Previous,  \* what *out holds before the call, by field
    MaxLines,  \* bound on the lines of a file
    IntBits, LongBits

Range2(bits) == -(2 ^ (bits - 1)) .. 2 ^ (bits - 1) - 1

Value == [kind : {"word"}, word : STRING] \cup [kind : {"number"}, number : Int]
Item  == Value \cup [kind : {"list"}, items : Seq(Value)]

Line == [spaces : Nat, kind : {"blank", "item", "text"}]
        \cup [spaces : Nat, kind : {"section"}, key : Seq(STRING)]
        \cup [spaces : Nat, kind : {"pair"}, key : Seq(STRING), value : Item]

ASSUME LoaderAssumption ==
    /\ \A l \in Lines : l \in Line
    /\ Fields \in Seq([path : Seq(STRING),
                       kind : {"string", "bool", "int", "u64", "double", "list"}])
    /\ DOMAIN Defaults = DOMAIN Fields /\ DOMAIN Previous = DOMAIN Fields
    /\ MaxLines \in Nat
    /\ IntBits \in Nat \ {0} /\ LongBits \in Nat \ {0} /\ IntBits <= LongBits

VARIABLES
    file,  \* the lines read so far
    stack, \* section_stack
    kv,    \* the map parse_scalar_map fills, a set of path/value pairs
    phase, \* "parse", "set", and "ok", "failed" or "unopened" once load_config returned
    next,  \* the field maybe_set is at
    cfg,   \* the local Config
    out    \* *out

vars == <<file, stack, kv, phase, next, cfg, out>>

-----------------------------------------------------------------------------
\* parse_scalar_map

\* Lines passed over before their indentation is looked at.
Skipped(l) == l.kind \in {"blank", "item", "text"}

Depth(l) == l.spaces \div 2

\* Bug: a section stays open for the lines beside it.
PoppedTooLittle(s, d) == SubSeq(s, 1, IF Len(s) > d + 1 THEN d + 1 ELSE Len(s))

\* The sections left on the stack at a line of depth d.
Popped(s, d) == SubSeq(s, 1, IF Len(s) > d THEN d ELSE Len(s))

\* The dotted path of a key under a stack of sections.
PathOf(s, key) == FlattenSeq(s) \o key

Paths == {e.path : e \in kv}
ValueAt(path) == (CHOOSE e \in kv : e.path = path).value

\* unordered_map::emplace keeps the value a path already has.
Emplaced(path, value) ==
    IF path \in Paths THEN kv ELSE kv \cup {[path |-> path, value |-> value]}

-----------------------------------------------------------------------------
\* The conversions.  Each returns whether it succeeds and what it stores.

Ok(v)  == [ok |-> TRUE, value |-> v]
Failed == [ok |-> FALSE]

\* static_cast of a wider integer: the low bits, as a signed number.
Truncated(n, bits) ==
    LET low == n % 2 ^ bits IN IF low < 2 ^ (bits - 1) THEN low ELSE low - 2 ^ bits

ParseBool(v) ==
    IF v.kind = "word" /\ v.word \in {"true", "false"} THEN Ok(v.word = "true") ELSE Failed

\* Bug: a long beyond the ints becomes the nearest int.
ParseIntClamped(v) ==
    IF v.kind = "number" /\ v.number \in Range2(LongBits)
    THEN Ok(CHOOSE m \in Range2(IntBits) :
                \A k \in Range2(IntBits) : (m - v.number) ^ 2 <= (k - v.number) ^ 2)
    ELSE IF v.kind = "word" /\ v.word = "" THEN Ok(0)
    ELSE Failed

\* parse_int: what strtol accepts is cut down to an int; an empty word counts as 0.
ParseInt(v) ==
    IF v.kind = "number" /\ v.number \in Range2(LongBits) THEN Ok(Truncated(v.number, IntBits))
    ELSE IF v.kind = "word" /\ v.word = "" THEN Ok(0)
    ELSE Failed

\* parse_u64: strtoull takes a sign and negates within its width.
ParseU64(v) ==
    IF v.kind = "number" /\ v.number > -(2 ^ LongBits) /\ v.number < 2 ^ LongBits
    THEN Ok(v.number % 2 ^ LongBits)
    ELSE IF v.kind = "word" /\ v.word = "" THEN Ok(0)
    ELSE Failed

\* parse_double.  The fractions, inf and nan that strtod also takes are left out:
\* nothing in the loader tells them from other numbers.
ParseDouble(v) ==
    IF v.kind = "number" THEN Ok(v.number)
    ELSE IF v.kind = "word" /\ v.word = "" THEN Ok(0)
    ELSE Failed

\* parse_int_list: every item has to be an int.
ParseIntList(v) ==
    IF v.kind = "list" /\ \A i \in DOMAIN v.items : ParseInt(v.items[i]).ok
    THEN Ok([i \in DOMAIN v.items |-> ParseInt(v.items[i]).value])
    ELSE Failed

Parse(kind, v) ==
    CASE kind = "string" -> Ok(v)
      [] kind = "bool"   -> ParseBool(v)
      [] kind = "int"    -> ParseInt(v)
      [] kind = "u64"    -> ParseU64(v)
      [] kind = "double" -> ParseDouble(v)
      [] kind = "list"   -> ParseIntList(v)

-----------------------------------------------------------------------------

Init ==
    /\ file = <<>>
    /\ stack = <<>>
    /\ kv = {}
    /\ phase = "parse"
    /\ next = 1
    /\ cfg = Defaults
    /\ out = Previous

Read(l) ==
    /\ phase = "parse"
    /\ Len(file) < MaxLines
    /\ file' = Append(file, l)
    /\ UNCHANGED <<next, cfg, out>>

SkipLine(l) ==
    /\ Read(l)
    /\ Skipped(l)
    /\ UNCHANGED <<stack, kv, phase>>

RefuseLine(l) ==
    /\ Read(l)
    /\ ~Skipped(l)
    /\ l.spaces % 2 # 0
    /\ phase' = "failed"
    /\ UNCHANGED <<stack, kv>>

\* A key without a value; it opens a section even where the stack is too short.
OpenSection(l) ==
    /\ Read(l)
    /\ l.kind = "section"
    /\ l.spaces % 2 = 0
    /\ stack' = Append(Popped(stack, Depth(l)), l.key)
    /\ UNCHANGED <<kv, phase>>

StorePair(l) ==
    /\ Read(l)
    /\ l.kind = "pair"
    /\ l.spaces % 2 = 0
    /\ stack' = Popped(stack, Depth(l))
    /\ kv' = Emplaced(PathOf(stack', l.key), l.value)
    /\ UNCHANGED phase

\* The file cannot be opened: nothing has been read.
FailToOpen ==
    /\ phase = "parse"
    /\ file = <<>>
    /\ phase' = "unopened"
    /\ UNCHANGED <<file, stack, kv, next, cfg, out>>

EndOfFile ==
    /\ phase = "parse"
    /\ phase' = "set"
    /\ UNCHANGED <<file, stack, kv, next, cfg, out>>

\* What maybe_set finds for a field: its default if the file does not name it.
Looked(f) ==
    IF Fields[f].path \in Paths THEN Parse(Fields[f].kind, ValueAt(Fields[f].path))
    ELSE Ok(cfg[f])

\* Bug: the field goes straight into *out.
SetFieldInPlace ==
    /\ phase = "set"
    /\ next \in DOMAIN Fields
    /\ Looked(next).ok
    /\ cfg' = [cfg EXCEPT ![next] = Looked(next).value]
    /\ out' = cfg'
    /\ next' = next + 1
    /\ UNCHANGED <<file, stack, kv, phase>>

SetField ==
    /\ phase = "set"
    /\ next \in DOMAIN Fields
    /\ Looked(next).ok
    /\ cfg' = [cfg EXCEPT ![next] = Looked(next).value]
    /\ next' = next + 1
    /\ UNCHANGED <<file, stack, kv, phase, out>>

RefuseField ==
    /\ phase = "set"
    /\ next \in DOMAIN Fields
    /\ ~Looked(next).ok
    /\ phase' = "failed"
    /\ UNCHANGED <<file, stack, kv, next, cfg, out>>

Deliver ==
    /\ phase = "set"
    /\ next \notin DOMAIN Fields
    /\ out' = cfg
    /\ phase' = "ok"
    /\ UNCHANGED <<file, stack, kv, next, cfg>>

Next ==
    \/ \E l \in Lines : SkipLine(l) \/ RefuseLine(l) \/ OpenSection(l) \/ StorePair(l)
    \/ FailToOpen
    \/ EndOfFile
    \/ SetField
    \/ RefuseField
    \/ Deliver

Spec == Init /\ [][Next]_vars

-----------------------------------------------------------------------------
\* Properties.

Meaningful == {i \in DOMAIN file : ~Skipped(file[i])}

\* Line j is the header of a section that line i is in: everything from j on up to
\* and including i is indented deeper than j.
Encloses(j, i) ==
    /\ j < i /\ file[j].kind = "section"
    /\ \A k \in Meaningful : j < k /\ k <= i => file[k].spaces > file[j].spaces

Enclosing(i) == {j \in Meaningful : Encloses(j, i)}

\* The e-th smallest element of a set of line numbers.
Nth(S, e) == CHOOSE j \in S : Cardinality({k \in S : k < j}) = e - 1

\* The path of a pair as its indentation shows it.
ShownPath(i) ==
    FlattenSeq([e \in 1 .. Cardinality(Enclosing(i)) |->
                    file[Nth(Enclosing(i), e)].key]) \o file[i].key

ShownPairs(path) == {i \in Meaningful : file[i].kind = "pair" /\ ShownPath(i) = path}

First(S) == CHOOSE i \in S : \A j \in S : i <= j

\* Every section indents its lines by the same number of blanks.
Indented(step) == \A i \in Meaningful : file[i].spaces = step * Cardinality(Enclosing(i))

\* What the file says of a field.
Said(f) ==
    IF ShownPairs(Fields[f].path) = {} THEN Ok(Defaults[f])
    ELSE Parse(Fields[f].kind, file[First(ShownPairs(Fields[f].path))].value)

\* A file indented by two blanks loads field by field as its indentation shows,
\* with the first of several values and the default where there is none, whatever
\* sections were opened and closed, and whichever lines were skipped, before.
LoadedAsShown ==
    phase = "ok" /\ Indented(2) =>
        \A f \in DOMAIN Fields : Said(f).ok /\ out[f] = Said(f).value

\* x is n within a range of 2^bits numbers, wrapped around at its ends.
Wraps(x, n, range, bits) == x \in range /\ (x - n) % 2 ^ bits = 0

IntShown(x, v) ==
    v.kind = "number" => v.number \in Range2(LongBits) /\ Wraps(x, v.number, Range2(IntBits), IntBits)

U64Shown(x, v) ==
    v.kind = "number" => Wraps(x, v.number, 0 .. 2 ^ LongBits - 1, LongBits)

\* Numbers end up in the range of their field, and as the file shows them if they fit it.
\* Otherwise an int or an item of a list that is still a long loads, silently, as another
\* int, and an unsigned as its complement; what is no long is refused (parse_int, parse_u64).
NumbersWrap ==
    phase = "ok" /\ Indented(2) =>
        \A f \in DOMAIN Fields : ShownPairs(Fields[f].path) # {} =>
            LET v == file[First(ShownPairs(Fields[f].path))].value
            IN  /\ Fields[f].kind = "int" => IntShown(out[f], v)
                /\ Fields[f].kind = "u64" => U64Shown(out[f], v)
                /\ Fields[f].kind = "list" =>
                      \A i \in DOMAIN v.items : IntShown(out[f][i], v.items[i])

\* A load that fails leaves the caller's Config alone, fields set before the bad one
\* included, and fails for an odd indentation or a field that does not convert.
FailureIsClean ==
    /\ phase \in {"unopened", "failed"} => out = Previous
    /\ phase = "failed" /\ Indented(2) => \E f \in DOMAIN Fields : ~Said(f).ok
=============================================================================
