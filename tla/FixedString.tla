----------------------------- MODULE FixedString ----------------------------
(***************************************************************************)
(* fixed_size::basic_string of stl/fixed_size/basic_string.h: a size and   *)
(* an array of N + 1 characters, the one behind the text a terminator.     *)
(* ref is what std::basic_string would hold.  The overloads that differ    *)
(* only in where their characters come from are one action.                *)
(***************************************************************************)
EXTENDS Integers, Sequences

CONSTANTS
  N,       \* _N, the most characters a string can have
  Chars,   \* characters, numbers from 1 on
  MaxArg   \* bound: characters given to one call

Nul == 0
Strings == {1, 2}
Args == UNION {[1 .. k -> Chars] : k \in 0 .. MaxArg}
Unknown == <<Nul>>   \* the unspecified text of a string that was moved from

VARIABLES
  str,       \* the two strings: _size and _data
  ref,       \* what std::basic_string would hold
  deviated,  \* a call did something else
  overrun    \* a character was written behind the array

vars == <<str, ref, deviated, overrun>>

Empty == [size |-> 0, data |-> [i \in 0 .. N |-> Nul]]

Text(v) == [i \in 1 .. v.size |-> v.data[i - 1]]

\* traits_type::copy, move and assign: the characters s written from i on,
\* those that have a place.
Write(v, i, s) ==
  [v EXCEPT !.data = [d \in 0 .. N |-> IF d - i + 1 \in 1 .. Len(s) THEN s[d - i + 1] ELSE @[d]]]

\* The characters from .. to of the array, terminator included.
Chunk(v, from, to) == [i \in 1 .. to - from + 1 |-> v.data[from + i - 1]]

\* s, _size set, and the terminator.
Terminated(v, i, s) ==
  [Write(v, i, Append(s, Nul)) EXCEPT !.size = i + Len(s)]

Result(a, v, r, wrong) ==
  /\ str' = [str EXCEPT ![a] = v] /\ ref' = [ref EXCEPT ![a] = r]
  /\ deviated' = wrong /\ overrun' = (v.size > N)

Init ==
  /\ str = [a \in Strings |-> Empty] /\ ref = [a \in Strings |-> <<>>]
  /\ deviated = FALSE /\ overrun = FALSE

-----------------------------------------------------------------------------
(* Construction and assignment                                             *)

\* A string is destroyed and another one constructed from characters.
ConstructText(a, s) == Len(s) <= N /\ Result(a, Terminated(Empty, 0, s), s, FALSE)

\* operator= and assign() from characters, with the check.
AssignText(a, s) == Len(s) <= N /\ Result(a, Terminated(str[a], 0, s), s, FALSE)

\* operator=(const value_type*), without it.
AssignUnchecked(a, s) == Result(a, Terminated(str[a], 0, s), s, FALSE)

\* assign(first, last): current never moves, the loop writes on.
AssignRange(a, s) ==
  /\ Len(s) <= N
  /\ IF s = <<>> THEN Result(a, Terminated(str[a], 0, s), s, FALSE)
     ELSE /\ overrun' = TRUE
          /\ UNCHANGED <<str, ref, deviated>>

\* Copy construction, operator=(const basic_string&), assign(str).
Copy(a, b) ==
  /\ ref[b] # Unknown
  /\ Result(a, [Write(str[a], 0, Chunk(str[b], 0, str[b].size)) EXCEPT !.size = str[b].size],
            ref[b], FALSE)

\* Move construction (a starts empty) and assignment: the sizes are swapped,
\* the characters copied, the source keeps its own.
Move(a, b, fresh) ==
  LET v == IF fresh THEN Empty ELSE str[a]
      w == str[b]
  IN  /\ ref[b] # Unknown
      /\ str' = [str EXCEPT
           ![a] = [Write(v, 0, Chunk(w, 0, w.size)) EXCEPT !.size = w.size],
           ![b].size = v.size]
      /\ ref' = [ref EXCEPT ![a] = ref[b], ![b] = Unknown]
      /\ UNCHANGED <<deviated, overrun>>

\* basic_string(other, pos): the call that copies is missing.
ConstructFrom(a, b, pos) ==
  /\ ref[b] # Unknown /\ pos <= str[b].size
  /\ Result(a, [Empty EXCEPT !.size = str[b].size],
            SubSeq(ref[b], pos + 1, str[b].size), str[b].size > 0)

\* basic_string(other, pos, count)
ConstructPart(a, b, pos, count) ==
  /\ ref[b] # Unknown /\ pos + count <= str[b].size
  /\ Result(a, Terminated(Empty, 0, SubSeq(Text(str[b]), pos + 1, pos + count)),
            SubSeq(ref[b], pos + 1, pos + count), FALSE)

\* assign(str, pos, count): _size becomes the size of str.
AssignPart(a, b, pos, count) ==
  /\ ref[b] # Unknown /\ pos <= str[b].size /\ count <= str[b].size - pos
  /\ Result(a, [Write(str[a], 0, Chunk(str[b], pos, pos + count)) EXCEPT !.size = str[b].size],
            SubSeq(ref[b], pos + 1, pos + count), count # str[b].size)

-----------------------------------------------------------------------------
(* Modifiers                                                               *)

Clear(a) == Result(a, [Write(str[a], 0, <<Nul>>) EXCEPT !.size = 0], <<>>, FALSE)

Opened(r, i, s) == SubSeq(r, 1, i) \o s \o SubSeq(r, i + 1, Len(r))

\* Mutant: the terminator stays where it was.
InsertLeavesTerminator(a, i, s, std) ==
  LET v == str[a]
      moved == Write(v, i + Len(s), Chunk(v, i, v.size - 1))
  IN  /\ v.size + Len(s) <= N
      /\ Result(a, [Write(moved, i, s) EXCEPT !.size = @ + Len(s)], Opened(ref[a], i, std), s # std)

\* insert(index, s, count) and insert(index, count, t): the rest of the text
\* is moved with its terminator.  std is what should come in.
Insert(a, i, s, std) ==
  LET v == str[a]
      moved == Write(v, i + Len(s), Chunk(v, i, v.size))
  IN  /\ v.size + Len(s) <= N
      /\ Result(a, [Write(moved, i, s) EXCEPT !.size = @ + Len(s)], Opened(ref[a], i, std), s # std)

\* insert(index, str, s_index, count): s_index is not used.
InsertPart(a, i, b, sIndex, count) ==
  /\ ref[b] # Unknown /\ sIndex + count <= str[b].size
  /\ Insert(a, i, SubSeq(Text(str[b]), 1, count), SubSeq(ref[b], sIndex + 1, sIndex + count))

\* The same with count left out: all of str comes in.
InsertRest(a, i, b, sIndex) ==
  /\ ref[b] # Unknown /\ sIndex <= str[b].size
  /\ Insert(a, i, Text(str[b]), SubSeq(ref[b], sIndex + 1, str[b].size))

\* push_back and operator+=(value_type): no check.
PushBack(a, x) == Result(a, Terminated(str[a], str[a].size, <<x>>), Append(ref[a], x), FALSE)

PopBack(a) ==
  LET n == str[a].size - 1
  IN  n >= 0 /\ Result(a, Terminated(str[a], n, <<>>), SubSeq(ref[a], 1, n), FALSE)

\* append() and operator+= of characters, strings and parts of strings.
AppendText(a, s) ==
  /\ str[a].size + Len(s) <= N
  /\ Result(a, Terminated(str[a], str[a].size, s), ref[a] \o s, FALSE)

Next ==
  /\ ~deviated /\ ~overrun
  /\ \E a \in Strings :
       \/ Clear(a)
       \/ \E s \in Args : ConstructText(a, s) \/ AssignText(a, s) \/ AssignRange(a, s)
       \/ \E s \in Args \cup [1 .. N + 1 -> Chars] : AssignUnchecked(a, s)
       \/ Copy(a, 3 - a)
       \/ \E fresh \in BOOLEAN : Move(a, 3 - a, fresh)
       \/ \E pos \in 0 .. N :
            \/ ConstructFrom(a, 3 - a, pos)
            \/ \E count \in 0 .. N : ConstructPart(a, 3 - a, pos, count)
                                       \/ AssignPart(a, 3 - a, pos, count)
       \/ /\ ref[a] # Unknown
          /\ \/ PopBack(a)
             \/ \E x \in Chars : PushBack(a, x)
             \/ \E s \in Args :
                  AppendText(a, s) \/ \E i \in 0 .. str[a].size : Insert(a, i, s, s)
             \/ \E i \in 0 .. str[a].size, sIndex \in 0 .. N :
                  \/ InsertRest(a, i, 3 - a, sIndex)
                  \/ \E count \in 0 .. N : InsertPart(a, i, 3 - a, sIndex, count)

Spec == Init /\ [][Next]_vars

-----------------------------------------------------------------------------
(* Searching                                                               *)

\* traits_type::compare of n characters: the sign of the first difference.
CompareChars(f, g, n) ==
  LET differ == {i \in 0 .. n - 1 : f[i] # g[i]}
      least == CHOOSE i \in differ : \A j \in differ : i <= j
  IN  IF differ = {} THEN 0 ELSE f[least] - g[least]

Sign(n) == IF n > 0 THEN 1 ELSE IF n < 0 THEN -1 ELSE 0

\* compare(str): as many characters as this string has, then the sizes.
Compare(v, w) ==
  LET r == CompareChars(v.data, w.data, v.size)
  IN  Sign(IF r # 0 THEN r ELSE v.size - w.size)

\* Mutant: a match at the very end is not tried.
FindShort(v, s, pos) ==
  LET count == Len(s)
      from[first \in 0 .. v.size + 1] ==
        IF v.size - first <= count THEN -1
        ELSE IF Chunk(v, first, first + count - 1) = s THEN first
        ELSE from[first + 1]
  IN  IF count = 0 THEN (IF pos <= v.size THEN pos ELSE -1)
      ELSE IF pos >= v.size THEN -1 ELSE from[pos]

\* find(s, pos, count); npos is -1.  Jumping to the next place with the first
\* character of s skips only places that do not match.
Find(v, s, pos) ==
  LET count == Len(s)
      from[first \in 0 .. v.size + 1] ==
        IF v.size - first < count THEN -1
        ELSE LET hits == {i \in first .. v.size - count : v.data[i] = s[1]}
                 hit == CHOOSE i \in hits : \A j \in hits : i <= j
             IN  IF hits = {} THEN -1
                 ELSE IF Chunk(v, hit, hit + count - 1) = s THEN hit
                 ELSE from[hit + 1]
  IN  IF count = 0 THEN (IF pos <= v.size THEN pos ELSE -1)
      ELSE IF pos >= v.size THEN -1 ELSE from[pos]

-----------------------------------------------------------------------------
(* Properties                                                              *)

\* Whatever the sequence of calls, a string holds what std::basic_string
\* would, never more than N characters and always a terminator behind them,
\* except after calls that are known to deviate: those with a position that
\* is ignored, push_back and C strings beyond N, and ranges.
ActsAsStdString ==
  ~deviated /\ ~overrun =>
    \A a \in Strings : ref[a] # Unknown =>
      /\ str[a].size <= N /\ Text(str[a]) = ref[a]
      /\ str[a].data[str[a].size] = Nul

\* compare() orders strings as their texts are ordered, although it reads as
\* many characters of the other one as this one has; find() returns the
\* first place at which the text occurs.
SearchesAgree ==
  ~deviated /\ ~overrun =>
    \A a, b \in Strings : ref[a] # Unknown /\ ref[b] # Unknown =>
      LET v == ref[a]
          w == ref[b]
          common == {k \in 0 .. Len(v) : k <= Len(w) /\ SubSeq(v, 1, k) = SubSeq(w, 1, k)}
          same == CHOOSE k \in common : \A l \in common : l <= k
      IN  /\ Compare(str[a], str[b]) =
               IF same < Len(v) /\ same < Len(w) THEN Sign(v[same + 1] - w[same + 1])
               ELSE Sign(Len(v) - Len(w))
          /\ \A s \in Args, pos \in 0 .. N :
               LET at == {i \in pos .. Len(v) - Len(s) : SubSeq(v, i + 1, i + Len(s)) = s}
               IN  IF at = {} THEN Find(str[a], s, pos) = -1
                   ELSE Find(str[a], s, pos) \in at /\ \A i \in at : Find(str[a], s, pos) <= i
=============================================================================
