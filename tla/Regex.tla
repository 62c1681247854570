------------------------------- MODULE Regex -------------------------------
(***************************************************************************)
(* Calls of the regular expression engine: match, find, find_all,           *)
(* replace_all and split (stdlib/regex_engine.c).                           *)
(*                                                                         *)
(* A behaviour is one call.  A step is one start position of the search     *)
(* (the body of the loop of regex_find_reuse), at which the NFA of RegexNfa *)
(* is simulated over the rest of the input, or one pass of the fast path.   *)
(* Positions count from 0, as in the code.                                  *)
(***************************************************************************)
EXTENDS RegexNfa, FiniteSets, FiniteSetsExt

CONSTANTS
  Newline,      \* the byte '\n'
  WordBytes,    \* isalnum or '_'
  Lower, Upper, \* tolower, toupper
  Patterns,     \* records [e, i, m, s]: an expression and its inline flags
  Inputs,       \* sequences of bytes, shorter than 255 (see Closure)
  MaxResults,   \* results_cap
  Marker, None  \* what replaces a match; an unset save slot (SIZE_MAX)

ASSUME RegexAssumption ==
  /\ Newline \in Bytes /\ WordBytes \subseteq Bytes
  /\ Lower \in [Bytes -> Bytes] /\ Upper \in [Bytes -> Bytes]
  /\ MaxResults \in Nat \ {0} /\ Marker \notin Bytes /\ None \notin Nat
  /\ \A w \in Inputs : w \in Seq(Bytes) /\ Len(w) < 255

Ops == {"match", "find", "find_all", "replace_all", "split"}

VARIABLES
  op, p, w,     \* the call: operation, pattern, input
  re,           \* the compiled pattern
  pc,           \* "search", then "done"
  from,         \* pos, in_pos: where the search for the next match began
  start,        \* the start position the search has come to
  results,      \* the matches found
  out,          \* replace_all, split: the output (a Marker between parts)
  overrun       \* replace_all: input_len - in_pos was below 0

call == <<op, p, w, re>>
vars == <<call, pc, from, start, results, out, overrun>>

-----------------------------------------------------------------------------
(* Simulation of the NFA *)

\* Tests without width, at position i of input v with flags q.
IsWord(v, i) == i \in 0..(Len(v) - 1) /\ v[i + 1] \in WordBytes

Holds(t, q, v, i) ==
  CASE t = "ANCHOR_START" -> i = 0 \/ (q.m /\ v[i] = Newline)
    [] t = "ANCHOR_END" -> i = Len(v) \/ (q.m /\ v[i + 1] = Newline)
    [] t = "WORD_BOUNDARY" -> IsWord(v, i - 1) # IsWord(v, i)
    [] t = "NOT_WORD_BOUNDARY" -> IsWord(v, i - 1) = IsWord(v, i)

\* add_state: a thread [id, saves] joins the list, through the states that
\* consume nothing, unless its state is visited.  Bound: a visited mark is a
\* byte and a generation is not, so that marks tell for 255 positions only.
RECURSIVE AddState(_, _, _, _)
AddState(l, id, saves, i) ==
  IF id = 0 \/ id \in l.visited THEN l
  ELSE LET s == re.st[id]
           v == [l EXCEPT !.visited = @ \union {id}]
       IN  CASE s.t = "SPLIT" ->
                  AddState(AddState(v, s.out[1], saves, i), s.out[2], saves, i)
             [] s.t = "JUMP" -> AddState(v, s.out[1], saves, i)
             [] s.t = "SAVE" -> AddState(v, s.out[1], [saves EXCEPT ![s.arg] = i], i)
             [] s.t \in Consuming \union {"MATCH"} ->
                  [v EXCEPT !.list = Append(@, [id |-> id, saves |-> saves])]
             [] OTHER -> IF Holds(s.t, p, w, i) THEN AddState(v, s.out[1], saves, i) ELSE v

NoThreads == [list |-> <<>>, visited |-> {}]

\* The threads of a search that starts at i.
Closure(i) == AddState(NoThreads, re.start, [n \in 0..(2 * re.groups - 1) |-> None], i).list

Accepts(s, c) ==
  CASE s.t = "LITERAL" -> IF p.i THEN \E b \in s.arg : Lower[b] = Lower[c] ELSE c \in s.arg
    [] s.t = "ANY" -> p.s \/ c # Newline
    [] s.t = "CLASS" -> IF p.i THEN {Lower[c], Upper[c]} \intersect s.arg # {} ELSE c \in s.arg
    [] s.t = "CLASS_NEG" -> IF p.i THEN {Lower[c], Upper[c]} \intersect s.arg = {}
                                   ELSE c \notin s.arg
    [] OTHER -> FALSE

\* step: the threads that accept the byte at i go on at i + 1.
Step(list, i) ==
  LET Go(l, th) == IF Accepts(re.st[th.id], w[i + 1])
                   THEN AddState(l, re.st[th.id].out[1], th.saves, i + 1) ELSE l
  IN  FoldLeft(Go, NoThreads, list).list

\* check_match: the groups of the first thread in MATCH, if there is one.
CheckMatch(list) ==
  LET matches == SelectSeq(list, LAMBDA th : re.st[th.id].t = "MATCH")
  IN  IF matches = <<>> THEN <<>>
      ELSE <<[g \in 0..(re.groups - 1) |->
                <<matches[1].saves[2 * g], matches[1].saves[2 * g + 1]>>]>>

\* Mutant: the first match that ends is kept.
RECURSIVE MutantLongest(_, _, _)
MutantLongest(list, i, best) ==
  LET b == IF best # <<>> THEN best ELSE CheckMatch(list)
  IN  IF i = Len(w) THEN b ELSE MutantLongest(Step(list, i), i + 1, b)

\* The rest of the input is consumed; a later match replaces an earlier one.
RECURSIVE Longest(_, _, _)
Longest(list, i, best) ==
  LET found == CheckMatch(list)
      b == IF found # <<>> THEN found ELSE best
  IN  IF i = Len(w) THEN b ELSE Longest(Step(list, i), i + 1, b)

RECURSIVE AtEnd(_, _)
AtEnd(list, i) == IF i = Len(w) THEN CheckMatch(list) ELSE AtEnd(Step(list, i), i + 1)

-----------------------------------------------------------------------------
(* The fast path *)

\* The end of the longest run of bytes of the class from i.
RunEnd(class, i) ==
  Min({j \in i..Len(w) : j = Len(w) \/ w[j + 1] \notin class})

\* class_run_match_at: each class in turn takes all it can.
RECURSIVE RunMatchAt(_, _)
RunMatchAt(run, i) ==
  IF run = <<>> THEN i
  ELSE IF RunEnd(Head(run), i) = i THEN None
       ELSE RunMatchAt(Tail(run), RunEnd(Head(run), i))

\* regex_class_run_find_all
RECURSIVE RunFindAll(_, _)
RunFindAll(i, max) ==
  IF i >= Len(w) \/ max = 0 THEN <<>>
  ELSE LET end == RunMatchAt(re.run, i)
       IN  IF end = None THEN RunFindAll(i + 1, max)
           ELSE <<[g \in {0} |-> <<i, end>>]>> \o RunFindAll(end, max - 1)

-----------------------------------------------------------------------------
(* The calls *)

Piece(i, j) == SubSeq(w, i + 1, j)

\* vigil_regex_split: the input between the matches.
RECURSIVE PartsFrom(_, _)
PartsFrom(found, i) ==
  IF found = <<>> THEN Piece(i, Len(w))
  ELSE Piece(i, found[1][0][1]) \o <<Marker>> \o PartsFrom(Tail(found), found[1][0][2])

Return(found) ==
  /\ pc' = "done"
  /\ results' = found
  /\ out' = IF op = "split" THEN PartsFrom(found, 0) ELSE out

\* vigil_regex_match: all of the input, from 0.
MatchWhole ==
  /\ op = "match" /\ pc = "search"
  /\ Return(AtEnd(Closure(0), 0))
  /\ UNCHANGED <<call, from, start, overrun>>

UsesRuns == op \in {"find", "find_all", "split"} /\ re.run # <<>>

ScanRuns ==
  /\ pc = "search" /\ UsesRuns
  /\ Return(RunFindAll(0, IF op = "find" THEN 1 ELSE MaxResults))
  /\ UNCHANGED <<call, from, start, overrun>>

Searching == pc = "search" /\ op # "match" /\ ~UsesRuns

Filtered == start < Len(w) /\ w[start + 1] \notin re.first

\* The filter rules the position out, or nothing matches there.
NextStart ==
  /\ Searching /\ start <= Len(w)
  /\ Filtered \/ Longest(Closure(start), start, <<>>) = <<>>
  /\ start' = start + 1
  /\ UNCHANGED <<call, pc, from, results, out, overrun>>

\* Mutant: the search goes on where an empty match ended.
MutantAfterEmpty(end) == end

\* Mutant: a byte is stepped over behind every match.
MutantAfter(end) == end + 1

\* Behind an empty match at the place where its search began one byte is
\* stepped over.
After(end) == IF end <= from THEN end + 1 ELSE end

TakeMatch ==
  /\ Searching /\ start <= Len(w) /\ ~Filtered
  /\ LET match == Longest(Closure(start), start, <<>>)
         found == Append(results, match[1])
         end == match[1][0][2]
     IN  /\ match # <<>>
         /\ IF op = "find" \/ (op # "replace_all" /\ Len(found) = MaxResults)
            THEN Return(found) /\ UNCHANGED <<from, start>>
            ELSE /\ from' = After(end) /\ start' = After(end)
                 /\ results' = found
                 /\ out' = IF op = "replace_all"
                           THEN out \o Piece(from, start) \o <<Marker>> ELSE out
                 /\ UNCHANGED pc
  /\ UNCHANGED <<call, overrun>>

\* No further match.  replace_all copies input_len - in_pos bytes.
NoMore ==
  /\ Searching /\ start > Len(w)
  /\ IF op = "replace_all"
     THEN /\ out' = out \o Piece(from, Len(w))
          /\ overrun' = (from > Len(w))
          /\ pc' = "done" /\ UNCHANGED results
     ELSE Return(results) /\ UNCHANGED overrun
  /\ UNCHANGED <<call, from, start>>

Init ==
  /\ op \in Ops /\ p \in Patterns /\ w \in Inputs
  /\ re = Compile(p.e)
  /\ pc = "search" /\ from = 0 /\ start = 0
  /\ results = <<>> /\ out = <<>> /\ overrun = FALSE

Next == MatchWhole \/ ScanRuns \/ NextStart \/ TakeMatch \/ NoMore

Spec == Init /\ [][Next]_vars

-----------------------------------------------------------------------------
(* Reference: what an expression means *)

\* With flag i a byte stands for all bytes of its letter.
Same(q, b, c) == b = c \/ (q.i /\ Lower[b] = Lower[c])

Member(q, e, c) ==
  CASE e.t = "ANY" -> q.s \/ c # Newline
    [] e.t \in {"LITERAL", "CLASS"} -> \E b \in e.set : Same(q, b, c)
    [] e.t = "CLASS_NEG" -> ~\E b \in e.set : Same(q, b, c)

\* Where a match of e from i can end.
RECURSIVE Ends(_, _, _), EndsOfMany(_, _, _), EndsTimes(_, _, _, _)
Ends(q, e, i) ==
  CASE e.k = "leaf" ->
         IF e.t \in Consuming
         THEN IF i < Len(w) /\ Member(q, e, w[i + 1]) THEN {i + 1} ELSE {}
         ELSE IF Holds(e.t, q, w, i) THEN {i} ELSE {}
    [] e.k = "group" -> Ends(q, e.e, i)
    [] e.k = "cat" ->
         IF e.es = <<>> THEN {i}
         ELSE UNION {Ends(q, [e EXCEPT !.es = Tail(@)], j) : j \in Ends(q, Head(e.es), i)}
    [] e.k = "alt" -> UNION {Ends(q, x, i) : x \in ToSet(e.es)}
    [] e.k = "opt" -> {i} \union Ends(q, e.e, i)
    [] e.k = "star" -> EndsOfMany(q, e.e, {i})
    [] e.k = "plus" -> EndsOfMany(q, e.e, Ends(q, e.e, i))
    [] e.k = "rep" ->
         IF e.max = NoMax THEN EndsOfMany(q, e.e, EndsTimes(q, e.e, {i}, e.min))
         ELSE UNION {EndsTimes(q, e.e, {i}, n) : n \in e.min..e.max}

EndsOfMany(q, e, ends) ==
  LET more == ends \union UNION {Ends(q, e, j) : j \in ends}
  IN  IF more = ends THEN ends ELSE EndsOfMany(q, e, more)

EndsTimes(q, e, ends, n) ==
  IF n = 0 THEN ends ELSE EndsTimes(q, e, UNION {Ends(q, e, j) : j \in ends}, n - 1)

\* The leftmost match from i on, and the longest of these: <<start, end>>.
RefFind(i) ==
  LET starts == {j \in i..Len(w) : Ends(p, p.e, j) # {}}
  IN  IF starts = {} THEN <<>> ELSE <<<<Min(starts), Max(Ends(p, p.e, Min(starts)))>>>>

RECURSIVE RefFindAll(_, _)
RefFindAll(i, max) ==
  LET m == RefFind(i)
  IN  IF m = <<>> \/ max = 0 THEN <<>>
      ELSE m \o RefFindAll(IF m[1][1] = m[1][2] THEN m[1][2] + 1 ELSE m[1][2], max - 1)

\* The expressions of the groups, in the order of their opening.
RECURSIVE GroupsOf(_)
GroupsOf(e) ==
  CASE e.k = "leaf" -> <<>>
    [] e.k = "group" -> <<e.e>> \o GroupsOf(e.e)
    [] e.k \in {"cat", "alt"} -> FlattenSeq([n \in DOMAIN e.es |-> GroupsOf(e.es[n])])
    [] OTHER -> GroupsOf(e.e)

-----------------------------------------------------------------------------
(* Where the engine is known to depart from the reference *)

RECURSIVE SubExprs(_)
SubExprs(e) ==
  {e} \union (CASE e.k = "leaf" -> {}
                [] e.k \in {"cat", "alt"} -> UNION {SubExprs(x) : x \in ToSet(e.es)}
                [] OTHER -> SubExprs(e.e))

\* The start of e is the first of its states.
RECURSIVE StartsFirst(_)
StartsFirst(e) ==
  CASE e.k = "leaf" -> TRUE
    [] e.k = "plus" -> StartsFirst(e.e)
    [] e.k = "cat" -> e.es = <<>> \/ StartsFirst(Head(e.es))
    [] OTHER -> FALSE

\* regex_engine.c:886, :1049: a repetition copies only the states from the
\* start on, and the loop of e{n,} has no arrow back.
CopyIncomplete ==
  \E x \in SubExprs(p.e) :
    /\ x.k = "rep"
    /\ IF x.max = NoMax THEN x.min > 1
       ELSE (x.max > 1 \/ x.min < x.max) /\ ~StartsFirst(x.e)

\* The leaves a match can begin with, and whether e can match nothing.
RECURSIVE Nullable(_), FirstLeaves(_)
Nullable(e) ==
  CASE e.k = "leaf" -> e.t \notin Consuming
    [] e.k = "cat" -> \A x \in ToSet(e.es) : Nullable(x)
    [] e.k = "alt" -> \E x \in ToSet(e.es) : Nullable(x)
    [] e.k \in {"star", "opt"} -> TRUE
    [] e.k = "rep" -> e.min = 0 \/ Nullable(e.e)
    [] OTHER -> Nullable(e.e)
FirstLeaves(e) ==
  CASE e.k = "leaf" -> IF e.t \in Consuming THEN {e} ELSE {}
    [] e.k = "cat" ->
         UNION {FirstLeaves(e.es[n]) : n \in {k \in DOMAIN e.es : \A j \in 1..(k - 1) : Nullable(e.es[j])}}
    [] e.k = "alt" -> UNION {FirstLeaves(x) : x \in ToSet(e.es)}
    [] OTHER -> FirstLeaves(e.e)

\* regex_engine.c:1599: among several leaves a class drops the others' bytes;
\* the filter knows no flag i.
FilterMisses ==
  /\ ~Nullable(p.e) /\ \A x \in FirstLeaves(p.e) : x.t # "ANY"
  /\ p.i \/ (Cardinality(FirstLeaves(p.e)) > 1 /\ \E x \in FirstLeaves(p.e) : x.t # "LITERAL")

\* regex_engine.c:1698: the fast path is right for leaf+leaf+..., without flag
\* i, when no class shares a byte with the next.
IsLeafPlus(e) == e.k = "plus" /\ e.e.k = "leaf"
RunMisread ==
  /\ re.run # <<>>
  /\ \/ p.i \/ ~(IsLeafPlus(p.e) \/ (p.e.k = "cat" /\ \A x \in ToSet(p.e.es) : IsLeafPlus(x)))
     \/ \E n \in 1..(Len(re.run) - 1) : re.run[n] \intersect re.run[n + 1] # {}

Departs ==
  CASE op = "match" -> CopyIncomplete
    [] op = "replace_all" -> CopyIncomplete \/ FilterMisses
    [] OTHER -> CopyIncomplete \/ (IF re.run # <<>> THEN RunMisread ELSE FilterMisses)

-----------------------------------------------------------------------------
(* Properties *)

TypeOK ==
  /\ op \in Ops /\ p \in Patterns /\ w \in Inputs
  /\ pc \in {"search", "done"} /\ overrun \in BOOLEAN
  /\ from \in 0..(Len(w) + 1) /\ start \in from..(Len(w) + 1)
  /\ Len(out) <= 2 * (Len(w) + 1) + 1 /\ ToSet(out) \subseteq Bytes \union {Marker}
  /\ \A n \in DOMAIN results : results[n][0][1] \in 0..Len(w) /\ results[n][0][2] \in 0..Len(w)

Span(match) == match[0]

\* A group is unset or inside the match, and its text is matched by its
\* expression.
GroupsExact(match) ==
  \A g \in DOMAIN match \ {0} :
    \/ match[g] = <<None, None>>
    \/ /\ Span(match)[1] <= match[g][1] /\ match[g][2] <= Span(match)[2]
       /\ match[g][2] \in Ends(p, GroupsOf(p.e)[g], match[g][1])

\* Where the engine does not depart, match tells whether the expression
\* matches all of the input, and find returns the leftmost of its matches,
\* of these the longest, with groups that matched what they enclose
\* (regex_engine.c:1913, regex_engine.c:2115).
SearchExact ==
  pc = "done" /\ ~Departs =>
    /\ op = "match" =>
         /\ (results # <<>>) <=> (Len(w) \in Ends(p, p.e, 0))
         /\ \A n \in DOMAIN results : GroupsExact(results[n])
    /\ op = "find" =>
         /\ RefFind(0) = [n \in DOMAIN results |-> Span(results[n])]
         /\ \A n \in DOMAIN results : GroupsExact(results[n])

\* The input with a marker for each of the matches.
RECURSIVE Marked(_, _)
Marked(spans, i) ==
  IF spans = <<>> THEN Piece(i, Len(w))
  ELSE Piece(i, spans[1][1]) \o <<Marker>> \o Marked(Tail(spans), spans[1][2])

\* The matches find_all and split are about: the first MaxResults, which is
\* all their array has room for.  The array has 256 places (regex.c:262,
\* regex_engine.c:2403), and beyond them matches are left out without an
\* error, although regex.c:734 promises "all matched substrings".
\* replace_all knows no such limit.
FirstMatches ==
  RefFindAll(0, IF op = "replace_all" THEN Len(w) + 1 ELSE MaxResults)

Empty(span) == span[1] = span[2]

\* An empty match away from where its search began is found again
\* (regex_engine.c:2173); replace_all loses the byte behind each empty match.
EmptyMisread(spans) ==
  \E n \in DOMAIN spans :
    /\ Empty(spans[n])
    /\ \/ op = "replace_all"
       \/ spans[n][1] # (CASE n = 1 -> 0
                         [] n > 1 /\ Empty(spans[n - 1]) -> spans[n - 1][2] + 1
                         [] OTHER -> spans[n - 1][2])

\* The matches of find_all, replace_all and split never overlap.  Where the
\* engine does not depart and misreads no empty match, those of find_all and
\* split are the first MaxResults there are, and not always all, and those of
\* replace_all are all, from left to right, each the leftmost and longest
\* behind the one before, and the output of replace_all and split is the input
\* with these matches taken out; nothing is read past the input
\* (regex_engine.c:2147, regex_engine.c:2304, regex_engine.c:2399).
AllExact ==
  pc = "done" /\ op \in {"find_all", "replace_all", "split"} =>
    LET spans == [n \in DOMAIN results |-> Span(results[n])]
    IN  /\ \A n \in 2..Len(spans) : spans[n - 1][2] <= spans[n][1]
        /\ ~Departs /\ ~EmptyMisread(FirstMatches) =>
             /\ spans = FirstMatches
             /\ op # "find_all" => out = Marked(FirstMatches, 0)
             /\ ~overrun
=============================================================================
