------------------------------ MODULE RegexNfa ------------------------------
(***************************************************************************)
(* The compiler of the regular expression engine (stdlib/regex_engine.c):   *)
(* from an expression to the states of an NFA, the filter on the first byte *)
(* and the fast path for runs of classes.                                   *)
(*                                                                         *)
(* An expression is what the parser recognises, a tree:                     *)
(*   [k |-> "leaf", t, set]            one state: a byte, a class, an anchor*)
(*   [k |-> "cat", es], [k |-> "alt", es]                                   *)
(*   [k |-> "group", e]                a capture; (?:e) is e itself         *)
(*   [k |-> "star" | "plus" | "opt", e, greedy]                             *)
(*   [k |-> "rep", e, min, max, greedy]    e{min,max}, max = NoMax: e{min,} *)
(* The states are a sequence and an index is a state's id; 0 is NULL.  A    *)
(* fragment is the states so far with its start and its dangling arrows.    *)
(***************************************************************************)
EXTENDS Integers, Sequences, SequencesExt

CONSTANT
  Bytes,        \* the bytes of expressions and inputs
  NoMax         \* e{min,} has no maximum

ClassRunMax == 8

Consuming == {"LITERAL", "ANY", "CLASS", "CLASS_NEG"}

\* nfa_state_t: arg is the set of bytes or the save slot.
State(t, arg, out1, out2) == [t |-> t, arg |-> arg, out |-> <<out1, out2>>]

Fragment(states, groups, start, patch) ==
  [st |-> states, groups |-> groups, start |-> start, patch |-> patch]

-----------------------------------------------------------------------------
(* Fragments *)

\* fragment_patch: the arrows of the list point to target.
Patch(states, patch, target) ==
  [id \in DOMAIN states |->
     [states[id] EXCEPT !.out = [f \in 1..2 |-> IF <<id, f>> \in patch THEN target ELSE @[f]]]]

\* A fragment of one state (build_empty_quantifier_fragment, parse_atom).
Single(states, groups, t, arg) ==
  LET id == Len(states) + 1
  IN  Fragment(Append(states, State(t, arg, 0, 0)), groups, id, {<<id, 1>>})

\* The two arrows of a split: into the expression, and past it.
Split(enter, greedy) == IF greedy THEN State("SPLIT", {}, enter, 0)
                                  ELSE State("SPLIT", {}, 0, enter)
Past(id, greedy) == <<id, IF greedy THEN 2 ELSE 1>>

\* f and then g, which was built after f on top of its states.
Chain(f, g) == [g EXCEPT !.st = Patch(@, f.patch, g.start), !.start = f.start]

Loop(f, greedy, allowEmpty) ==
  LET id == Len(f.st) + 1
  IN  Fragment(Append(Patch(f.st, f.patch, id), Split(f.start, greedy)), f.groups,
               IF allowEmpty THEN id ELSE f.start, {Past(id, greedy)})

Optional(f, greedy) ==
  LET id == Len(f.st) + 1
  IN  Fragment(Append(f.st, Split(f.start, greedy)), f.groups, id,
               f.patch \union {Past(id, greedy)})

\* fragment_copy: the states from the start of f to end - 1, f's or not, are
\* copied; states of f below its start are not.
Copy(states, f, end) ==
  LET base == f.start
      shift == Len(states) + 1 - base
      Remap(id) == IF id \in base..(end - 1) THEN id + shift ELSE 0
  IN  Fragment(states \o [n \in 1..(end - base) |->
                            LET s == states[base + n - 1]
                            IN  [s EXCEPT !.out = <<Remap(@[1]), Remap(@[2])>>]],
               f.groups, base + shift,
               {<<a[1] + shift, a[2]>> : a \in {b \in f.patch : b[1] \in base..(end - 1)}})

\* build_exact_brace_quantifier
Exact(f, count) ==
  LET end == Len(f.st) + 1
      More(r, n) == Chain(r, Copy(r.st, f, end))
  IN  CASE count = 0 -> Single(f.st, f.groups, "JUMP", {})
        [] count = 1 -> f
        [] OTHER -> FoldLeft(More, Copy(f.st, f, end), [n \in 1..(count - 1) |-> n])

\* build_unbounded_brace_quantifier.  From two on, the copy that is to loop is
\* made of a fragment whose dangling arrows have been freed.
Unbounded(f, min, greedy) ==
  IF min < 2 THEN Loop(f, greedy, min = 0)
  ELSE LET prefix == Exact(f, min)
           again == Copy(prefix.st, [f EXCEPT !.patch = {}], Len(prefix.st) + 1)
       IN  Chain(prefix, Loop(again, greedy, TRUE))

\* build_bounded_brace_quantifier, min < max: min copies, then each optional
\* copy behind a split whose other arrow leaves the whole fragment.
Bounded(f, min, max, greedy) ==
  LET size == Len(f.st) + 1 - f.start
      saved == Copy(f.st, f, Len(f.st) + 1)
      required == Exact([f EXCEPT !.st = saved.st], min)
      More(r, n) ==
        LET copy == Copy(r.f.st, saved, saved.start + size)
            id == Len(copy.st) + 1
            split == Append(copy.st, Split(copy.start, greedy))
        IN  [f |-> IF n = 1 /\ min = 0
                   THEN [copy EXCEPT !.st = split, !.start = id]
                   ELSE Fragment(Patch(split, r.f.patch, id), f.groups, r.f.start, copy.patch),
             skips |-> r.skips \union {Past(id, greedy)}]
      r == FoldLeft(More, [f |-> IF min > 0 THEN required ELSE saved, skips |-> {}],
                    [n \in 1..(max - min) |-> n])
  IN  [r.f EXCEPT !.patch = @ \union r.skips]

\* build_brace_quantifier
Brace(f, min, max, greedy) ==
  CASE max = NoMax -> Unbounded(f, min, greedy)
    [] max = min -> Exact(f, min)
    [] OTHER -> Bounded(f, min, max, greedy)

\* parse_group: the two SAVE states come after the states inside.
Capture(f, group) ==
  LET id == Len(f.st) + 1
  IN  Fragment(Patch(f.st, f.patch, id + 1)
                 \o <<State("SAVE", 2 * group, f.start, 0), State("SAVE", 2 * group + 1, 0, 0)>>,
               f.groups, id, {<<id + 1, 1>>})

\* parse_alternation: the split comes after the states of both sides.
Either(f, g) ==
  LET id == Len(g.st) + 1
  IN  Fragment(Append(g.st, State("SPLIT", {}, f.start, g.start)), g.groups, id,
               f.patch \union g.patch)

-----------------------------------------------------------------------------
(* The whole expression *)

RECURSIVE Build(_, _, _)
Build(states, groups, e) ==
  CASE e.k = "leaf" -> Single(states, groups, e.t, e.set)
    [] e.k = "group" -> Capture(Build(states, groups + 1, e.e), groups)
    [] e.k = "star" -> Loop(Build(states, groups, e.e), e.greedy, TRUE)
    [] e.k = "plus" -> Loop(Build(states, groups, e.e), e.greedy, FALSE)
    [] e.k = "opt" -> Optional(Build(states, groups, e.e), e.greedy)
    [] e.k = "rep" -> Brace(Build(states, groups, e.e), e.min, e.max, e.greedy)
    [] e.k = "cat" ->
         IF e.es = <<>> THEN Single(states, groups, "JUMP", {})
         ELSE LET Then(f, x) == Chain(f, Build(f.st, f.groups, x))
              IN  FoldLeft(Then, Build(states, groups, Head(e.es)), Tail(e.es))
    [] e.k = "alt" ->
         LET Or(f, x) == Either(f, Build(f.st, f.groups, x))
         IN  FoldLeft(Or, Build(states, groups, Head(e.es)), Tail(e.es))

\* The bytes a CLASS, a negated class or a literal stands for.
BytesOf(s) == IF s.t = "CLASS_NEG" THEN Bytes \ s.arg ELSE s.arg

\* compute_first_bytes_walk.  collect_class_bytes clears what was collected
\* before: a class overwrites, a literal adds.
RECURSIVE FirstBytesWalk(_, _, _)
FirstBytesWalk(states, r, id) ==
  IF id = 0 \/ id \in r.visited THEN r
  ELSE LET s == states[id]
           v == [r EXCEPT !.visited = @ \union {id}]
       IN  CASE s.t = "LITERAL" -> [v EXCEPT !.bytes = @ \union s.arg]
             [] s.t \in {"CLASS", "CLASS_NEG"} -> [v EXCEPT !.bytes = BytesOf(s)]
             [] s.t \in {"ANY", "MATCH"} -> [v EXCEPT !.usable = FALSE]
             [] s.t = "SPLIT" ->
                  LET l == FirstBytesWalk(states, v, s.out[1])
                  IN  IF l.usable THEN FirstBytesWalk(states, l, s.out[2]) ELSE l
             [] OTHER -> FirstBytesWalk(states, v, s.out[1])

\* skip_epsilon
RECURSIVE SkipEpsilon(_, _, _)
SkipEpsilon(states, id, limit) ==
  IF id = 0 \/ limit = 0 THEN 0
  ELSE IF states[id].t \in {"SAVE", "JUMP"}
       THEN SkipEpsilon(states, states[id].out[1], limit - 1)
       ELSE id

\* regex_detect_class_run: any split behind a consuming state is taken for
\* the loop of a "+", whatever its first arrow leads to.
RECURSIVE DetectClassRun(_, _, _)
DetectClassRun(states, id, run) ==
  LET Skip(x) == SkipEpsilon(states, x, Len(states))
      s == states[id]
      sp == Skip(s.out[1])
  IN  CASE id = 0 \/ Len(run) = ClassRunMax -> <<>>
        [] id # 0 /\ Len(run) < ClassRunMax ->
             CASE s.t = "MATCH" -> run
               [] s.t \in Consuming \ {"ANY"} ->
                    IF sp # 0 /\ states[sp].t = "SPLIT"
                    THEN DetectClassRun(states, Skip(states[sp].out[2]), Append(run, BytesOf(s)))
                    ELSE <<>>
               [] OTHER -> <<>>

\* vigil_regex_compile: MATCH, then the SAVE states of group 0 around all.
Compile(e) ==
  LET f == Build(<<>>, 1, e)
      n == Len(f.st)
      states == Patch(f.st, f.patch, n + 3)
                  \o <<State("MATCH", {}, 0, 0), State("SAVE", 0, f.start, 0),
                       State("SAVE", 1, n + 1, 0)>>
      first == FirstBytesWalk(states, [bytes |-> {}, usable |-> TRUE, visited |-> {}], n + 2)
  IN  [st |-> states, start |-> n + 2, groups |-> f.groups,
       first |-> IF first.usable THEN first.bytes ELSE Bytes,
       run |-> DetectClassRun(states, SkipEpsilon(states, n + 2, n + 3), <<>>)]
=============================================================================
