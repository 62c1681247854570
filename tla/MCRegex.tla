------------------------------ MODULE MCRegex ------------------------------
(* Expressions over two letters of one case pair, a digit and a newline.     *)
EXTENDS Regex

CONSTANTS a, A, d, nl

Leaf(t, set) == [k |-> "leaf", t |-> t, set |-> set]
Lit(b) == Leaf("LITERAL", {b})
Class(set) == Leaf("CLASS", set)
Not(set) == Leaf("CLASS_NEG", set)
Anchor(t) == Leaf(t, {})
Cat(es) == [k |-> "cat", es |-> es]
Alt(es) == [k |-> "alt", es |-> es]
Group(e) == [k |-> "group", e |-> e]
Star(e) == [k |-> "star", e |-> e, greedy |-> TRUE]
Plus(e) == [k |-> "plus", e |-> e, greedy |-> TRUE]
Opt(e) == [k |-> "opt", e |-> e, greedy |-> TRUE]
Lazy(e) == [e EXCEPT !.greedy = FALSE]
Rep(e, min, max) == [k |-> "rep", e |-> e, min |-> min, max |-> max, greedy |-> TRUE]
Dot == Leaf("ANY", {})

Plain(e) == [e |-> e, i |-> FALSE, m |-> FALSE, s |-> FALSE]

MCPatterns ==
  {Plain(e) : e \in {
     Cat(<<Lit(a), Lit(d)>>),
     Alt(<<Lit(a), Lit(d), Cat(<<Lit(a), Lit(d)>>)>>),
     Star(Group(Alt(<<Lit(a), Cat(<<Lit(a), Lit(d)>>)>>))),
     Cat(<<Star(Star(Lit(a))), Lit(d)>>),
     Cat(<<Plus(Group(Star(Lit(a)))), Lit(d)>>),
     Cat(<<Lazy(Star(Dot)), Lit(d)>>),
     Lazy(Plus(Lit(a))),
     Cat(<<Plus(Class({a, A})), Plus(Class({d, nl}))>>),
     Cat(<<Plus(Class({a, d})), Plus(Lit(d))>>),
     Cat(<<Lit(a), Opt(Lit(d))>>),
     Plus(Group(Not({a}))),
     Alt(<<Lit(a), Class({d})>>),
     Cat(<<Opt(Class({d})), Lit(a)>>),
     Cat(<<Lit(d), Rep(Lit(a), 1, 3)>>),
     Cat(<<Rep(Cat(<<Lit(a), Lit(d)>>), 2, 2)>>),
     Cat(<<Rep(Plus(Lit(a)), 0, 2), Lit(d)>>),
     Rep(Group(Lit(a)), 2, 2),
     Rep(Lit(a), 2, NoMax),
     Cat(<<Rep(Lit(a), 0, NoMax), Lit(d)>>),
     Cat(<<Anchor("ANCHOR_START"), Star(Lit(a)), Anchor("ANCHOR_END")>>),
     Cat(<<Anchor("WORD_BOUNDARY"), Lit(a)>>),
     Cat(<<Lit(a), Anchor("NOT_WORD_BOUNDARY"), Opt(Group(Lit(d)))>>),
     Anchor("ANCHOR_END"),
     Cat(<<Group(Cat(<<>>)), Lit(d)>>)}}
  \union
  {[Plain(Cat(<<Lit(a), Dot>>)) EXCEPT !.i = TRUE],
   [Plain(Cat(<<Dot, Class({A})>>)) EXCEPT !.i = TRUE, !.s = TRUE],
   [Plain(Cat(<<Dot, Not({a, d})>>)) EXCEPT !.i = TRUE],
   [Plain(Cat(<<Anchor("ANCHOR_START"), Plus(Lit(a)), Anchor("ANCHOR_END")>>)) EXCEPT !.m = TRUE]}

MCInputs == BoundedSeq({a, A, d, nl}, 2) \union BoundedSeq({a, d}, 4)
            \union {<<a, nl, a>>, <<d, nl, a, A>>}

MCLower == [b \in Bytes |-> IF b = A THEN a ELSE b]
MCUpper == [b \in Bytes |-> IF b = a THEN A ELSE b]
=============================================================================
