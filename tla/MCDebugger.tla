----------------------------- MODULE MCDebugger -----------------------------
\* A main thread and one spawned thread; the second breakpoint makes the
\* array of breakpoints grow.
EXTENDS Debugger

MCLines == 1 .. 2
MCMaxDepth == [v \in {Main} \cup Workers |-> IF v = Main THEN 2 ELSE 1]
=============================================================================
