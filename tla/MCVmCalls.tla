------------------------------ MODULE MCVmCalls ------------------------------
\* Call nesting past the capacity of the frame array, three deferred calls.
EXTENDS VmCalls
=============================================================================
