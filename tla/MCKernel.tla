------------------------------ MODULE MCKernel ------------------------------
EXTENDS Kernel, TLC

\* No thread is told apart from another, and the run has no liveness property.
Symmetry == Permutations(Threads)

\* What follows an overwritten ownership is not followed: overwritten never
\* goes back, and the properties of the mutex say nothing of it.
Explored == ~overwritten
=============================================================================
