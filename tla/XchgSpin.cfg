SPECIFICATION FairSpec
CONSTANT N = 3
INVARIANTS LockExclusive
PROPERTIES ImplementsPthreadSpin ImplementsAtomicCounter Terminates
