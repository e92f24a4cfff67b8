SPECIFICATION Spec
CONSTANTS
    g1 = g1
    g2 = g2
    Bits = 3
    Words = 2
    Seqs <- MCSeqs
    Goroutines <- MCGoroutines
SYMMETRY MCSymmetry
INVARIANTS
    NeverTwice
    WindowInv
PROPERTIES
    RejectionIsFinal
    ImplementsFilter
