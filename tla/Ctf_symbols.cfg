CONSTANTS
    k1 = k1
    k2 = k2
    k3 = k3
    Kernels <- ThreeKernels
    Compressed <- TwoKernels
SPECIFICATION Spec
INVARIANT SymbolsMatch
