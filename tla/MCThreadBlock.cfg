SPECIFICATION BlockSpec
CONSTANTS
    Strides <- MCStrides
    Kernels <- AttentionKernels
INVARIANT
    ReductionsExact
CHECK_DEADLOCK FALSE
