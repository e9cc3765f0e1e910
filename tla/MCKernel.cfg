SPECIFICATION KernelSpec
CONSTANTS
    p1 = p1
    p2 = p2
    p3 = p3
    None = None
    Proc <- Procs
    PipeId = {i1}
    FDS = 2
    RING_SIZE = 2
    SIZE = 4
    Value = {0, 1}
SYMMETRY Symmetry
INVARIANTS TypedOnce RoundTrip PipesSound
PROPERTIES ImplementsFifo ImplementsTty
