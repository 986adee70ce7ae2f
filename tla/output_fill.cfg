\* Two cameras, two sizes and one that the packed planes refuse.
SPECIFICATION Spec
CONSTANTS
    Threads = {t1, t2}
    Sizes = {small, large, odd}
    Unpackable = {odd}
    None = None
INVARIANTS
    ContextWithLock
    SamplesAfterFence
    CompleteOrFenced
    FallbackIsAlone
    TargetsFit
