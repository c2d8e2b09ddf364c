SPECIFICATION Spec
INVARIANTS
    LinesFollow
    PrioritiesNest
    BuffersConserved
