SPECIFICATION Spec
CONSTANTS
    Conns = {c1, c2}
    Devices = {d1}
SYMMETRY Symm
INVARIANT TypeOK
INVARIANT OnlyVerifiedHandled
INVARIANT FailureIsVisible
