\* Every function, asked for one, two and three of what it makes arrays of.
CONSTANT Sizes = {1, 2, 3}
SPECIFICATION Spec
INVARIANTS ReleasesOwn NothingLost ReturnsWhole
\* A function fails, or is destroyed, and that is the end of it.
CHECK_DEADLOCK FALSE
