SPECIFICATION Spec
CONSTANT Graphs <- MCGraphs
INVARIANT ForksAreRefused
