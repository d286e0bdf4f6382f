SPECIFICATION RepositorySpec
CONSTANTS
    Dirs = {"a", "b"}
    Versions = {1, 2}
    Configured = {1, 3}
INVARIANT ErrorsIsolated
CHECK_DEADLOCK FALSE
