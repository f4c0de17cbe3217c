\* Unique messages, with crashes between the pop and the lease too.
SPECIFICATION Spec
CONSTANTS
    Messages = {m1, m2}
    Consumers = {c1, c2}
    None = None
    Modes <- UniqueAnywhere
    MaxPushes = 2
    MaxFaults = 2
INVARIANT NothingStranded
