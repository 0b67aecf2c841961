CONSTANTS
    cm = cm
    Nobody = Nobody
    Senders = {s1}
    Requesters = {r1}
    Readers = {s1, r1}
    Writers = {cm}
    Waits = {"forever", "finite"}
    MaxEvents = 3
    WakelockMax = 3
SPECIFICATION PsSpec
INVARIANT ExitReleases
CHECK_DEADLOCK FALSE
