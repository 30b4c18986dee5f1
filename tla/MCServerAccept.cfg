SPECIFICATION FairSpec
CONSTANTS
    Transfer = {t1, t2}
    AnyPort = {{}, {t1}, {t1, t2}}
    Stranger = stranger
    Mishap = {"ABORT_PASSIVE", "ABORT_ACTIVE", "LOOKUP_FAILS", "STRANGER"}
    MaxStops = 1
INVARIANTS
    TypeOK
    EntryKept
    ListKept
    OwnConnection
PROPERTIES
    AdmittedOnce
    InvitedConnects
