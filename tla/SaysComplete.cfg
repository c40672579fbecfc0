SPECIFICATION Spec
CONSTANTS
    r1 = r1
    r2 = r2
    Absent = Absent
    Torn = Torn
    Page = Page
    Release = {r1, r2}
    Fork = {"electra", "fulu"}
    Member <- MCMember
    Contents <- MCContents
INVARIANTS
    CompleteIsComplete
