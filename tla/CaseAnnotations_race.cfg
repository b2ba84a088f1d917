\* Three requests overlap, with PostgreSQL's row locks.
SPECIFICATION Spec
CONSTANTS
    Requests = {r1, r2, r3}
    Tags = {"t1", "t2"}
    Texts = {"x", "y"}
    SeedText = "x"
    WholeDatabaseLock = FALSE
SYMMETRY Symmetry
INVARIANTS
    TypeOK
    NoteShowsLastSent
    DeletedStaysDeleted
    AnsweredTagsStay
