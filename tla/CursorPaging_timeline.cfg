\* The timeline, ordered by timestamp and cut by id.
SPECIFICATION Spec
CONSTANTS
    Ids = {1, 2, 3, 4, 5}
    Limit = 2
    MaxKey = 6
INVARIANTS
    PagesCoverTheList
