---------------------------- MODULE CursorPaging ----------------------------
(***************************************************************************)
(* A client pages through a list while rows come and go.  A page is the    *)
(* first Limit rows with an id above the cursor, the next cursor the id of *)
(* its last row, and a short page is the last one.  Ids are random (uuid4) *)
(* and immutable.  Most listings order their rows by id; the timeline and  *)
(* the notes of a case order them by time, and that is the order here.     *)
(***************************************************************************)
EXTENDS Naturals, FiniteSets, SequencesExt

CONSTANTS
    Ids,            \* the row ids, as the positions they sort at
    Limit,
    MaxKey          \* bounds the insertions

VARIABLES
    key,        \* of each row: its place in the order of time; 0 without a row
    clock,      \* the last key given out
    cursor,     \* of the client; 0 on the first page
    seen,       \* what it has read, in order
    kept,       \* the rows that were there when it began and still are
    done

vars == <<key, clock, cursor, seen, kept, done>>

Rows == {i \in Ids : key[i] # 0}

Before(i, j) == key[i] < key[j]

FirstOf(s) == SubSeq(s, 1, IF Len(s) < Limit THEN Len(s) ELSE Limit)

\* select ... where id > cursor order by ... limit ...
Page(c) ==
    FirstOf(SetToSortSeq({i \in Rows : i > c}, Before))

\* next_cursor is only given after a full page.
IsLast(page) == Len(page) # Limit

NextCursor(page) == Last(page)

-----------------------------------------------------------------------------
Read ==
    LET page == Page(cursor)
    IN  /\ ~done
        /\ seen' = seen \o page
        /\ done' = IsLast(page)
        /\ cursor' = IF IsLast(page) THEN cursor ELSE NextCursor(page)
        /\ UNCHANGED <<key, clock, kept>>

\* Another request adds a row: any free id, a later key.
Insert(i) ==
    /\ ~done /\ clock < MaxKey
    /\ key[i] = 0 /\ \A k \in DOMAIN seen : seen[k] # i
    /\ clock' = clock + 1
    /\ key' = [key EXCEPT ![i] = clock + 1]
    /\ UNCHANGED <<cursor, seen, kept, done>>

Delete(i) ==
    /\ ~done
    /\ key[i] # 0
    /\ key' = [key EXCEPT ![i] = 0]
    /\ kept' = kept \ {i}
    /\ UNCHANGED <<clock, cursor, seen, done>>

Stay == done /\ UNCHANGED vars

\* A list somebody has filled: keys were given out in the order of creation.
Init ==
    \E n \in 0 .. Cardinality(Ids) :
        /\ key \in {f \in [Ids -> 0 .. n] :
                      \A k \in 1 .. n : Cardinality({i \in Ids : f[i] = k}) = 1}
        /\ clock = n
        /\ cursor = 0
        /\ seen = <<>>
        /\ kept = Rows
        /\ done = FALSE

Next == Read \/ (\E i \in Ids : Insert(i) \/ Delete(i)) \/ Stay

Spec == Init /\ [][Next]_vars

-----------------------------------------------------------------------------
(* Properties. *)

\* core/db/base_repository.py, cursor-based pagination: a client that has read
\* the last page has read every row that was there all the time.
PagesCoverTheList == done => kept \subseteq ToSet(seen)
=============================================================================
