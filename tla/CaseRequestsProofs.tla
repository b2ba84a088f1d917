------------------------- MODULE CaseRequestsProofs -------------------------
(***************************************************************************)
(* Proofs about CaseRequests: for any number of cases and of concurrent    *)
(* requests, with either kind of write lock, the committed rows and their  *)
(* timeline stay consistent although every handler works on objects that   *)
(* may be stale; a timeline has what answered requests inserted, of five   *)
(* kinds of entries only what was announced to the subscribers, and a      *)
(* status that was answered with success once.  The server that handles    *)
(* one request at a time obeys the lifecycle the concurrent one breaks,    *)
(* and it implements the CaseBoard.                                        *)
(***************************************************************************)
EXTENDS CaseBoardRefinement, FiniteSetTheorems, TLAPS

Holding == {"flush", "record", "ingest", "analyze", "move", "score", "commit"}

IsStatusEntry(e) == e.kind \in StatusKinds

\* Where a handler is says what its session holds.
PlaceInv == \A r \in Requests :
    /\ pc[r] = "idle" <=> req[r] = NoRequest
    /\ pc[r] \notin Holding => /\ obj[r] = Absent
                               /\ dirty[r] = {}
                               /\ logged[r] = {}
                               /\ ~locked[r]
    /\ pc[r] \in Holding => obj[r] \in CaseRow
    /\ pc[r] \in {"check", "insert"} => req[r].op = "create"
    /\ pc[r] \in Holding \ {"commit"} => req[r].op # "create"
    /\ pc[r] \in {"ingest", "analyze", "move", "score"} => req[r].op = "upload"
    /\ pc[r] = "load" => req[r].op # "create"

\* A case that is being created is nobody else's and not yet there; every
\* other handler that holds an object works on an existing case.
CreateInv ==
    /\ \A r \in Requests : Active(r) =>
         IF req[r].op = "create" THEN row[req[r].case] = Absent
         ELSE pc[r] \in Holding => row[req[r].case] # Absent
    /\ \A r, q \in Requests :
         /\ r # q
         /\ req[r].op = "create"
         /\ req[q].op = "create"
         => req[r].case # req[q].case
    /\ \A r \in Requests : pc[r] = "commit" /\ req[r].op = "create" =>
         dirty[r] = Columns /\ obj[r].status = "OPEN"

\* Whoever has written holds the lock, and conflicting locks exclude each other.
LockInv ==
    /\ \A r \in Requests : dirty[r] # {} => locked[r]
    /\ \A r, q \in Requests : r # q /\ locked[r] /\ locked[q] =>
         ~WholeDatabaseLock /\ req[r].case # req[q].case

\* What a session has inserted into the timeline matches what it has written.
LogInv == \A r \in Requests :
    /\ \A e \in logged[r] : e.by = r /\ e.case = req[r].case /\ e.at <= clock
    /\ \A e \in logged[r] : IsStatusEntry(e) =>
         e.status = obj[r].status /\ "status" \in dirty[r]
    /\ \A e, f \in logged[r] : IsStatusEntry(e) /\ IsStatusEntry(f) => e = f
    /\ pc[r] \in {"flush", "ingest", "analyze", "move"} => dirty[r] = {}
    /\ pc[r] = "record" => /\ \A e \in logged[r] : ~IsStatusEntry(e)
                           /\ req[r].op \in {"status", "upload", "assign"}
                           /\ req[r].op # "assign" => "status" \in dirty[r]
                           /\ req[r].op = "assign" => dirty[r] = {}
    /\ pc[r] \in {"score", "commit"} /\ "status" \in dirty[r] =>
         \E e \in logged[r] : IsStatusEntry(e)

\* The committed timeline, and what is about to be added to it.
TrailInv ==
    /\ \A e \in timeline : e.at <= clock
    /\ \A c \in Cases : row[c] = Absent => StatusTrail(c) = {}
    /\ \A r \in Requests : \A e \in logged[r] : IsStatusEntry(e) =>
         \A f \in StatusTrail(req[r].case) : f.at < e.at

\* closed_at, in the objects and in the rows they were loaded from.
ClosedInv == \A r \in Requests :
    /\ obj[r].status \in {"CLOSED", "ARCHIVED"} => obj[r].closed
    /\ obj[r].closed /\ "closed" \notin dirty[r] => row[req[r].case].closed
    /\ "closed" \in dirty[r] /\ req[r].op # "create" => obj[r].closed

IInv == /\ TypeOK
        /\ PlaceInv
        /\ CreateInv
        /\ LockInv
        /\ LogInv
        /\ TrailInv
        /\ ClosedInv
        /\ ClosedIsStamped
        /\ AuditTrailEndsInStatus
-----------------------------------------------------------------------------
(* Trails in the order of their times. *)

\* A trail without entries shows no status.
LEMMA NoTrail == InOrder({}) = <<>>
  BY FS_EmptySet DEF InOrder

\* A trail shows as many statuses as it has entries.
LEMMA InOrderShape ==
    ASSUME NEW S, IsFiniteSet(S)
    PROVE  /\ Cardinality(S) \in Nat
           /\ DOMAIN InOrder(S) = 1 .. Cardinality(S)
           /\ Len(InOrder(S)) = Cardinality(S)
           /\ \A i \in 1 .. Cardinality(S) : InOrder(S)[i] = Nth(S, i).status
           /\ \E T : InOrder(S) \in Seq(T)
<1> DEFINE n == Cardinality(S)
           T == {Nth(S, i).status : i \in 1 .. n}
<1>1. n \in Nat
  BY FS_CardinalityType
<1> HIDE DEF n
<1>2. InOrder(S) = [i \in 1 .. n |-> Nth(S, i).status]
  BY DEF InOrder, n
<1>3. InOrder(S) \in [1 .. n -> T]
  BY <1>2
<1> HIDE DEF T
<1>4. InOrder(S) \in Seq(T)
  BY <1>1, <1>3
<1>5. DOMAIN InOrder(S) = 1 .. n /\ Len(InOrder(S)) = n
  BY <1>1, <1>2
<1> QED BY <1>1, <1>2, <1>4, <1>5 DEF n

\* An entry comes after fewer entries than there are.
LEMMA RankInside ==
    ASSUME NEW S, IsFiniteSet(S), NEW e \in S, \A f \in S : f.at \in Int
    PROVE  Rank(S, e) \in Nat /\ Rank(S, e) < Cardinality(S)
<1> DEFINE B == {f \in S : f.at < e.at}
<1>1. B \subseteq S \ {e}
  OBVIOUS
<1>2. IsFiniteSet(S \ {e}) /\ Cardinality(S \ {e}) = Cardinality(S) - 1
  BY FS_RemoveElement
<1>3. IsFiniteSet(B) /\ Cardinality(B) <= Cardinality(S) - 1
  BY <1>1, <1>2, FS_Subset
<1>4. Cardinality(B) \in Nat /\ Cardinality(S) \in Nat
  BY <1>3, FS_CardinalityType
<1> QED BY <1>3, <1>4 DEF Rank

\* What a trail shows when an entry later than the others is added to it: the
\* same, and then that entry.
LEMMA LaterIsAppended ==
    ASSUME NEW S, IsFiniteSet(S), NEW x, \A f \in S \cup {x} : f.at \in Int,
           \A f \in S : f.at < x.at
    PROVE  InOrder(S \cup {x}) = Append(InOrder(S), x.status)
<1> DEFINE n == Cardinality(S)
           T == S \cup {x}
<1>1. n \in Nat /\ x \notin S
  BY FS_CardinalityType
<1>2. Cardinality(T) = n + 1 /\ IsFiniteSet(T)
  BY <1>1, FS_AddElement
<1>3. Rank(T, x) = n
  <2>1. {f \in T : f.at < x.at} = S
    OBVIOUS
  <2> QED BY <2>1 DEF Rank
<1>4. ASSUME NEW e \in S PROVE Rank(T, e) = Rank(S, e)
  <2>1. {f \in T : f.at < e.at} = {f \in S : f.at < e.at}
    OBVIOUS
  <2> QED BY <2>1 DEF Rank
<1>5. \A e \in S : Rank(S, e) \in Nat /\ Rank(S, e) < n
  BY RankInside
<1>6. ASSUME NEW i \in 1 .. n PROVE Nth(T, i) = Nth(S, i)
  <2>1. i - 1 # n
    BY <1>1
  <2>2. \A e : (e \in T /\ Rank(T, e) = i - 1) <=> (e \in S /\ Rank(S, e) = i - 1)
    <3> TAKE e
    <3>1. CASE e \in S
      BY <3>1, <1>4
    <3>2. CASE e \notin S
      BY <3>2, <2>1, <1>3
    <3> QED BY <3>1, <3>2
  <2>3. (CHOOSE e : e \in T /\ Rank(T, e) = i - 1) = (CHOOSE e : e \in S /\ Rank(S, e) = i - 1)
    BY <2>2
  <2> HIDE DEF T
  <2> QED BY <2>3 DEF Nth
<1>7. ASSUME NEW k, k = n + 1 PROVE Nth(T, k) = x
  <2>1. \A e : e \in T /\ Rank(T, e) = k - 1 <=> e = x
    BY <1>1, <1>3, <1>4, <1>5, <1>7
  <2> HIDE DEF T
  <2>2. (CHOOSE e : e \in T /\ Rank(T, e) = k - 1) = x
    BY <2>1
  <2> QED BY <2>2 DEF Nth
<1>8. PICK R : InOrder(S) \in Seq(R)
  BY InOrderShape
<1>9. /\ Len(InOrder(S)) = n /\ DOMAIN InOrder(S) = 1 .. n
      /\ \A i \in 1 .. n : InOrder(S)[i] = Nth(S, i).status
  BY InOrderShape
<1>10. PICK Q : InOrder(T) \in Seq(Q)
  BY <1>2, InOrderShape
<1>11. /\ Len(InOrder(T)) = n + 1 /\ DOMAIN InOrder(T) = 1 .. n + 1
       /\ \A i \in 1 .. n + 1 : InOrder(T)[i] = Nth(T, i).status
  BY <1>2, InOrderShape
<1> HIDE DEF n, T
<1>12. \A i \in 1 .. n + 1 :
         InOrder(T)[i] = IF i = n + 1 THEN x.status ELSE InOrder(S)[i]
  BY <1>1, <1>6, <1>7, <1>9, <1>11
<1>13. InOrder(T) = Append(InOrder(S), x.status)
  <2> DEFINE s == InOrder(S)
             t == InOrder(T)
             y == x.status
             u == Append(s, y)
  <2>1. s \in Seq(R \cup {y}) /\ t \in Seq(Q)
    BY <1>8, <1>10
  <2>2. Len(u) = n + 1 /\ \A i \in 1 .. n + 1 : u[i] = IF i = n + 1 THEN y ELSE s[i]
    BY <1>1, <1>9, <2>1
  <2>3. DOMAIN t = DOMAIN u /\ \A i \in DOMAIN t : t[i] = u[i]
    BY <1>1, <1>11, <1>12, <2>1, <2>2
  <2>4. u \in Seq(R \cup {y})
    BY <2>1
  <2> HIDE DEF s, t, u
  <2> QED BY <2>1, <2>3, <2>4 DEF s, t, u
<1> QED BY <1>13 DEF T

\* What a trail shows last is the status of its latest entry.
LEMMA LatestIsLast ==
    ASSUME NEW S, IsFiniteSet(S), NEW x \in S, \A f \in S : f.at \in Int,
           \A f \in S \ {x} : f.at < x.at
    PROVE  /\ InOrder(S) # <<>>
           /\ InOrder(S)[Len(InOrder(S))] = x.status
<1> DEFINE U == S \ {x}
<1>1. IsFiniteSet(U) /\ U \cup {x} = S
  BY FS_RemoveElement
<1>2. InOrder(S) = Append(InOrder(U), x.status)
  <2>1. InOrder(U \cup {x}) = Append(InOrder(U), x.status)
    BY <1>1, LaterIsAppended
  <2> QED BY <1>1, <2>1
<1>3. PICK R : InOrder(U) \in Seq(R)
  BY <1>1, InOrderShape
<1> HIDE DEF U
<1>4. InOrder(U) \in Seq(R \cup {x.status})
  BY <1>3
<1> QED BY <1>2, <1>4
-----------------------------------------------------------------------------
(* The steps. *)

USE WorkloadAssumption, SeedAssumption, LockAssumption, TitlesAssumption
    DEF Holding, Running, Finished, Active, StatusKinds, EntryKinds, EventKinds,
        IsStatusEntry, StatusTrail, Columns, CaseRow, Absent, Request, NoRequest,
        Entry, Event, Goto, Record, Stamped, Publish, Lock, MayWrite, WriteStatus

\* Only a CLOSED case can be archived, and no move leads to an unknown status.
LEMMA Transitions ==
    ASSUME NEW s \in CaseStatus, NEW t, ValidTransition(s, t)
    PROVE  t \in CaseStatus /\ (t = "ARCHIVED" => s = "CLOSED")
  BY DEF ValidTransition, AllowedTransitions, CaseStatus

\* A request that has arrived names a case; what it holds is a case row.
LEMMA ArrivedRequest ==
    ASSUME IInv, NEW r \in Requests, pc[r] # "idle"
    PROVE  /\ req[r] \in Request
           /\ req[r].case \in Cases
           /\ req[r].op \in {"create", "details"} => req[r].arg \in Titles
           /\ pc[r] \in Holding => /\ obj[r].status \in CaseStatus
                                    /\ obj[r].closed \in BOOLEAN
                                    /\ obj[r].title \in Titles
<1>1. req[r] \in Request
  BY DEF IInv, TypeOK, PlaceInv
<1>2. pc[r] \in Holding => obj[r] \in CaseRow
  BY DEF IInv, PlaceInv
<1> QED BY <1>1, <1>2

LEMMA EntryOf ==
    ASSUME IInv, NEW r \in Requests, pc[r] # "idle", NEW k \in EntryKinds,
           NEW s \in CaseStatus \cup {"none"}
    PROVE  [case |-> req[r].case, kind |-> k, status |-> s,
            at |-> clock + 1, by |-> r] \in Entry
  BY ArrivedRequest DEF IInv, TypeOK

\* What a status write does to the object.
LEMMA Written ==
    ASSUME IInv, NEW r \in Requests, pc[r] \in Holding, NEW s \in CaseStatus,
           WriteStatus(r, s)
    PROVE  /\ obj' \in [Requests -> CaseRow \cup {Absent}]
           /\ dirty' \in [Requests -> SUBSET Columns]
           /\ locked' \in [Requests -> BOOLEAN]
           /\ obj'[r] \in CaseRow
           /\ obj'[r].status = s
           /\ obj'[r].closed = (obj[r].closed \/ s = "CLOSED")
           /\ \A q \in Requests \ {r} : obj'[q] = obj[q]
<1>1. obj[r] \in CaseRow
  BY DEF IInv, PlaceInv
<1>2. obj'[r] = [obj[r] EXCEPT !.status = s, !.closed = @ \/ s = "CLOSED"]
  BY DEF IInv, TypeOK
<1>3. [obj[r] EXCEPT !.status = s, !.closed = @ \/ s = "CLOSED"] \in CaseRow
  BY <1>1
<1>4. \A q \in Requests \ {r} : obj'[q] = obj[q]
  BY DEF IInv, TypeOK
<1>5. obj' \in [Requests -> CaseRow \cup {Absent}]
  BY <1>2, <1>3, <1>4 DEF IInv, TypeOK
<1>6. dirty' \in [Requests -> SUBSET Columns] /\ locked' \in [Requests -> BOOLEAN]
  BY DEF IInv, TypeOK
<1> QED BY <1>1, <1>2, <1>3, <1>4, <1>5, <1>6

\* A new request holds nothing yet, and a new case id is nobody else's.
LEMMA ArriveKeeps == ASSUME IInv, NEW r \in Requests, Arrive(r) PROVE IInv'
<1>1. TypeOK'
  BY DEF IInv, Arrive, TypeOK, PlaceInv
<1>2. PlaceInv'
  BY DEF IInv, Arrive, TypeOK, PlaceInv
<1>3. CreateInv'
  BY DEF IInv, Arrive, Unused, TypeOK, PlaceInv, CreateInv
<1>4. LockInv'
  BY DEF IInv, Arrive, TypeOK, PlaceInv, LockInv
<1>5. LogInv'
  BY DEF IInv, Arrive, TypeOK, PlaceInv, LockInv, LogInv
<1>6. TrailInv'
  BY DEF IInv, Arrive, TypeOK, PlaceInv, CreateInv, LockInv, LogInv, TrailInv
<1>7. ClosedInv'
  BY DEF IInv, Arrive, TypeOK, PlaceInv, CreateInv, ClosedInv, ClosedIsStamped
<1>8. ClosedIsStamped'
  BY DEF IInv, Arrive, TypeOK, PlaceInv, CreateInv, ClosedInv, ClosedIsStamped
<1>9. AuditTrailEndsInStatus'
  BY DEF IInv, Arrive, TypeOK, PlaceInv, CreateInv, LockInv, LogInv, TrailInv, AuditTrailEndsInStatus
<1> QED BY <1>1, <1>2, <1>3, <1>4, <1>5, <1>6, <1>7, <1>8, <1>9 DEF IInv

\* The object is as consistent as the row it is loaded from.
LEMMA LoadKeeps == ASSUME IInv, NEW r \in Requests, Load(r) PROVE IInv'
<1>0. row[req[r].case] \in CaseRow
  <2>1. req[r].case \in Cases
    BY ArrivedRequest DEF Load
  <2> QED BY <2>1 DEF IInv, Load, TypeOK
<1>1. TypeOK'
  BY DEF IInv, Load, TypeOK, PlaceInv
<1>2. PlaceInv'
  BY <1>0 DEF IInv, Load, TypeOK, PlaceInv
<1>3. CreateInv'
  BY DEF IInv, Load, TypeOK, PlaceInv, CreateInv
<1>4. LockInv'
  BY DEF IInv, Load, TypeOK, PlaceInv, LockInv
<1>5. LogInv'
  BY DEF IInv, Load, TypeOK, PlaceInv, LockInv, LogInv
<1>6. TrailInv'
  BY DEF IInv, Load, TypeOK, PlaceInv, CreateInv, LockInv, LogInv, TrailInv
<1>7. ClosedInv'
  BY DEF IInv, Load, TypeOK, PlaceInv, CreateInv, ClosedInv, ClosedIsStamped
<1>8. ClosedIsStamped'
  BY DEF IInv, Load, TypeOK, PlaceInv, CreateInv, ClosedInv, ClosedIsStamped
<1>9. AuditTrailEndsInStatus'
  BY DEF IInv, Load, TypeOK, PlaceInv, CreateInv, LockInv, LogInv, TrailInv, AuditTrailEndsInStatus
<1> QED BY <1>1, <1>2, <1>3, <1>4, <1>5, <1>6, <1>7, <1>8, <1>9 DEF IInv

\* The duplicate check only reads.
LEMMA CheckDuplicateKeeps == ASSUME IInv, NEW r \in Requests, CheckDuplicate(r) PROVE IInv'
<1>1. TypeOK'
  BY DEF IInv, CheckDuplicate, TypeOK, PlaceInv
<1>2. PlaceInv'
  BY DEF IInv, CheckDuplicate, TypeOK, PlaceInv
<1>3. CreateInv'
  BY DEF IInv, CheckDuplicate, TypeOK, PlaceInv, CreateInv
<1>4. LockInv'
  BY DEF IInv, CheckDuplicate, TypeOK, PlaceInv, LockInv
<1>5. LogInv'
  BY DEF IInv, CheckDuplicate, TypeOK, PlaceInv, LockInv, LogInv
<1>6. TrailInv'
  BY DEF IInv, CheckDuplicate, TypeOK, PlaceInv, CreateInv, LockInv, LogInv, TrailInv
<1>7. ClosedInv'
  BY DEF IInv, CheckDuplicate, TypeOK, PlaceInv, CreateInv, ClosedInv, ClosedIsStamped
<1>8. ClosedIsStamped'
  BY DEF IInv, CheckDuplicate, TypeOK, PlaceInv, CreateInv, ClosedInv, ClosedIsStamped
<1>9. AuditTrailEndsInStatus'
  BY DEF IInv, CheckDuplicate, TypeOK, PlaceInv, CreateInv, LockInv, LogInv, TrailInv, AuditTrailEndsInStatus
<1> QED BY <1>1, <1>2, <1>3, <1>4, <1>5, <1>6, <1>7, <1>8, <1>9 DEF IInv

\* A new case starts OPEN, with its entry.
LEMMA InsertCaseKeeps == ASSUME IInv, NEW r \in Requests, InsertCase(r) PROVE IInv'
<1>0. /\ req[r].case \in Cases /\ req[r].arg \in Titles /\ req[r].op = "create"
      /\ [case |-> req[r].case, kind |-> "case_opened", status |-> "OPEN",
          at |-> clock + 1, by |-> r] \in Entry
      /\ [status |-> "OPEN", closed |-> FALSE, title |-> req[r].arg] \in CaseRow
  <2>1. req[r].op = "create" /\ "OPEN" \in CaseStatus
    BY DEF IInv, InsertCase, PlaceInv, CaseStatus
  <2> QED BY <2>1, ArrivedRequest, EntryOf DEF InsertCase
<1>1. TypeOK'
  BY <1>0 DEF IInv, InsertCase, TypeOK, PlaceInv
<1>2. PlaceInv'
  BY <1>0 DEF IInv, InsertCase, TypeOK, PlaceInv
<1>3. CreateInv'
  BY DEF IInv, InsertCase, TypeOK, PlaceInv, CreateInv
<1>4. LockInv'
  BY DEF IInv, InsertCase, TypeOK, PlaceInv, LockInv
<1>5. LogInv'
  <2> DEFINE new == [case |-> req[r].case, kind |-> "case_opened",
                     status |-> "OPEN", at |-> clock + 1, by |-> r]
  <2>1. /\ logged'[r] = {new} /\ clock \in Nat
        /\ dirty'[r] = Columns /\ obj'[r].status = "OPEN"
        /\ pc'[r] = "commit" /\ clock' = clock + 1 /\ req' = req
    BY DEF IInv, InsertCase, TypeOK, PlaceInv
  <2>2. \A q \in Requests \ {r} :
          /\ logged'[q] = logged[q] /\ obj'[q] = obj[q]
          /\ dirty'[q] = dirty[q] /\ pc'[q] = pc[q]
    BY DEF IInv, InsertCase, TypeOK
  <2>3. \A q \in Requests : \A e \in logged[q] : e.at \in Nat
    BY DEF IInv, TypeOK
  <2>4. /\ new.case = req[r].case /\ new.by = r /\ new.at = clock + 1
        /\ new.status = "OPEN" /\ IsStatusEntry(new)
    OBVIOUS
  <2> HIDE DEF new
  <2> QED BY <2>1, <2>2, <2>3, <2>4 DEF IInv, LogInv
<1>6. TrailInv'
  BY DEF IInv, InsertCase, TypeOK, PlaceInv, CreateInv, LockInv, LogInv, TrailInv
<1>7. ClosedInv'
  BY DEF IInv, InsertCase, TypeOK, PlaceInv, CreateInv, ClosedInv, ClosedIsStamped
<1>8. ClosedIsStamped'
  BY DEF IInv, InsertCase, TypeOK, PlaceInv, CreateInv, ClosedInv, ClosedIsStamped
<1>9. AuditTrailEndsInStatus'
  BY DEF IInv, InsertCase, TypeOK, PlaceInv, CreateInv, LockInv, LogInv, TrailInv, AuditTrailEndsInStatus
<1> QED BY <1>1, <1>2, <1>3, <1>4, <1>5, <1>6, <1>7, <1>8, <1>9 DEF IInv

\* A status write keeps closed_at in step, in the object and its columns.
LEMMA FlushStatusKeeps == ASSUME IInv, NEW r \in Requests, FlushStatus(r) PROVE IInv'
<1>0. /\ req[r].arg \in CaseStatus
      /\ req[r].arg = "ARCHIVED" => obj[r].status = "CLOSED"
  BY ArrivedRequest, Transitions DEF FlushStatus
<1>w. /\ obj' \in [Requests -> CaseRow \cup {Absent}]
      /\ dirty' \in [Requests -> SUBSET Columns]
      /\ locked' \in [Requests -> BOOLEAN]
      /\ obj'[r] \in CaseRow
      /\ obj'[r].status = req[r].arg
      /\ obj'[r].closed = (obj[r].closed \/ req[r].arg = "CLOSED")
      /\ \A q \in Requests \ {r} : obj'[q] = obj[q]
  BY <1>0, Written DEF FlushStatus
<1>1. TypeOK'
  BY <1>0, <1>w DEF IInv, FlushStatus, TypeOK
<1>2. PlaceInv'
  <2>1. /\ pc' = [pc EXCEPT ![r] = "record"]
        /\ req' = req /\ logged' = logged
        /\ \A q \in Requests \ {r} : /\ dirty'[q] = dirty[q]
                                      /\ locked'[q] = locked[q]
                                      /\ obj'[q] = obj[q]
    BY <1>w DEF IInv, FlushStatus, TypeOK
  <2> QED BY <2>1, <1>w DEF IInv, FlushStatus, TypeOK, PlaceInv
<1>3. CreateInv'
  BY DEF IInv, FlushStatus, TypeOK, PlaceInv, CreateInv
<1>4. LockInv'
  BY DEF IInv, FlushStatus, TypeOK, PlaceInv, LockInv
<1>5. LogInv'
  BY DEF IInv, FlushStatus, TypeOK, PlaceInv, LockInv, LogInv
<1>6. TrailInv'
  BY DEF IInv, FlushStatus, TypeOK, PlaceInv, CreateInv, LockInv, LogInv, TrailInv
<1>7. ClosedInv'
  <2>1. /\ row' = row /\ req' = req
        /\ \A q \in Requests \ {r} : dirty'[q] = dirty[q] /\ obj'[q] = obj[q]
        /\ "closed" \in dirty'[r] <=> "closed" \in dirty[r] \/ req[r].arg = "CLOSED"
    BY <1>w DEF IInv, FlushStatus, TypeOK
  <2>2. /\ obj[r].status \in {"CLOSED", "ARCHIVED"} => obj[r].closed
        /\ obj[r].closed /\ "closed" \notin dirty[r] => row[req[r].case].closed
        /\ "closed" \in dirty[r] /\ req[r].op # "create" => obj[r].closed
    BY DEF IInv, ClosedInv
  <2>3. ASSUME NEW q \in Requests \ {r}
        PROVE  /\ obj'[q].status \in {"CLOSED", "ARCHIVED"} => obj'[q].closed
               /\ obj'[q].closed /\ "closed" \notin dirty'[q] => row'[req'[q].case].closed
               /\ "closed" \in dirty'[q] /\ req'[q].op # "create" => obj'[q].closed
    BY <2>1 DEF IInv, ClosedInv
  <2> QED BY <1>0, <1>w, <2>1, <2>2, <2>3 DEF ClosedInv
<1>8. ClosedIsStamped'
  BY DEF IInv, FlushStatus, TypeOK, PlaceInv, CreateInv, ClosedInv, ClosedIsStamped
<1>9. AuditTrailEndsInStatus'
  BY DEF IInv, FlushStatus, TypeOK, PlaceInv, CreateInv, LockInv, LogInv, TrailInv, AuditTrailEndsInStatus
<1> QED BY <1>1, <1>2, <1>3, <1>4, <1>5, <1>6, <1>7, <1>8, <1>9 DEF IInv

\* An assignment only takes the lock.
LEMMA FlushAssignmentKeeps == ASSUME IInv, NEW r \in Requests, FlushAssignment(r) PROVE IInv'
<1>1. TypeOK'
  BY DEF IInv, FlushAssignment, TypeOK, PlaceInv
<1>2. PlaceInv'
  BY DEF IInv, FlushAssignment, TypeOK, PlaceInv
<1>3. CreateInv'
  BY DEF IInv, FlushAssignment, TypeOK, PlaceInv, CreateInv
<1>4. LockInv'
  BY DEF IInv, FlushAssignment, TypeOK, PlaceInv, LockInv
<1>5. LogInv'
  BY DEF IInv, FlushAssignment, TypeOK, PlaceInv, LockInv, LogInv
<1>6. TrailInv'
  BY DEF IInv, FlushAssignment, TypeOK, PlaceInv, CreateInv, LockInv, LogInv, TrailInv
<1>7. ClosedInv'
  BY DEF IInv, FlushAssignment, TypeOK, PlaceInv, CreateInv, ClosedInv, ClosedIsStamped
<1>8. ClosedIsStamped'
  BY DEF IInv, FlushAssignment, TypeOK, PlaceInv, CreateInv, ClosedInv, ClosedIsStamped
<1>9. AuditTrailEndsInStatus'
  BY DEF IInv, FlushAssignment, TypeOK, PlaceInv, CreateInv, LockInv, LogInv, TrailInv, AuditTrailEndsInStatus
<1> QED BY <1>1, <1>2, <1>3, <1>4, <1>5, <1>6, <1>7, <1>8, <1>9 DEF IInv

\* A new title is one more column written.
LEMMA FlushDetailsKeeps == ASSUME IInv, NEW r \in Requests, FlushDetails(r) PROVE IInv'
<1>1. TypeOK'
  BY DEF IInv, FlushDetails, TypeOK, PlaceInv
<1>2. PlaceInv'
  BY DEF IInv, FlushDetails, TypeOK, PlaceInv
<1>3. CreateInv'
  BY DEF IInv, FlushDetails, TypeOK, PlaceInv, CreateInv
<1>4. LockInv'
  BY DEF IInv, FlushDetails, TypeOK, PlaceInv, LockInv
<1>5. LogInv'
  BY DEF IInv, FlushDetails, TypeOK, PlaceInv, LockInv, LogInv
<1>6. TrailInv'
  BY DEF IInv, FlushDetails, TypeOK, PlaceInv, CreateInv, LockInv, LogInv, TrailInv
<1>7. ClosedInv'
  BY DEF IInv, FlushDetails, TypeOK, PlaceInv, CreateInv, ClosedInv, ClosedIsStamped
<1>8. ClosedIsStamped'
  BY DEF IInv, FlushDetails, TypeOK, PlaceInv, CreateInv, ClosedInv, ClosedIsStamped
<1>9. AuditTrailEndsInStatus'
  BY DEF IInv, FlushDetails, TypeOK, PlaceInv, CreateInv, LockInv, LogInv, TrailInv, AuditTrailEndsInStatus
<1> QED BY <1>1, <1>2, <1>3, <1>4, <1>5, <1>6, <1>7, <1>8, <1>9 DEF IInv

\* A priority or labels update only takes the lock.
LEMMA FlushAmendmentKeeps == ASSUME IInv, NEW r \in Requests, FlushAmendment(r) PROVE IInv'
<1>1. TypeOK'
  BY DEF IInv, FlushAmendment, TypeOK, PlaceInv
<1>2. PlaceInv'
  BY DEF IInv, FlushAmendment, TypeOK, PlaceInv
<1>3. CreateInv'
  BY DEF IInv, FlushAmendment, TypeOK, PlaceInv, CreateInv
<1>4. LockInv'
  BY DEF IInv, FlushAmendment, TypeOK, PlaceInv, LockInv
<1>5. LogInv'
  BY DEF IInv, FlushAmendment, TypeOK, PlaceInv, LockInv, LogInv
<1>6. TrailInv'
  BY DEF IInv, FlushAmendment, TypeOK, PlaceInv, CreateInv, LockInv, LogInv, TrailInv
<1>7. ClosedInv'
  BY DEF IInv, FlushAmendment, TypeOK, PlaceInv, CreateInv, ClosedInv, ClosedIsStamped
<1>8. ClosedIsStamped'
  BY DEF IInv, FlushAmendment, TypeOK, PlaceInv, CreateInv, ClosedInv, ClosedIsStamped
<1>9. AuditTrailEndsInStatus'
  BY DEF IInv, FlushAmendment, TypeOK, PlaceInv, CreateInv, LockInv, LogInv, TrailInv, AuditTrailEndsInStatus
<1> QED BY <1>1, <1>2, <1>3, <1>4, <1>5, <1>6, <1>7, <1>8, <1>9 DEF IInv

\* The entry of a move is stamped after the lock was taken: it is the newest.
LEMMA RecordStatusKeeps == ASSUME IInv, NEW r \in Requests, RecordStatus(r) PROVE IInv'
<1>0. [case |-> req[r].case, kind |-> "case_status_changed",
       status |-> obj[r].status, at |-> clock + 1, by |-> r] \in Entry
  BY ArrivedRequest, EntryOf DEF RecordStatus
<1>e. StatusEvent(obj[r].status) \in EventKinds
  BY DEF StatusEvent
<1>c. req[r].case \in Cases
  BY ArrivedRequest DEF RecordStatus
<1>1. TypeOK'
  BY <1>0, <1>e, <1>c DEF IInv, RecordStatus, TypeOK, PlaceInv
<1>2. PlaceInv'
  BY DEF IInv, RecordStatus, TypeOK, PlaceInv
<1>3. CreateInv'
  BY DEF IInv, RecordStatus, TypeOK, PlaceInv, CreateInv
<1>4. LockInv'
  BY DEF IInv, RecordStatus, TypeOK, PlaceInv, LockInv
<1>5. LogInv'
  <2> DEFINE new == [case |-> req[r].case, kind |-> "case_status_changed",
                     status |-> obj[r].status, at |-> clock + 1, by |-> r]
  <2>1. /\ logged'[r] = logged[r] \cup {new} /\ clock \in Nat
        /\ clock' = clock + 1 /\ req' = req /\ obj' = obj /\ dirty' = dirty
        /\ pc'[r] \in {"score", "commit"}
        /\ "status" \in dirty[r] /\ \A e \in logged[r] : ~IsStatusEntry(e)
    BY DEF IInv, RecordStatus, TypeOK, LogInv
  <2>2. \A q \in Requests \ {r} : logged'[q] = logged[q] /\ pc'[q] = pc[q]
    BY DEF IInv, RecordStatus, TypeOK
  <2>3. \A q \in Requests : \A e \in logged[q] : e.at \in Nat
    BY DEF IInv, TypeOK
  <2>4. new.case = req[r].case /\ new.by = r /\ new.at = clock + 1
        /\ new.status = obj[r].status /\ IsStatusEntry(new)
    OBVIOUS
  <2> HIDE DEF new
  <2> QED BY <2>1, <2>2, <2>3, <2>4 DEF IInv, LogInv
<1>6. TrailInv'
  BY DEF IInv, RecordStatus, TypeOK, PlaceInv, CreateInv, LockInv, LogInv, TrailInv
<1>7. ClosedInv'
  BY DEF IInv, RecordStatus, TypeOK, PlaceInv, CreateInv, ClosedInv, ClosedIsStamped
<1>8. ClosedIsStamped'
  BY DEF IInv, RecordStatus, TypeOK, PlaceInv, CreateInv, ClosedInv, ClosedIsStamped
<1>9. AuditTrailEndsInStatus'
  BY DEF IInv, RecordStatus, TypeOK, PlaceInv, CreateInv, LockInv, LogInv, TrailInv, AuditTrailEndsInStatus
<1> QED BY <1>1, <1>2, <1>3, <1>4, <1>5, <1>6, <1>7, <1>8, <1>9 DEF IInv

\* An assignment entry is no status entry.
LEMMA RecordAssignmentKeeps == ASSUME IInv, NEW r \in Requests, RecordAssignment(r) PROVE IInv'
<1>1. TypeOK'
  BY DEF IInv, RecordAssignment, TypeOK, PlaceInv
<1>2. PlaceInv'
  BY DEF IInv, RecordAssignment, TypeOK, PlaceInv
<1>3. CreateInv'
  BY DEF IInv, RecordAssignment, TypeOK, PlaceInv, CreateInv
<1>4. LockInv'
  BY DEF IInv, RecordAssignment, TypeOK, PlaceInv, LockInv
<1>5. LogInv'
  BY DEF IInv, RecordAssignment, TypeOK, PlaceInv, LockInv, LogInv
<1>6. TrailInv'
  BY DEF IInv, RecordAssignment, TypeOK, PlaceInv, CreateInv, LockInv, LogInv, TrailInv
<1>7. ClosedInv'
  BY DEF IInv, RecordAssignment, TypeOK, PlaceInv, CreateInv, ClosedInv, ClosedIsStamped
<1>8. ClosedIsStamped'
  BY DEF IInv, RecordAssignment, TypeOK, PlaceInv, CreateInv, ClosedInv, ClosedIsStamped
<1>9. AuditTrailEndsInStatus'
  BY DEF IInv, RecordAssignment, TypeOK, PlaceInv, CreateInv, LockInv, LogInv, TrailInv, AuditTrailEndsInStatus
<1> QED BY <1>1, <1>2, <1>3, <1>4, <1>5, <1>6, <1>7, <1>8, <1>9 DEF IInv

\* Nor is the entry of an ingested artifact.
LEMMA IngestKeeps == ASSUME IInv, NEW r \in Requests, Ingest(r) PROVE IInv'
<1>0. /\ req[r].case \in Cases
      /\ [case |-> req[r].case, kind |-> "evidence_ingested", status |-> "none",
          at |-> clock + 1, by |-> r] \in Entry
  BY ArrivedRequest, EntryOf DEF Ingest
<1>p. published' \in SUBSET Event
  BY <1>0 DEF IInv, Ingest, TypeOK
<1>l. logged' \in [Requests -> SUBSET Entry] /\ clock' \in Nat
  BY <1>0 DEF IInv, Ingest, TypeOK
<1>1. TypeOK'
  BY <1>p, <1>l DEF IInv, Ingest, TypeOK, PlaceInv
<1>2. PlaceInv'
  BY DEF IInv, Ingest, TypeOK, PlaceInv
<1>3. CreateInv'
  BY DEF IInv, Ingest, TypeOK, PlaceInv, CreateInv
<1>4. LockInv'
  <2>0. req' = req /\ dirty' = dirty
    BY DEF Ingest
  <2>1. CASE WholeDatabaseLock
    <3>1. locked' = [locked EXCEPT ![r] = TRUE] /\ MayWrite(r)
      BY <2>1 DEF Ingest, Lock
    <3> QED BY <2>0, <2>1, <3>1 DEF IInv, MayWrite, TypeOK, LockInv
  <2>2. CASE ~WholeDatabaseLock
    <3>1. locked' = locked
      BY <2>2 DEF Ingest
    <3> QED BY <2>0, <3>1 DEF IInv, LockInv
  <2> QED BY <2>1, <2>2
<1>5. LogInv'
  BY DEF IInv, Ingest, TypeOK, PlaceInv, LockInv, LogInv
<1>6. TrailInv'
  BY DEF IInv, Ingest, TypeOK, PlaceInv, CreateInv, LockInv, LogInv, TrailInv
<1>7. ClosedInv'
  BY DEF IInv, Ingest, TypeOK, PlaceInv, CreateInv, ClosedInv, ClosedIsStamped
<1>8. ClosedIsStamped'
  BY DEF IInv, Ingest, TypeOK, PlaceInv, CreateInv, ClosedInv, ClosedIsStamped
<1>9. AuditTrailEndsInStatus'
  BY DEF IInv, Ingest, TypeOK, PlaceInv, CreateInv, LockInv, LogInv, TrailInv, AuditTrailEndsInStatus
<1> QED BY <1>1, <1>2, <1>3, <1>4, <1>5, <1>6, <1>7, <1>8, <1>9 DEF IInv

\* What the later stages record is no status entry.
LEMMA StageEntries ==
    /\ \A kinds \in Analyses : kinds \subseteq StageKinds
    /\ \A k \in StageKinds : k \in EntryKinds /\ k \notin StatusKinds
  BY AnalysesAssumption DEF StageKinds, AssessmentKinds

\* Nor do the later stages record any.
LEMMA AnalyzeKeeps == ASSUME IInv, NEW r \in Requests, Analyze(r) PROVE IInv'
<1>1. PICK kinds \in Analyses :
        /\ logged' = [logged EXCEPT ![r] = @ \cup {Stamped(r, k, "none") : k \in kinds}]
        /\ IF "finding_generated" \in kinds
           THEN Publish(r, "finding_attached") ELSE UNCHANGED published
  BY DEF Analyze
<1> DEFINE new == {Stamped(r, k, "none") : k \in kinds}
<1>2. \A e \in new : /\ e \in Entry
                     /\ ~IsStatusEntry(e)
                     /\ e.by = r /\ e.case = req[r].case /\ e.at = clock + 1
  <2> SUFFICES ASSUME NEW k \in kinds
               PROVE  /\ Stamped(r, k, "none") \in Entry
                      /\ ~IsStatusEntry(Stamped(r, k, "none"))
                      /\ Stamped(r, k, "none").by = r
                      /\ Stamped(r, k, "none").case = req[r].case
                      /\ Stamped(r, k, "none").at = clock + 1
    OBVIOUS
  <2>1. k \in EntryKinds /\ k \notin StatusKinds
    BY StageEntries
  <2>2. Stamped(r, k, "none") \in Entry
    BY <2>1, EntryOf DEF Analyze
  <2>3. Stamped(r, k, "none").kind = k
    OBVIOUS
  <2>4. ~IsStatusEntry(Stamped(r, k, "none"))
    BY <2>1, <2>3 DEF IsStatusEntry
  <2> QED BY <2>2, <2>4
<1>3. /\ logged' = [logged EXCEPT ![r] = @ \cup new]
      /\ clock' = clock + 1
      /\ pc[r] = "analyze" /\ pc' = [pc EXCEPT ![r] = "move"]
      /\ UNCHANGED <<row, timeline, req, obj, dirty, locked>>
  BY <1>1 DEF Analyze
<1>4. published' \in SUBSET Event
  <2>1. req[r].case \in Cases
    BY <1>3, ArrivedRequest
  <2> QED BY <1>1, <2>1 DEF IInv, TypeOK
<1> HIDE DEF new
<1>5. logged' \in [Requests -> SUBSET Entry] /\ clock' \in Nat
  BY <1>2, <1>3 DEF IInv, TypeOK
<1>6. TypeOK'
  BY <1>3, <1>4, <1>5 DEF IInv, TypeOK
<1>7. PlaceInv'
  BY <1>3 DEF IInv, TypeOK, PlaceInv
<1>8. CreateInv'
  BY <1>3 DEF IInv, TypeOK, PlaceInv, CreateInv
<1>9. LockInv'
  BY <1>3 DEF IInv, LockInv
<1>10. LogInv'
  BY <1>2, <1>3 DEF IInv, TypeOK, PlaceInv, LogInv
<1>11. TrailInv'
  BY <1>2, <1>3 DEF IInv, TypeOK, TrailInv
<1>12. ClosedInv' /\ ClosedIsStamped' /\ AuditTrailEndsInStatus'
  BY <1>3 DEF IInv, ClosedInv, ClosedIsStamped, AuditTrailEndsInStatus
<1> QED BY <1>6, <1>7, <1>8, <1>9, <1>10, <1>11, <1>12 DEF IInv

\* The automatic move is a status write.
LEMMA StartInvestigatingKeeps == ASSUME IInv, NEW r \in Requests, StartInvestigating(r) PROVE IInv'
<1>0. "INVESTIGATING" \in CaseStatus
  BY DEF CaseStatus
<1>w. /\ obj' \in [Requests -> CaseRow \cup {Absent}]
      /\ dirty' \in [Requests -> SUBSET Columns]
      /\ locked' \in [Requests -> BOOLEAN]
      /\ obj'[r] \in CaseRow
      /\ obj'[r].status = "INVESTIGATING"
      /\ obj'[r].closed = (obj[r].closed \/ "INVESTIGATING" = "CLOSED")
      /\ \A q \in Requests \ {r} : obj'[q] = obj[q]
  BY <1>0, Written DEF StartInvestigating
<1>1. TypeOK'
  BY <1>0, <1>w DEF IInv, StartInvestigating, TypeOK
<1>2. PlaceInv'
  <2>1. /\ pc' = [pc EXCEPT ![r] = "record"]
        /\ req' = req /\ logged' = logged
        /\ \A q \in Requests \ {r} : /\ dirty'[q] = dirty[q]
                                      /\ locked'[q] = locked[q]
                                      /\ obj'[q] = obj[q]
    BY <1>w DEF IInv, StartInvestigating, TypeOK
  <2> QED BY <2>1, <1>w DEF IInv, StartInvestigating, TypeOK, PlaceInv
<1>3. CreateInv'
  BY DEF IInv, StartInvestigating, TypeOK, PlaceInv, CreateInv
<1>4. LockInv'
  BY DEF IInv, StartInvestigating, TypeOK, PlaceInv, LockInv
<1>5. LogInv'
  BY DEF IInv, StartInvestigating, TypeOK, PlaceInv, LockInv, LogInv
<1>6. TrailInv'
  BY DEF IInv, StartInvestigating, TypeOK, PlaceInv, CreateInv, LockInv, LogInv, TrailInv
<1>7. ClosedInv'
  <2>1. /\ row' = row /\ req' = req
        /\ \A q \in Requests \ {r} : dirty'[q] = dirty[q] /\ obj'[q] = obj[q]
        /\ "closed" \in dirty'[r] <=> "closed" \in dirty[r] \/ "INVESTIGATING" = "CLOSED"
    BY <1>w DEF IInv, StartInvestigating, TypeOK
  <2>2. /\ obj[r].status \in {"CLOSED", "ARCHIVED"} => obj[r].closed
        /\ obj[r].closed /\ "closed" \notin dirty[r] => row[req[r].case].closed
        /\ "closed" \in dirty[r] /\ req[r].op # "create" => obj[r].closed
    BY DEF IInv, ClosedInv
  <2>3. ASSUME NEW q \in Requests \ {r}
        PROVE  /\ obj'[q].status \in {"CLOSED", "ARCHIVED"} => obj'[q].closed
               /\ obj'[q].closed /\ "closed" \notin dirty'[q] => row'[req'[q].case].closed
               /\ "closed" \in dirty'[q] /\ req'[q].op # "create" => obj'[q].closed
    BY <2>1 DEF IInv, ClosedInv
  <2> QED BY <1>0, <1>w, <2>1, <2>2, <2>3 DEF ClosedInv
<1>8. ClosedIsStamped'
  BY DEF IInv, StartInvestigating, TypeOK, PlaceInv, CreateInv, ClosedInv, ClosedIsStamped
<1>9. AuditTrailEndsInStatus'
  BY DEF IInv, StartInvestigating, TypeOK, PlaceInv, CreateInv, LockInv, LogInv, TrailInv, AuditTrailEndsInStatus
<1> QED BY <1>1, <1>2, <1>3, <1>4, <1>5, <1>6, <1>7, <1>8, <1>9 DEF IInv

\* An upload that moves nothing only proceeds.
LEMMA KeepStatusKeeps == ASSUME IInv, NEW r \in Requests, KeepStatus(r) PROVE IInv'
<1>1. TypeOK'
  BY DEF IInv, KeepStatus, TypeOK, PlaceInv
<1>2. PlaceInv'
  BY DEF IInv, KeepStatus, TypeOK, PlaceInv
<1>3. CreateInv'
  BY DEF IInv, KeepStatus, TypeOK, PlaceInv, CreateInv
<1>4. LockInv'
  BY DEF IInv, KeepStatus, TypeOK, PlaceInv, LockInv
<1>5. LogInv'
  BY DEF IInv, KeepStatus, TypeOK, PlaceInv, LockInv, LogInv
<1>6. TrailInv'
  BY DEF IInv, KeepStatus, TypeOK, PlaceInv, CreateInv, LockInv, LogInv, TrailInv
<1>7. ClosedInv'
  BY DEF IInv, KeepStatus, TypeOK, PlaceInv, CreateInv, ClosedInv, ClosedIsStamped
<1>8. ClosedIsStamped'
  BY DEF IInv, KeepStatus, TypeOK, PlaceInv, CreateInv, ClosedInv, ClosedIsStamped
<1>9. AuditTrailEndsInStatus'
  BY DEF IInv, KeepStatus, TypeOK, PlaceInv, CreateInv, LockInv, LogInv, TrailInv, AuditTrailEndsInStatus
<1> QED BY <1>1, <1>2, <1>3, <1>4, <1>5, <1>6, <1>7, <1>8, <1>9 DEF IInv

\* The risk score only takes the lock.
LEMMA RecomputeRiskKeeps == ASSUME IInv, NEW r \in Requests, RecomputeRisk(r) PROVE IInv'
<1>1. TypeOK'
  BY DEF IInv, RecomputeRisk, TypeOK, PlaceInv
<1>2. PlaceInv'
  BY DEF IInv, RecomputeRisk, TypeOK, PlaceInv
<1>3. CreateInv'
  BY DEF IInv, RecomputeRisk, TypeOK, PlaceInv, CreateInv
<1>4. LockInv'
  BY DEF IInv, RecomputeRisk, TypeOK, PlaceInv, LockInv
<1>5. LogInv'
  BY DEF IInv, RecomputeRisk, TypeOK, PlaceInv, LockInv, LogInv
<1>6. TrailInv'
  BY DEF IInv, RecomputeRisk, TypeOK, PlaceInv, CreateInv, LockInv, LogInv, TrailInv
<1>7. ClosedInv'
  BY DEF IInv, RecomputeRisk, TypeOK, PlaceInv, CreateInv, ClosedInv, ClosedIsStamped
<1>8. ClosedIsStamped'
  BY DEF IInv, RecomputeRisk, TypeOK, PlaceInv, CreateInv, ClosedInv, ClosedIsStamped
<1>9. AuditTrailEndsInStatus'
  BY DEF IInv, RecomputeRisk, TypeOK, PlaceInv, CreateInv, LockInv, LogInv, TrailInv, AuditTrailEndsInStatus
<1> QED BY <1>1, <1>2, <1>3, <1>4, <1>5, <1>6, <1>7, <1>8, <1>9 DEF IInv

\* A commit merges the written columns into the row under the lock.
LEMMA CommitKeeps == ASSUME IInv, NEW r \in Requests, Commit(r) PROVE IInv'
<1>0. PICK c \in Cases : c = req[r].case
  BY ArrivedRequest DEF Commit
<1> DEFINE new ==
           [status |-> IF "status" \in dirty[r] THEN obj[r].status ELSE row[c].status,
            closed |-> IF "closed" \in dirty[r] THEN obj[r].closed ELSE row[c].closed,
            title  |-> IF "title" \in dirty[r] THEN obj[r].title ELSE row[c].title]
<1>a. obj[r] \in CaseRow
  BY DEF Commit, IInv, PlaceInv
<1>b. req[r].op # "create" => row[c] \in CaseRow /\ row[c] # Absent
  <2>1. req[r].op # "create" => row[c] # Absent
    BY <1>0 DEF Commit, IInv, CreateInv
  <2> QED BY <2>1 DEF IInv, TypeOK
<1>c. req[r].op = "create" => dirty[r] = Columns
  BY DEF Commit, IInv, CreateInv
<1>d. new \in CaseRow
  BY <1>a, <1>b, <1>c
<1>e. /\ row'[c] = new /\ row'[c] # Absent
      /\ \A d \in Cases \ {c} : row'[d] = row[d]
  BY <1>0, <1>d DEF Commit, IInv, TypeOK, CaseStatus
<1>f. /\ obj'[r] = Absent /\ dirty'[r] = {} /\ logged'[r] = {} /\ ~locked'[r]
      /\ pc'[r] = "answered"
      /\ \A q \in Requests \ {r} :
           /\ obj'[q] = obj[q] /\ dirty'[q] = dirty[q] /\ logged'[q] = logged[q]
           /\ locked'[q] = locked[q] /\ pc'[q] = pc[q]
      /\ req' = req /\ clock' = clock /\ timeline' = timeline \cup logged[r]
  BY DEF Commit, IInv, TypeOK
<1>g. \A e \in logged[r] : e.case = c /\ e.at <= clock
  BY <1>0 DEF IInv, LogInv
<1>h. ASSUME NEW d \in Cases \ {c} PROVE StatusTrail(d)' = StatusTrail(d)
  BY <1>f, <1>g
<1>i. StatusTrail(c)' = StatusTrail(c) \cup {e \in logged[r] : IsStatusEntry(e)}
  BY <1>f, <1>g
<1>1. TypeOK'
  BY <1>0, <1>a, <1>d DEF IInv, Commit, TypeOK
<1>2. PlaceInv'
  BY DEF IInv, Commit, TypeOK, PlaceInv
<1>3. CreateInv'
  <2>1. ASSUME NEW q \in Requests \ {r}, Active(q)
        PROVE  IF req[q].op = "create" THEN row'[req[q].case] = Absent
               ELSE pc[q] \in Holding => row'[req[q].case] # Absent
    <3>1. req[q].case \in Cases
      BY <2>1, ArrivedRequest
    <3>2. CASE req[q].case = c
      BY <2>1, <3>2, <1>0, <1>e DEF IInv, CreateInv, Commit
    <3>3. CASE req[q].case # c
      BY <2>1, <3>1, <3>3, <1>e DEF IInv, CreateInv
    <3> QED BY <3>2, <3>3
  <2> QED BY <2>1, <1>f DEF IInv, CreateInv
<1>4. LockInv'
  BY DEF IInv, Commit, TypeOK, PlaceInv, LockInv
<1>5. LogInv'
  BY DEF IInv, Commit, TypeOK, PlaceInv, LockInv, LogInv
<1>6. TrailInv'
  <2>1. \A e \in timeline' : e.at <= clock'
    BY <1>f, <1>g DEF IInv, TrailInv
  <2>2. \A d \in Cases : row'[d] = Absent => StatusTrail(d)' = {}
    BY <1>e, <1>h DEF IInv, TrailInv
  <2>3. ASSUME NEW q \in Requests \ {r}, NEW e \in logged[q], IsStatusEntry(e),
               NEW f \in StatusTrail(req[q].case)'
        PROVE  f.at < e.at
    <3>1. req[q].case \in Cases
      BY <2>3, ArrivedRequest DEF IInv, PlaceInv
    <3>2. locked[q] /\ "status" \in dirty[q]
      BY <2>3 DEF IInv, LogInv, LockInv
    <3>3. CASE f \in StatusTrail(req[q].case)
      BY <2>3, <3>3 DEF IInv, TrailInv
    <3>4. CASE f \in logged[r] /\ IsStatusEntry(f) /\ req[q].case = c
      BY <3>2, <3>4, <1>0 DEF IInv, LogInv, LockInv
    <3>5. StatusTrail(req[q].case)' =
            {x \in timeline' : x.case = req[q].case /\ x.kind \in StatusKinds}
      BY <1>f
    <3> QED BY <1>f, <1>g, <3>1, <3>3, <3>4, <3>5, <2>3
  <2> QED BY <2>1, <2>2, <2>3, <1>f DEF TrailInv
<1>7. ClosedInv'
  BY DEF IInv, Commit, TypeOK, PlaceInv, CreateInv, ClosedInv, ClosedIsStamped
<1>8. ClosedIsStamped'
  BY DEF IInv, Commit, TypeOK, PlaceInv, CreateInv, ClosedInv, ClosedIsStamped
<1>9. AuditTrailEndsInStatus'
  <2>1. ASSUME NEW d \in Cases \ {c}, row'[d] # Absent
        PROVE  \E e \in StatusTrail(d)' :
                 /\ e.status = row'[d].status
                 /\ \A f \in StatusTrail(d)' : f # e => f.at < e.at
    BY <2>1, <1>e, <1>h DEF IInv, AuditTrailEndsInStatus
  <2>2. CASE "status" \in dirty[r]
    <3>1. PICK e \in logged[r] : IsStatusEntry(e)
      BY <2>2 DEF IInv, LogInv, Commit
    <3>2. e.status = row'[c].status
      BY <2>2, <3>1, <1>e DEF IInv, LogInv
    <3>3. \A f \in logged[r] : IsStatusEntry(f) => f = e
      BY <3>1 DEF IInv, LogInv
    <3>4. \A f \in StatusTrail(c) : f.at < e.at
      BY <3>1, <1>0 DEF IInv, TrailInv
    <3>5. e \in StatusTrail(c)' /\ \A f \in StatusTrail(c)' : f # e => f.at < e.at
      BY <3>1, <3>3, <3>4, <1>i
    <3> QED BY <2>1, <3>2, <3>5 DEF AuditTrailEndsInStatus
  <2>3. CASE "status" \notin dirty[r]
    <3>1. {e \in logged[r] : IsStatusEntry(e)} = {}
      BY <2>3 DEF IInv, LogInv
    <3>2. row[c] # Absent /\ row'[c].status = row[c].status
      BY <2>3, <1>b, <1>c, <1>e DEF CaseStatus
    <3>3. StatusTrail(c)' = StatusTrail(c)
      BY <3>1, <1>i
    <3>4. \E e \in StatusTrail(c) : /\ e.status = row[c].status
                                     /\ \A f \in StatusTrail(c) : f # e => f.at < e.at
      BY <3>2, <1>a DEF IInv, AuditTrailEndsInStatus
    <3> QED BY <2>1, <3>2, <3>3, <3>4 DEF AuditTrailEndsInStatus
  <2> QED BY <2>2, <2>3
<1> QED BY <1>1, <1>2, <1>3, <1>4, <1>5, <1>6, <1>7, <1>8, <1>9 DEF IInv

\* Rolling back leaves the tables alone and the session empty.
LEMMA RollbackKeeps ==
    ASSUME IInv, NEW r \in Requests, Active(r),
           NEW outcome \in {"refused", "failed"}, Rollback(r, outcome)
    PROVE  IInv'
<1>1. TypeOK'
  BY DEF IInv, Rollback, TypeOK, PlaceInv
<1>2. PlaceInv'
  BY DEF IInv, Rollback, TypeOK, PlaceInv
<1>3. CreateInv'
  BY DEF IInv, Rollback, TypeOK, PlaceInv, CreateInv
<1>4. LockInv'
  BY DEF IInv, Rollback, TypeOK, PlaceInv, LockInv
<1>5. LogInv'
  BY DEF IInv, Rollback, TypeOK, PlaceInv, LockInv, LogInv
<1>6. TrailInv'
  BY DEF IInv, Rollback, TypeOK, PlaceInv, CreateInv, LockInv, LogInv, TrailInv
<1>7. ClosedInv'
  BY DEF IInv, Rollback, TypeOK, PlaceInv, CreateInv, ClosedInv, ClosedIsStamped
<1>8. ClosedIsStamped'
  BY DEF IInv, Rollback, TypeOK, PlaceInv, CreateInv, ClosedInv, ClosedIsStamped
<1>9. AuditTrailEndsInStatus'
  BY DEF IInv, Rollback, TypeOK, PlaceInv, CreateInv, LockInv, LogInv, TrailInv, AuditTrailEndsInStatus
<1> QED BY <1>1, <1>2, <1>3, <1>4, <1>5, <1>6, <1>7, <1>8, <1>9 DEF IInv

LEMMA InitInv == Init => IInv
<1> SUFFICES ASSUME Init PROVE IInv
  OBVIOUS
<1>1. TypeOK
  <2>1. \A c \in Cases : row[c] # Absent => SeedEntry(c) \in Entry
    BY DEF Init, SeedRow, SeedEntry
  <2>2. timeline \subseteq Entry
    <3>1. \A e \in timeline : \E d \in Cases : row[d] # Absent /\ e = SeedEntry(d)
      BY DEF Init
    <3> HIDE DEF Entry, Absent
    <3> QED BY <2>1, <3>1
  <2>3. row \in [Cases -> CaseRow \cup {Absent}]
    BY DEF Init, SeedRow
  <2> QED BY <2>2, <2>3 DEF Init, TypeOK
<1>2. PlaceInv /\ CreateInv /\ LockInv /\ LogInv /\ ClosedInv
  BY DEF Init, PlaceInv, CreateInv, LockInv, LogInv, ClosedInv
<1>3. ASSUME NEW c \in Cases
      PROVE  StatusTrail(c) = IF row[c] = Absent THEN {} ELSE {SeedEntry(c)}
  <2>1. \A d \in Cases : SeedEntry(d).case = d /\ IsStatusEntry(SeedEntry(d))
    BY DEF SeedEntry
  <2>2. \A e : e \in timeline <=> \E d \in Cases : row[d] # Absent /\ e = SeedEntry(d)
    BY DEF Init
  <2> QED BY <2>1, <2>2
<1>4. TrailInv
  BY <1>3 DEF Init, TrailInv, SeedEntry
<1>5. ClosedIsStamped
  BY DEF Init, SeedRow, ClosedIsStamped
<1>6. AuditTrailEndsInStatus
  <2>1. \A c \in Cases : SeedEntry(c).status = row[c].status
    BY DEF SeedEntry
  <2> QED BY <1>3, <2>1 DEF AuditTrailEndsInStatus
<1> QED BY <1>1, <1>2, <1>4, <1>5, <1>6 DEF IInv

LEMMA NextInv == IInv /\ [Next]_vars => IInv'
<1> SUFFICES ASSUME IInv, [Next]_vars PROVE IInv'
  OBVIOUS
<1>1. CASE UNCHANGED vars
  BY <1>1 DEF vars, IInv, TypeOK, PlaceInv, CreateInv, LockInv, LogInv, TrailInv,
              ClosedInv, ClosedIsStamped, AuditTrailEndsInStatus
<1>2. ASSUME NEW r \in Requests, Step(r) PROVE IInv'
  <2>1. ASSUME NotFound(r) \/ RefuseDuplicate(r) \/ RefuseTransition(r) PROVE IInv'
    BY <2>1, RollbackKeeps DEF NotFound, RefuseDuplicate, RefuseTransition
  <2> QED BY <1>2, <2>1, LoadKeeps, CheckDuplicateKeeps, InsertCaseKeeps,
             FlushStatusKeeps, FlushAssignmentKeeps, FlushDetailsKeeps,
             FlushAmendmentKeeps, RecordStatusKeeps, RecordAssignmentKeeps,
             IngestKeeps, AnalyzeKeeps, StartInvestigatingKeeps, KeepStatusKeeps,
             RecomputeRiskKeeps, CommitKeeps DEF Step
<1>3. ASSUME NEW r \in Requests, Arrive(r) PROVE IInv'
  BY <1>3, ArriveKeeps
<1>4. ASSUME NEW r \in Requests, Fail(r) PROVE IInv'
  BY <1>4, RollbackKeeps DEF Fail
<1> QED BY <1>1, <1>2, <1>3, <1>4 DEF Next, Quiet

LEMMA Inductive == Spec => []IInv
  BY InitInv, NextInv, PTL DEF Spec

-----------------------------------------------------------------------------
(* The results. *)

\* Every reachable state has the declared shape.
THEOREM TypeCorrect == Spec => []TypeOK
<1>1. IInv => TypeOK
  BY DEF IInv
<1> QED BY <1>1, Inductive, PTL

\* Whatever stale objects concurrent requests write back, no committed case is
\* CLOSED or ARCHIVED without its closed_at (CaseRepository.update_status).
THEOREM ClosedStamped == Spec => []ClosedIsStamped
<1>1. IInv => ClosedIsStamped
  BY DEF IInv
<1> QED BY <1>1, Inductive, PTL

\* The committed timeline of a case, in timestamp order, ends in the status the
\* row has: update_case_status records the entry after the flush that locks.
THEOREM AuditTrailCorrect == Spec => []AuditTrailEndsInStatus
<1>1. IInv => AuditTrailEndsInStatus
  BY DEF IInv
<1> QED BY <1>1, Inductive, PTL
-----------------------------------------------------------------------------
(* Events and the timeline. *)

\* An event announces the entry, unless its kind has none.
Announced(e) == e.kind \in AnnouncedKinds => WasPublished(e)

\* What is about to be committed was announced when it was inserted.
AnnouncedInv == \A r \in Requests : \A e \in logged[r] : Announced(e)

\* What the session of a status PATCH has inserted when it is at p: nothing up to
\* the flush, then one entry of the status that was asked for.
MoveOK(r) ==
    /\ pc[r] = "flush" => logged[r] = {}
    /\ pc[r] = "record" /\ req[r].op = "status" =>
         logged[r] = {} /\ obj[r].status = req[r].arg
    /\ pc[r] = "commit" /\ req[r].op = "status" =>
         \E e : logged[r] = {e} /\ e.status = req[r].arg

MoveInv == \A r \in Requests : MoveOK(r)

AInv == /\ AnnouncedInv
        /\ MoveInv
        /\ CommittedWasAnnounced
        /\ AnsweredMovesAreAudited
-----------------------------------------------------------------------------
(* What the steps announce. *)

USE RequestsAssumption

\* What a step of r that does not commit leaves alone.
Aside(r) ==
    /\ timeline' = timeline
    /\ published \subseteq published'
    /\ pc[r] # "answered" /\ pc'[r] # "answered"
    /\ \A q \in Requests \ {r} : /\ pc'[q] = pc[q]
                                 /\ req'[q] = req[q]
                                 /\ obj'[q] = obj[q]
                                 /\ logged'[q] = logged[q]

\* Such a step keeps the invariant if it keeps it of r.
LEMMA AsideKeeps ==
    ASSUME IInv, AInv, NEW r \in Requests, Aside(r), MoveOK(r)',
           \A e \in logged'[r] : Announced(e)'
    PROVE  AInv'
<1>1. \A e : Announced(e) => Announced(e)'
  BY DEF Aside, Announced, WasPublished
<1>2. AnnouncedInv'
  BY <1>1 DEF AInv, AnnouncedInv, Aside
<1>3. MoveInv'
  BY DEF AInv, MoveInv, MoveOK, Aside
<1>4. \A e \in timeline : e.by # "seed" => e.by # r
  BY DEF AInv, CommittedWasAnnounced, WasPublished, Aside
<1>5. CommittedWasAnnounced'
  <2>1. \A e \in timeline : e.by # "seed" => Announced(e)'
    BY <1>1 DEF AInv, CommittedWasAnnounced, WasPublished, Announced
  <2>2. \A e \in timeline : e.by # "seed" => e.by \in Requests \ {r}
    BY <1>4 DEF IInv, TypeOK
  <2> QED BY <2>1, <2>2 DEF AInv, CommittedWasAnnounced, WasPublished, Announced, Aside
<1>6. AnsweredMovesAreAudited'
  BY DEF AInv, AnsweredMovesAreAudited, Aside
<1> QED BY <1>2, <1>3, <1>5, <1>6 DEF AInv

\* A request arrives with an empty session.
LEMMA ArriveAudits == ASSUME IInv, AInv, NEW r \in Requests, Arrive(r) PROVE AInv'
<1>1. logged'[r] = {} /\ pc'[r] \in {"check", "load"}
  BY DEF Arrive, IInv, TypeOK, PlaceInv
<1>2. Aside(r)
  BY DEF Arrive, Aside, IInv, TypeOK
<1> QED BY <1>1, <1>2, AsideKeeps DEF MoveOK

\* Whoever rolls back has inserted nothing in the end.
LEMMA RollbackAudits ==
    ASSUME IInv, AInv, NEW r \in Requests, Active(r),
           NEW outcome \in {"refused", "failed"}, Rollback(r, outcome)
    PROVE  AInv'
<1>1. logged'[r] = {} /\ pc'[r] = outcome
  BY DEF Rollback, IInv, TypeOK
<1>2. Aside(r)
  BY DEF Rollback, Aside, IInv, TypeOK
<1> QED BY <1>1, <1>2, AsideKeeps DEF MoveOK

\* The steps that insert no entry.
LEMMA UnrecordedAudits ==
    ASSUME IInv, AInv, NEW r \in Requests,
           \/ Load(r) \/ CheckDuplicate(r) \/ FlushStatus(r) \/ FlushAssignment(r)
           \/ FlushDetails(r) \/ FlushAmendment(r) \/ StartInvestigating(r)
           \/ KeepStatus(r) \/ RecomputeRisk(r)
    PROVE  AInv'
<1>1. logged' = logged /\ req' = req /\ timeline' = timeline /\ published \subseteq published'
  BY DEF Load, CheckDuplicate, FlushStatus, FlushAssignment, FlushDetails, FlushAmendment,
         StartInvestigating, KeepStatus, RecomputeRisk
<1>2. Aside(r)
  BY <1>1 DEF Aside, IInv, TypeOK, Load, CheckDuplicate, FlushStatus, FlushAssignment,
         FlushDetails, FlushAmendment, StartInvestigating, KeepStatus, RecomputeRisk
<1>3. \A e \in logged'[r] : Announced(e)'
  BY <1>1 DEF AInv, AnnouncedInv, Announced, WasPublished
<1>4. MoveOK(r)'
  <2>1. CASE Load(r)
    BY <2>1 DEF Load, MoveOK, IInv, TypeOK, PlaceInv
  <2>2. CASE FlushStatus(r)
    BY <2>2 DEF FlushStatus, MoveOK, IInv, TypeOK, AInv, MoveInv
  <2>3. CASE CheckDuplicate(r)
    BY <2>3 DEF CheckDuplicate, MoveOK, IInv, TypeOK
  <2>4. CASE FlushAssignment(r) \/ FlushDetails(r) \/ FlushAmendment(r)
    BY <2>4 DEF FlushAssignment, FlushDetails, FlushAmendment, MoveOK, IInv, TypeOK
  <2>5. CASE StartInvestigating(r) \/ KeepStatus(r) \/ RecomputeRisk(r)
    BY <2>5 DEF StartInvestigating, KeepStatus, RecomputeRisk, MoveOK, IInv, TypeOK, PlaceInv
  <2> QED BY <2>1, <2>2, <2>3, <2>4, <2>5
<1> QED BY <1>2, <1>3, <1>4, AsideKeeps

\* An entry is announced by the step that inserts it.
LEMMA RecordedAudits ==
    ASSUME IInv, AInv, NEW r \in Requests,
           InsertCase(r) \/ RecordStatus(r) \/ RecordAssignment(r) \/ Ingest(r)
    PROVE  AInv'
<1>1. PICK kind, status, event :
        /\ Record(r, kind, status) /\ Publish(r, event)
        /\ event \in EventsOf([case |-> req[r].case, kind |-> kind, status |-> status,
                               at |-> clock + 1, by |-> r])
        /\ pc[r] = "record" /\ req[r].op = "status" => status = obj[r].status
  <2> DEFINE Of(kind, status) == [case |-> req[r].case, kind |-> kind, status |-> status,
                                  at |-> clock + 1, by |-> r]
             Fits(kind, status, event) ==
                 /\ Record(r, kind, status) /\ Publish(r, event)
                 /\ event \in EventsOf(Of(kind, status))
                 /\ pc[r] = "record" /\ req[r].op = "status" => status = obj[r].status
  <2>1. CASE InsertCase(r)
    <3>1. Fits("case_opened", "OPEN", "case_created")
      BY <2>1 DEF InsertCase, EventsOf
    <3> QED BY <3>1
  <2>2. CASE RecordStatus(r)
    <3>1. Fits("case_status_changed", obj[r].status, StatusEvent(obj[r].status))
      BY <2>2 DEF RecordStatus, EventsOf
    <3> QED BY <3>1
  <2>3. CASE RecordAssignment(r)
    <3>1. Fits("case_assigned", "none", "case_assigned")
      BY <2>3 DEF RecordAssignment, EventsOf
    <3> QED BY <3>1
  <2>4. CASE Ingest(r)
    <3>1. Fits("evidence_ingested", "none", "evidence_attached")
      BY <2>4 DEF Ingest, EventsOf
    <3> QED BY <3>1
  <2> QED BY <2>1, <2>2, <2>3, <2>4
<1> DEFINE new == [case |-> req[r].case, kind |-> kind, status |-> status,
                   at |-> clock + 1, by |-> r]
<1>2. logged'[r] = logged[r] \cup {new} /\ req' = req /\ Aside(r)
  BY <1>1 DEF Aside, IInv, TypeOK, InsertCase, RecordStatus, RecordAssignment, Ingest
<1>3. \A e : e = new => Announced(e)'
  <2> DEFINE told == [case |-> req[r].case, kind |-> event, by |-> r]
  <2>1. told \in published' /\ event \in EventsOf(new)
    BY <1>1
  <2>2. told.by = new.by /\ told.case = new.case /\ told.kind = event
    OBVIOUS
  <2>3. \A e : EventsOf(e)' = EventsOf(e)
    BY DEF EventsOf
  <2> HIDE DEF told, new
  <2> QED BY <2>1, <2>2, <2>3 DEF Announced, WasPublished
<1>4. \A e \in logged'[r] : Announced(e)'
  BY <1>2, <1>3 DEF Aside, AInv, AnnouncedInv, Announced, WasPublished, EventsOf
<1>5. new.status = status
  OBVIOUS
<1> HIDE DEF new
<1>6. MoveOK(r)'
  <2>1. CASE RecordStatus(r)
    BY <2>1, <1>1, <1>2, <1>5 DEF RecordStatus, MoveOK, IInv, TypeOK, AInv, MoveInv
  <2>2. CASE InsertCase(r)
    BY <2>2, <1>2 DEF InsertCase, MoveOK, IInv, TypeOK, PlaceInv
  <2>3. CASE RecordAssignment(r)
    BY <2>3, <1>2 DEF RecordAssignment, MoveOK, IInv, TypeOK
  <2>4. CASE Ingest(r)
    BY <2>4, <1>2 DEF Ingest, MoveOK, IInv, TypeOK
  <2> QED BY <2>1, <2>2, <2>3, <2>4
<1> QED BY <1>2, <1>4, <1>6, AsideKeeps

\* Of what the later stages insert the findings are announced, and the others
\* need no announcement.
LEMMA AnalyzeAudits == ASSUME IInv, AInv, NEW r \in Requests, Analyze(r) PROVE AInv'
<1>1. PICK kinds \in Analyses :
        /\ logged' = [logged EXCEPT ![r] = @ \cup {Stamped(r, k, "none") : k \in kinds}]
        /\ IF "finding_generated" \in kinds
           THEN Publish(r, "finding_attached") ELSE UNCHANGED published
  BY DEF Analyze
<1>2. Aside(r) /\ req' = req /\ pc'[r] = "move"
  BY <1>1 DEF Analyze, Aside, IInv, TypeOK
<1>3. ASSUME NEW k \in kinds, NEW e, e = Stamped(r, k, "none") PROVE Announced(e)'
  <2>1. e.kind = k /\ e.by = r /\ e.case = req[r].case
    BY <1>3
  <2>2. CASE k = "finding_generated"
    <3> DEFINE told == [case |-> req[r].case, kind |-> "finding_attached", by |-> r]
    <3>1. told \in published'
      BY <1>1, <2>2
    <3>2. EventsOf(e)' = {"finding_attached"}
      BY <2>1, <2>2 DEF EventsOf
    <3>3. told.by = r /\ told.case = req[r].case /\ told.kind = "finding_attached"
      OBVIOUS
    <3> HIDE DEF told
    <3> QED BY <2>1, <3>1, <3>2, <3>3 DEF Announced, WasPublished
  <2>3. CASE k # "finding_generated"
    <3>1. k \in StageKinds
      BY StageEntries
    <3>2. k \notin AnnouncedKinds
      BY <2>3, <3>1 DEF AnnouncedKinds, StageKinds, AssessmentKinds
    <3> QED BY <2>1, <3>2 DEF Announced
  <2> QED BY <2>2, <2>3
<1>4. \A e \in logged[r] : Announced(e)'
  BY <1>2 DEF Aside, AInv, AnnouncedInv, Announced, WasPublished
<1>5. \A e \in logged'[r] : e \in logged[r] \/ \E k \in kinds : e = Stamped(r, k, "none")
  BY <1>1 DEF IInv, TypeOK
<1>6. \A e \in logged'[r] : Announced(e)'
  BY <1>3, <1>4, <1>5
<1>7. MoveOK(r)'
  BY <1>2 DEF MoveOK
<1> QED BY <1>2, <1>6, <1>7, AsideKeeps

\* A commit moves what was announced to the timeline; of a status PATCH that is
\* its one entry.
LEMMA CommitAudits == ASSUME IInv, AInv, NEW r \in Requests, Commit(r) PROVE AInv'
<1>1. /\ timeline' = timeline \cup logged[r] /\ published' = published /\ req' = req
      /\ logged'[r] = {} /\ pc[r] = "commit" /\ pc'[r] = "answered"
      /\ \A q \in Requests \ {r} : /\ pc'[q] = pc[q] /\ obj'[q] = obj[q]
                                   /\ logged'[q] = logged[q]
  BY DEF Commit, IInv, TypeOK
<1>2. \A e \in logged[r] : e.by = r /\ e.case = req[r].case
  BY DEF IInv, LogInv
<1>3. \A e \in timeline : e.by # r
  BY <1>1 DEF AInv, CommittedWasAnnounced
<1>4. AnnouncedInv'
  BY <1>1 DEF AInv, AnnouncedInv, Announced, WasPublished
<1>5. MoveInv'
  BY <1>1 DEF AInv, MoveInv, MoveOK
<1>6. CommittedWasAnnounced'
  <2>1. \A e \in timeline : e.by # "seed" => e.by \in Requests \ {r}
    BY <1>3 DEF IInv, TypeOK
  <2> QED BY <1>1, <1>2, <2>1 DEF AInv, AnnouncedInv, CommittedWasAnnounced, WasPublished, Announced
<1>7. AnsweredMovesAreAudited'
  <2>1. CASE req[r].op = "status"
    <3>1. PICK e : logged[r] = {e} /\ e.status = req[r].arg
      BY <2>1, <1>1 DEF AInv, MoveInv, MoveOK
    <3>2. e.by = r /\ e.case = req[r].case /\ \A f \in timeline' : f.by = r => f = e
      BY <3>1, <1>1, <1>2, <1>3
    <3> QED BY <3>1, <3>2, <1>1, <1>2 DEF AInv, AnsweredMovesAreAudited
  <2>2. CASE req[r].op # "status"
    BY <2>2, <1>1, <1>2 DEF AInv, AnsweredMovesAreAudited
  <2> QED BY <2>1, <2>2
<1> QED BY <1>4, <1>5, <1>6, <1>7 DEF AInv

\* Whatever the seeded timeline has, no request has inserted it.
LEMMA InitAudits == ASSUME Init PROVE AInv
  BY DEF Init, SeedEntry, AInv, AnnouncedInv, MoveInv, MoveOK, CommittedWasAnnounced,
         WasPublished, AnsweredMovesAreAudited

\* Every step keeps the invariant.
LEMMA NextAudits == IInv /\ AInv /\ [Next]_vars => AInv'
<1> SUFFICES ASSUME IInv, AInv, [Next]_vars PROVE AInv'
  OBVIOUS
<1>1. CASE UNCHANGED vars
  BY <1>1 DEF vars, AInv, AnnouncedInv, Announced, WasPublished, MoveInv, MoveOK,
              CommittedWasAnnounced, AnsweredMovesAreAudited
<1>2. ASSUME NEW r \in Requests, Step(r) PROVE AInv'
  <2>1. ASSUME NotFound(r) \/ RefuseDuplicate(r) \/ RefuseTransition(r) PROVE AInv'
    BY <2>1, RollbackAudits DEF NotFound, RefuseDuplicate, RefuseTransition
  <2> QED BY <1>2, <2>1, UnrecordedAudits, RecordedAudits, AnalyzeAudits,
             CommitAudits DEF Step
<1>3. ASSUME NEW r \in Requests, Arrive(r) PROVE AInv'
  BY <1>3, ArriveAudits
<1>4. ASSUME NEW r \in Requests, Fail(r) PROVE AInv'
  BY <1>4, RollbackAudits DEF Fail
<1> QED BY <1>1, <1>2, <1>3, <1>4 DEF Next, Quiet

\* AInv holds in every reachable state of the racing requests.
LEMMA AuditInductive == Spec => []AInv
<1>1. Init => AInv
  BY InitAudits
<1> QED BY <1>1, NextAudits, Inductive, PTL DEF Spec

-----------------------------------------------------------------------------
(* What a timeline and its events tell. *)

\* The timeline has entries of answered requests only, and of the kinds that
\* case_service.py publishes none that the subscribers were not told of.
THEOREM TimelinePublished == Spec => []CommittedWasAnnounced
<1>1. AInv => CommittedWasAnnounced
  BY DEF AInv
<1> QED BY <1>1, AuditInductive, PTL

\* A status PATCH that was answered with success is in the timeline exactly once,
\* with the status it asked for (update_case_status).
THEOREM MovesAudited == Spec => []AnsweredMovesAreAudited
<1>1. AInv => AnsweredMovesAreAudited
  BY DEF AInv
<1> QED BY <1>1, AuditInductive, PTL
-----------------------------------------------------------------------------
(* One request at a time: the state. *)

HIDE RequestsAssumption

\* One request at most is being handled.
Alone == \A r, q \in Requests : Active(r) /\ Active(q) => r = q

\* What a session has not written is what the row of its case has; what it has
\* written is a legal move, or another title.
Fresh(r) ==
    LET old == row[req[r].case]
    IN  /\ "status" \in dirty[r] => /\ req[r].op \in {"status", "upload"}
                                    /\ ValidTransition(old.status, obj[r].status)
        /\ "status" \notin dirty[r] => obj[r].status = old.status
        /\ "closed" \in dirty[r] <=> "status" \in dirty[r] /\ obj[r].status = "CLOSED"
        /\ "title" \in dirty[r] => req[r].op = "details"
        /\ "title" \notin dirty[r] => obj[r].title = old.title

SerialOK(r) ==
    /\ pc[r] \in Holding /\ req[r].op # "create" => Fresh(r)
    /\ pc[r] \in {"insert", "commit"} /\ req[r].op = "create" => ActiveTitled(req[r].arg) = {}
    /\ pc[r] = "commit" /\ req[r].op = "create" =>
         obj[r] = [status |-> "OPEN", closed |-> FALSE, title |-> req[r].arg]

SInv == /\ Alone
        /\ \A r \in Requests : SerialOK(r)
        /\ \A c \in Cases : IsFiniteSet(StatusTrail(c))
-----------------------------------------------------------------------------
(* One request at a time. *)

\* A server that reads one request at a time takes steps of the concurrent one.
LEMMA SerialIsConcurrent == [SerialNext]_vars => [Next]_vars
  BY DEF SerialNext, ArriveAlone, Next

\* One request at a time is a special case of requests that race.
LEMMA SerialIInv == SerialSpec => []IInv
<1>1. IInv /\ [SerialNext]_vars => IInv'
  BY SerialIsConcurrent, NextInv
<1> QED BY <1>1, InitInv, PTL DEF SerialSpec

\* What a commit does to the row and to the trail of its case.
LEMMA Committed ==
    ASSUME IInv, NEW r \in Requests, Commit(r), NEW c, c = req[r].case
    PROVE  /\ c \in Cases /\ obj[r] \in CaseRow
           /\ req[r].op # "create" => row[c] \in CaseRow /\ row[c] # Absent
           /\ req[r].op = "create" => row[c] = Absent /\ dirty[r] = Columns
           /\ row' = [row EXCEPT ![c] =
                [status |-> IF "status" \in dirty[r] THEN obj[r].status ELSE row[c].status,
                 closed |-> IF "closed" \in dirty[r] THEN obj[r].closed ELSE row[c].closed,
                 title  |-> IF "title" \in dirty[r] THEN obj[r].title ELSE row[c].title]]
           /\ \A d \in Cases \ {c} : StatusTrail(d)' = StatusTrail(d)
           /\ StatusTrail(c)' = StatusTrail(c) \cup {e \in logged[r] : IsStatusEntry(e)}
<1>1. c \in Cases /\ obj[r] \in CaseRow
  BY ArrivedRequest DEF Commit, IInv, PlaceInv
<1>2. req[r].op # "create" => row[c] # Absent
  BY DEF Commit, IInv, CreateInv
<1>3. req[r].op # "create" => row[c] \in CaseRow
  BY <1>1, <1>2 DEF IInv, TypeOK
<1>4. req[r].op = "create" => row[c] = Absent /\ dirty[r] = Columns
  BY DEF Commit, IInv, CreateInv
<1>5. \A e \in logged[r] : e.case = c
  BY DEF IInv, LogInv
<1>6. timeline' = timeline \cup logged[r]
  BY DEF Commit
<1>7. \A d \in Cases \ {c} : StatusTrail(d)' = StatusTrail(d)
  BY <1>5, <1>6
<1>8. StatusTrail(c)' = StatusTrail(c) \cup {e \in logged[r] : IsStatusEntry(e)}
  BY <1>5, <1>6
<1> QED BY <1>1, <1>2, <1>3, <1>4, <1>7, <1>8 DEF Commit

\* A committed move adds one entry to the trail, later than the others; any
\* other commit adds none.
LEMMA CommittedEntries ==
    ASSUME IInv, NEW r \in Requests, Commit(r)
    PROVE  IF "status" \in dirty[r]
           THEN \E x \in logged[r] :
                  /\ {e \in logged[r] : IsStatusEntry(e)} = {x}
                  /\ x.status = obj[r].status
                  /\ \A f \in StatusTrail(req[r].case) : f.at < x.at
           ELSE {e \in logged[r] : IsStatusEntry(e)} = {}
<1>1. CASE "status" \in dirty[r]
  <2>1. PICK x \in logged[r] : IsStatusEntry(x)
    BY <1>1 DEF IInv, LogInv, Commit
  <2>2. {e \in logged[r] : IsStatusEntry(e)} = {x} /\ x.status = obj[r].status
    BY <2>1 DEF IInv, LogInv
  <2>3. \A f \in StatusTrail(req[r].case) : f.at < x.at
    BY <2>1 DEF IInv, TrailInv
  <2> QED BY <1>1, <2>2, <2>3
<1>2. CASE "status" \notin dirty[r]
  BY <1>2 DEF IInv, LogInv
<1> QED BY <1>1, <1>2

\* At the start a case has one status entry, if it is there at all.
LEMMA SeedTrail ==
    ASSUME Init, NEW c \in Cases
    PROVE  StatusTrail(c) = IF row[c] = Absent THEN {} ELSE {SeedEntry(c)}
<1>1. \A d \in Cases : SeedEntry(d).case = d /\ IsStatusEntry(SeedEntry(d))
  BY DEF SeedEntry
<1>2. \A e : e \in timeline <=> \E d \in Cases : row[d] # Absent /\ e = SeedEntry(d)
  BY DEF Init
<1> QED BY <1>1, <1>2

\* Only commits change rows and the timeline.
LEMMA RowsAreCommitted ==
    ASSUME [SerialNext]_vars
    PROVE  UNCHANGED <<row, timeline>> \/ \E r \in Requests : Commit(r)
<1>1. ASSUME NEW r \in Requests, ArriveAlone(r) \/ Fail(r)
      PROVE  UNCHANGED <<row, timeline>>
  BY <1>1 DEF ArriveAlone, Arrive, Fail, Rollback
<1>2. ASSUME NEW r \in Requests, Step(r), ~Commit(r)
      PROVE  UNCHANGED <<row, timeline>>
  BY <1>2 DEF Step, Rollback, Load, NotFound, CheckDuplicate, RefuseDuplicate,
              InsertCase, FlushStatus, RefuseTransition, FlushAssignment, FlushDetails,
              FlushAmendment, RecordStatus, RecordAssignment, Ingest, Analyze,
              StartInvestigating, KeepStatus, RecomputeRisk
<1>3. UNCHANGED vars => UNCHANGED <<row, timeline>>
  BY DEF vars
<1> QED BY <1>1, <1>2, <1>3 DEF SerialNext, Quiet

\* No step of r concerns a handler that is not running.
LEMMA OnlyOneRuns ==
    ASSUME IInv, SInv, NEW r \in Requests, ArriveAlone(r) \/ Step(r) \/ Fail(r),
           SerialOK(r)'
    PROVE  Alone' /\ \A q \in Requests : SerialOK(q)'
<1>1. \A q \in Requests \ {r} : ~Active(q)
  BY DEF SInv, Alone, ArriveAlone, Step, Fail, Load, NotFound, CheckDuplicate,
         RefuseDuplicate, InsertCase, FlushStatus, RefuseTransition, FlushAssignment,
         FlushDetails, FlushAmendment, RecordStatus, RecordAssignment, Ingest, Analyze,
         StartInvestigating, KeepStatus, RecomputeRisk, Commit
<1>2. \E place : Goto(r, place)
  BY DEF ArriveAlone, Arrive, Step, Fail, Rollback, Load, NotFound, CheckDuplicate,
         RefuseDuplicate, InsertCase, FlushStatus, RefuseTransition, FlushAssignment,
         FlushDetails, FlushAmendment, RecordStatus, RecordAssignment, Ingest, Analyze,
         StartInvestigating, KeepStatus, RecomputeRisk, Commit
<1>3. \A q \in Requests \ {r} : pc'[q] = pc[q]
  BY <1>2 DEF IInv, TypeOK
<1> QED BY <1>1, <1>3 DEF Alone, SerialOK

\* Each step of a handler leaves it working on what the row has.
LEMMA SerialOKKept ==
    ASSUME IInv, SInv, NEW r \in Requests, ArriveAlone(r) \/ Step(r) \/ Fail(r)
    PROVE  SerialOK(r)'
<1>0. SerialOK(r)
  BY DEF SInv
<1>a. /\ obj \in [Requests -> CaseRow \cup {Absent}]
      /\ dirty \in [Requests -> SUBSET Columns]
      /\ pc \in [Requests -> {"idle"} \cup Running \cup Finished]
      /\ req \in [Requests -> Request \cup {NoRequest}]
  BY DEF IInv, TypeOK
<1>1. CASE ArriveAlone(r)
  BY <1>1, <1>a DEF ArriveAlone, Arrive, SerialOK
<1>2. CASE Load(r)
  BY <1>2, <1>a DEF Load, SerialOK, Fresh, IInv, PlaceInv
<1>3. CASE CheckDuplicate(r)
  BY <1>3, <1>a DEF CheckDuplicate, SerialOK, ActiveTitled
<1>4. CASE InsertCase(r)
  <2>1. req[r].op = "create"
    BY <1>4 DEF InsertCase, IInv, PlaceInv
  <2>2. ActiveTitled(req[r].arg)' = ActiveTitled(req[r].arg)
    BY <1>4 DEF InsertCase, ActiveTitled
  <2> QED BY <1>0, <1>4, <1>a, <2>1, <2>2 DEF InsertCase, SerialOK
<1>5. CASE FlushStatus(r)
  <2>1. dirty[r] = {} /\ req[r].op = "status"
    BY <1>5 DEF FlushStatus, IInv, LogInv
  <2>2. Fresh(r)
    BY <1>0, <1>5, <2>1 DEF FlushStatus, SerialOK
  <2>3. /\ obj'[r] = [obj[r] EXCEPT !.status = req[r].arg,
                                    !.closed = @ \/ req[r].arg = "CLOSED"]
        /\ dirty'[r] = {"status"} \cup IF req[r].arg = "CLOSED" THEN {"closed"} ELSE {}
        /\ row' = row /\ req' = req /\ pc'[r] = "record"
    BY <1>5, <1>a, <2>1 DEF FlushStatus
  <2>4. obj[r] \in CaseRow
    BY <1>5 DEF FlushStatus, IInv, PlaceInv
  <2>5. obj'[r].status = req[r].arg /\ obj'[r].title = obj[r].title
    BY <2>3, <2>4
  <2>6. ValidTransition(row[req[r].case].status, req[r].arg)
    BY <1>5, <2>1, <2>2 DEF FlushStatus, Fresh
  <2> QED BY <2>1, <2>2, <2>3, <2>5, <2>6 DEF Fresh, SerialOK
<1>6. CASE StartInvestigating(r)
  <2>1. dirty[r] = {} /\ req[r].op = "upload" /\ obj[r].status = "OPEN"
    BY <1>6 DEF StartInvestigating, IInv, LogInv, PlaceInv
  <2>2. Fresh(r)
    BY <1>0, <1>6, <2>1 DEF StartInvestigating, SerialOK
  <2>3. /\ obj'[r] = [obj[r] EXCEPT !.status = "INVESTIGATING", !.closed = @ \/ FALSE]
        /\ dirty'[r] = {"status"}
        /\ row' = row /\ req' = req /\ pc'[r] = "record"
    BY <1>6, <1>a, <2>1 DEF StartInvestigating
  <2>4. obj[r] \in CaseRow
    BY <1>6 DEF StartInvestigating, IInv, PlaceInv
  <2>5. obj'[r].status = "INVESTIGATING" /\ obj'[r].title = obj[r].title
    BY <2>3, <2>4
  <2>6. row[req[r].case].status = "OPEN"
    BY <2>1, <2>2 DEF Fresh
  <2>7. ValidTransition(row[req[r].case].status, "INVESTIGATING")
    BY <2>6 DEF ValidTransition, AllowedTransitions, CaseStatus
  <2> QED BY <2>1, <2>2, <2>3, <2>5, <2>6, <2>7 DEF Fresh, SerialOK
<1>7. CASE FlushDetails(r)
  <2>1. dirty[r] = {} /\ req[r].op = "details"
    BY <1>7 DEF FlushDetails, IInv, LogInv
  <2>2. Fresh(r)
    BY <1>0, <1>7, <2>1 DEF FlushDetails, SerialOK
  <2>3. /\ obj'[r] = [obj[r] EXCEPT !.title = req[r].arg]
        /\ dirty'[r] = IF req[r].arg = obj[r].title THEN {} ELSE {"title"}
        /\ row' = row /\ req' = req /\ pc'[r] = "commit"
    BY <1>7, <1>a, <2>1 DEF FlushDetails
  <2>4. obj[r] \in CaseRow
    BY <1>7 DEF FlushDetails, IInv, PlaceInv
  <2>5. obj'[r].title = req[r].arg /\ obj'[r].status = obj[r].status
    BY <2>3, <2>4
  <2> QED BY <2>1, <2>2, <2>3, <2>5 DEF Fresh, SerialOK
<1>8. ASSUME /\ pc[r] \in Holding /\ req[r].op # "create"
             /\ UNCHANGED <<row, req, obj, dirty>>
      PROVE  SerialOK(r)'
  BY <1>0, <1>8 DEF SerialOK, Fresh
<1>9. CASE \/ FlushAssignment(r) \/ FlushAmendment(r) \/ RecordStatus(r)
           \/ RecordAssignment(r) \/ Ingest(r) \/ Analyze(r) \/ KeepStatus(r)
           \/ RecomputeRisk(r)
  <2>1. pc[r] \in Holding \ {"commit"} /\ UNCHANGED <<row, req, obj, dirty>>
    BY <1>9 DEF FlushAssignment, FlushAmendment, RecordStatus, RecordAssignment,
                Ingest, Analyze, KeepStatus, RecomputeRisk
  <2> QED BY <1>8, <2>1 DEF IInv, PlaceInv
<1>10. CASE Commit(r) \/ NotFound(r) \/ RefuseDuplicate(r) \/ RefuseTransition(r) \/ Fail(r)
  BY <1>10, <1>a DEF Commit, NotFound, RefuseDuplicate, RefuseTransition, Fail,
                     Rollback, SerialOK
<1> QED BY <1>1, <1>2, <1>3, <1>4, <1>5, <1>6, <1>7, <1>9, <1>10 DEF Step

\* Trails stay finite: only a commit adds to one, and one entry at most.
LEMMA TrailsFinite ==
    ASSUME IInv, SInv, [SerialNext]_vars, NEW c \in Cases
    PROVE  IsFiniteSet(StatusTrail(c)')
<1>0. IsFiniteSet(StatusTrail(c))
  BY DEF SInv
<1>1. CASE timeline' = timeline
  <2>1. StatusTrail(c)' = StatusTrail(c)
    BY <1>1
  <2> QED BY <1>0, <2>1
<1>2. ASSUME NEW r \in Requests, Commit(r) PROVE IsFiniteSet(StatusTrail(c)')
  <2>0. \A k : k = req[r].case => \A d \in Cases \ {k} : StatusTrail(d)' = StatusTrail(d)
    BY <1>2, Committed
  <2>1. CASE c # req[r].case
    <3>1. StatusTrail(c)' = StatusTrail(c)
      BY <2>0, <2>1
    <3> QED BY <1>0, <3>1
  <2>2. CASE c = req[r].case
    <3>1. StatusTrail(c)' = StatusTrail(c) \cup {e \in logged[r] : IsStatusEntry(e)}
      BY <1>2, <2>2, Committed
    <3>2. \/ {e \in logged[r] : IsStatusEntry(e)} = {}
          \/ \E x : {e \in logged[r] : IsStatusEntry(e)} = {x}
      BY <1>2, CommittedEntries
    <3> HIDE DEF IsStatusEntry, StatusTrail
    <3>3. CASE {e \in logged[r] : IsStatusEntry(e)} = {}
      BY <1>0, <3>1, <3>3
    <3>4. ASSUME NEW x, {e \in logged[r] : IsStatusEntry(e)} = {x}
          PROVE  IsFiniteSet(StatusTrail(c)')
      BY <1>0, <3>1, <3>4, FS_AddElement
    <3> QED BY <3>2, <3>3, <3>4
  <2> QED BY <2>1, <2>2
<1> QED BY <1>1, <1>2, RowsAreCommitted

\* IInv and SInv hold together whenever requests are served one at a time.
LEMMA SerialInductive == SerialSpec => [](IInv /\ SInv)
<1>1. Init => SInv
  <2> SUFFICES ASSUME Init PROVE SInv
    OBVIOUS
  <2>1. ASSUME NEW c \in Cases PROVE IsFiniteSet(StatusTrail(c))
    <3>1. StatusTrail(c) = {} \/ StatusTrail(c) = {SeedEntry(c)}
      BY SeedTrail
    <3>2. IsFiniteSet({}) /\ IsFiniteSet({SeedEntry(c)})
      BY FS_EmptySet, FS_Singleton
    <3> HIDE DEF StatusTrail
    <3> QED BY <3>1, <3>2, Zenon
  <2>2. Alone /\ \A r \in Requests : SerialOK(r)
    BY DEF Init, Alone, SerialOK
  <2> QED BY <2>1, <2>2 DEF SInv
<1>2. IInv /\ SInv /\ [SerialNext]_vars => SInv'
  <2> SUFFICES ASSUME IInv, SInv, [SerialNext]_vars PROVE SInv'
    OBVIOUS
  <2>1. \A c \in Cases : IsFiniteSet(StatusTrail(c)')
    BY TrailsFinite
  <2>2. ASSUME NEW r \in Requests, ArriveAlone(r) \/ Step(r) \/ Fail(r)
        PROVE  Alone' /\ \A q \in Requests : SerialOK(q)'
    BY <2>2, SerialOKKept, OnlyOneRuns
  <2>3. ASSUME UNCHANGED vars PROVE Alone' /\ \A q \in Requests : SerialOK(q)'
    <3>1. Alone'
      BY <2>3 DEF vars, SInv, Alone
    <3>2. \A q \in Requests : SerialOK(q)'
      BY <2>3 DEF vars, SInv, SerialOK, Fresh, ActiveTitled
    <3> QED BY <3>1, <3>2
  <2>4. Alone' /\ \A q \in Requests : SerialOK(q)'
    BY <2>2, <2>3 DEF SerialNext, Quiet
  <2> HIDE DEF StatusTrail
  <2> QED BY <2>1, <2>4 DEF SInv
<1> QED BY <1>1, <1>2, SerialIInv, PTL DEF SerialSpec
-----------------------------------------------------------------------------
(* What the server promises that reads one request at a time. *)

\* core/services/case_lifecycle.py: no illegal move of a case is committed.
THEOREM SerialMovesLegal == SerialSpec => LegalMoves
<1>1. ASSUME IInv, SInv, [SerialNext]_vars, NEW c \in Cases, row[c] # Absent, Moves(c)
      PROVE  ValidTransition(row[c].status, row'[c].status)
  <2>1. PICK r \in Requests : Commit(r)
    BY <1>1, RowsAreCommitted DEF Moves
  <2>2. c = req[r].case
    BY <1>1, <2>1, Committed DEF Moves, IInv, TypeOK
  <2>3. req[r].op # "create"
    BY <1>1, <2>1, <2>2, Committed
  <2>4. Fresh(r)
    BY <1>1, <2>1, <2>3 DEF SInv, SerialOK, Commit
  <2>5. row'[c].status = IF "status" \in dirty[r] THEN obj[r].status ELSE row[c].status
    BY <1>1, <2>1, <2>2, Committed DEF IInv, TypeOK
  <2>6. "status" \in dirty[r]
    BY <1>1, <2>5 DEF Moves
  <2> QED BY <2>2, <2>4, <2>5, <2>6 DEF Fresh
<1>2. IInv /\ SInv /\ [SerialNext]_vars =>
        [\A c \in Cases : row[c] # Absent /\ Moves(c)
            => ValidTransition(row[c].status, row'[c].status)]_vars
  BY <1>1
<1> QED BY <1>2, SerialInductive, PTL DEF SerialSpec, LegalMoves
-----------------------------------------------------------------------------
(* The refinement. *)

\* Board and server read the lifecycle in the same module.
LEMMA SameLifecycle ==
    /\ Board!CaseStatus = CaseStatus
    /\ Board!ClosedLike = ClosedLike
    /\ \A s, t : Board!ValidTransition(s, t) <=> ValidTransition(s, t)
<1>1. Board!CaseStatus = CaseStatus /\ Board!ClosedLike = ClosedLike
  BY DEF Board!CaseStatus, CaseStatus, Board!ClosedLike, ClosedLike
<1>2. Board!AllowedTransitions = AllowedTransitions
  BY <1>1 DEF Board!AllowedTransitions, AllowedTransitions
<1> QED BY <1>1, <1>2 DEF Board!ValidTransition, ValidTransition

\* The board shows a case that is there, with the status its row has.
LEMMA BoardShowsRows ==
    ASSUME IInv, SInv, NEW c \in Cases
    PROVE  /\ row[c] = Absent => TrailStatuses(c) = <<>>
           /\ row[c] # Absent => /\ TrailStatuses(c) # <<>>
                                 /\ TrailStatuses(c)[Len(TrailStatuses(c))] = row[c].status
<1>1. CASE row[c] = Absent
  <2>1. StatusTrail(c) = {}
    BY <1>1 DEF IInv, TrailInv
  <2> HIDE DEF StatusTrail
  <2> QED BY <1>1, <2>1, NoTrail DEF TrailStatuses
<1>2. CASE row[c] # Absent
  <2>1. PICK e \in StatusTrail(c) : /\ e.status = row[c].status
                                    /\ \A f \in StatusTrail(c) : f # e => f.at < e.at
    BY <1>2 DEF IInv, AuditTrailEndsInStatus
  <2>2. \A f \in StatusTrail(c) : f.at \in Int
    BY DEF IInv, TypeOK
  <2>3. IsFiniteSet(StatusTrail(c))
    BY DEF SInv
  <2> HIDE DEF StatusTrail
  <2> QED BY <1>2, <2>1, <2>2, <2>3, LatestIsLast DEF TrailStatuses
<1> QED BY <1>1, <1>2

\* ... and so the titles of its active cases are the rows'.
LEMMA BoardTitles ==
    ASSUME IInv, SInv, NEW t
    PROVE  Board!ActiveTitled(t) = ActiveTitled(t)
<1>1. ASSUME NEW c \in Cases
      PROVE  /\ Board!Exists(c) <=> row[c] # Absent
             /\ Board!Exists(c) => Board!Status(c) = row[c].status
  BY BoardShowsRows DEF Board!Exists, Board!Status
<1>2. Board!ActiveTitled(t) = {c \in Cases : /\ Board!Exists(c)
                                            /\ Board!Status(c) \notin ClosedLike
                                            /\ row[c].title = t}
  BY SameLifecycle DEF Board!ActiveTitled
<1> HIDE DEF Absent
<1> QED BY <1>1, <1>2 DEF ActiveTitled

\* What a commit adds to the board.
LEMMA CommittedStatuses ==
    ASSUME IInv, SInv, NEW r \in Requests, Commit(r), NEW c, c = req[r].case
    PROVE  /\ \A d \in Cases \ {c} : TrailStatuses(d)' = TrailStatuses(d)
           /\ TrailStatuses(c)' = IF "status" \in dirty[r]
                                  THEN Append(TrailStatuses(c), obj[r].status)
                                  ELSE TrailStatuses(c)
<1> DEFINE new == {e \in logged[r] : IsStatusEntry(e)}
<1>1. /\ c \in Cases
      /\ \A d \in Cases \ {c} : StatusTrail(d)' = StatusTrail(d)
      /\ StatusTrail(c)' = StatusTrail(c) \cup new
  BY Committed
<1>2. IsFiniteSet(StatusTrail(c)) /\ \A f \in StatusTrail(c) : f.at \in Int
  BY <1>1 DEF SInv, IInv, TypeOK
<1>3. \A f \in logged[r] : f.at \in Int
  BY DEF IInv, TypeOK
<1>4. CASE "status" \in dirty[r]
  <2>1. PICK x \in logged[r] : /\ new = {x}
                               /\ x.status = obj[r].status
                               /\ \A f \in StatusTrail(c) : f.at < x.at
    BY <1>4, CommittedEntries
  <2> HIDE DEF StatusTrail, new
  <2>2. InOrder(StatusTrail(c) \cup {x}) = Append(InOrder(StatusTrail(c)), x.status)
    BY <1>2, <1>3, <2>1, LaterIsAppended
  <2> QED BY <1>1, <1>4, <2>1, <2>2 DEF TrailStatuses
<1>5. CASE "status" \notin dirty[r]
  <2>1. new = {}
    BY <1>5, CommittedEntries
  <2> HIDE DEF StatusTrail, new
  <2> QED BY <1>1, <1>5, <2>1 DEF TrailStatuses
<1> QED BY <1>4, <1>5

\* An empty database shows the empty board.
LEMMA BoardInit == Init => Board!Init
<1> SUFFICES ASSUME Init PROVE Board!Init
  OBVIOUS
<1>1. ASSUME NEW c \in Cases
      PROVE  TrailStatuses(c) = IF row[c] = Absent THEN <<>> ELSE <<row[c].status>>
  <2>1. CASE row[c] = Absent
    <3>1. StatusTrail(c) = {}
      BY <2>1, SeedTrail
    <3> HIDE DEF StatusTrail
    <3> QED BY <2>1, <3>1, NoTrail DEF TrailStatuses
  <2>2. CASE row[c] # Absent
    <3>1. StatusTrail(c) = {} \cup {SeedEntry(c)}
      BY <2>2, SeedTrail
    <3>2. SeedEntry(c).status = row[c].status /\ SeedEntry(c).at = 0
      BY DEF SeedEntry
    <3>3. InOrder({} \cup {SeedEntry(c)}) = Append(InOrder({}), SeedEntry(c).status)
      BY <3>2, FS_EmptySet, LaterIsAppended
    <3> HIDE DEF StatusTrail
    <3>4. TrailStatuses(c) = Append(<<>>, row[c].status)
      BY <3>1, <3>2, <3>3, NoTrail DEF TrailStatuses
    <3> QED BY <2>2, <3>4
  <2> QED BY <2>1, <2>2
<1>2. \A c \in Cases : row[c] \in SeedRow \cup {Absent}
  BY DEF Init
<1>3. \A c \in Cases : row[c] # Absent => row[c].status \in CaseStatus
  BY <1>2 DEF SeedRow
<1>4. \A c \in Cases : /\ row[c].closed \in BOOLEAN
                       /\ row[c].title \in Titles \cup {"none"}
  <2>1. \A c \in Cases : row[c] \in CaseRow \/ row[c] = Absent
    BY <1>2 DEF SeedRow
  <2>2. \A x \in CaseRow : x.closed \in BOOLEAN /\ x.title \in Titles
    OBVIOUS
  <2>3. Absent.closed \in BOOLEAN /\ Absent.title = "none"
    OBVIOUS
  <2> HIDE DEF Absent, CaseRow
  <2> QED BY <2>1, <2>2, <2>3
<1>5. \A c \in Cases : /\ row[c] # Absent
                       /\ row[c].status \in {"CLOSED", "ARCHIVED"}
                       => row[c].closed
  BY <1>2 DEF SeedRow
<1>6. [c \in Cases |-> TrailStatuses(c)] \in
        [Cases -> {<<>>} \cup {<<s>> : s \in CaseStatus}]
  BY <1>1, <1>3
<1>7. \A c \in Cases : Board!Exists(c) /\ Board!Status(c) \in {"CLOSED", "ARCHIVED"}
                         => row[c].closed
  BY <1>1, <1>5 DEF Board!Exists, Board!Status
<1>8. /\ [c \in Cases |-> row[c].closed] \in [Cases -> BOOLEAN]
      /\ [c \in Cases |-> row[c].title] \in [Cases -> Titles \cup {"none"}]
  BY <1>4
<1>9. \A c \in Cases : Board!Exists(c) /\ Board!Status(c) \in {"CLOSED", "ARCHIVED"}
                         => [d \in Cases |-> row[d].closed][c]
  BY <1>7
<1> QED BY <1>6, <1>8, <1>9, SameLifecycle DEF Board!Init

\* Every step of the serial server is a step of the board, or shows nothing.
LEMMA BoardNext ==
    ASSUME IInv, SInv, [SerialNext]_vars
    PROVE  [Board!Next]_(Board!vars)
<1>1. CASE UNCHANGED <<row, timeline>>
  <2>1. \A c \in Cases : StatusTrail(c)' = StatusTrail(c)
    BY <1>1
  <2>2. \A c \in Cases : TrailStatuses(c)' = TrailStatuses(c)
    BY <2>1 DEF TrailStatuses
  <2> QED BY <1>1, <2>2 DEF Board!vars
<1>2. ASSUME NEW r \in Requests, Commit(r) PROVE [Board!Next]_(Board!vars)
  <2>0. PICK c \in Cases : c = req[r].case
    BY <1>2, Committed
  <2> DEFINE H == [d \in Cases |-> TrailStatuses(d)]
             K == [d \in Cases |-> row[d].closed]
             T == [d \in Cases |-> row[d].title]
             moved == "status" \in dirty[r]
  <2>1. /\ obj[r] \in CaseRow
        /\ req[r].op # "create" => row[c] \in CaseRow /\ row[c] # Absent
        /\ req[r].op = "create" => row[c] = Absent /\ dirty[r] = Columns
        /\ row'[c] = [status |-> IF "status" \in dirty[r] THEN obj[r].status ELSE row[c].status,
                      closed |-> IF "closed" \in dirty[r] THEN obj[r].closed ELSE row[c].closed,
                      title  |-> IF "title" \in dirty[r] THEN obj[r].title ELSE row[c].title]
        /\ \A d \in Cases \ {c} : row'[d] = row[d]
    BY <1>2, <2>0, Committed DEF IInv, TypeOK
  <2>2. H' = IF moved THEN [H EXCEPT ![c] = Append(@, obj[r].status)] ELSE H
    BY <1>2, <2>0, CommittedStatuses
  <2>3. T' = IF "title" \in dirty[r] THEN [T EXCEPT ![c] = obj[r].title] ELSE T
    BY <2>1
  <2>4. K' = IF "closed" \in dirty[r] THEN [K EXCEPT ![c] = obj[r].closed] ELSE K
    BY <2>1
  <2>5. CASE req[r].op = "create"
    <3>1. obj[r] = [status |-> "OPEN", closed |-> FALSE, title |-> req[r].arg]
      BY <1>2, <2>5 DEF SInv, SerialOK, Commit
    <3>2. ActiveTitled(req[r].arg) = {}
      BY <1>2, <2>5 DEF SInv, SerialOK, Commit
    <3>3. row[c] = Absent /\ TrailStatuses(c) = <<>>
      BY <2>1, <2>5, BoardShowsRows
    <3>4. H' = [H EXCEPT ![c] = <<"OPEN">>]
      BY <2>1, <2>2, <2>5, <3>1, <3>3
    <3>5. T' = [T EXCEPT ![c] = req[r].arg] /\ K' = K
      <4>1. /\ "title" \in dirty[r] /\ "closed" \in dirty[r]
            /\ obj[r].title = req[r].arg /\ obj[r].closed = FALSE
        BY <2>1, <2>5, <3>1
      <4>2. [K EXCEPT ![c] = FALSE] = K
        <5>1. K[c] = FALSE
          BY <3>3
        <5>2. K = [d \in Cases |-> K[d]]
          OBVIOUS
        <5> HIDE DEF K
        <5> QED BY <5>1, <5>2
      <4> HIDE DEF T, K, H
      <4> QED BY <2>3, <2>4, <4>1, <4>2
    <3>6. req[r].arg \in Titles
      BY <2>1, <3>1
    <3>7. Board!Open(c, req[r].arg)
      BY <3>2, <3>3, <3>4, <3>5, BoardTitles DEF Board!Open, Board!Exists
    <3>8. Board!Next
      BY <3>6, <3>7, Zenon DEF Board!Next, Board!Open, Board!Move, Board!Retitle
    <3> QED BY <3>8
  <2>6. CASE req[r].op # "create"
    <3>1. Fresh(r)
      BY <1>2, <2>6 DEF SInv, SerialOK, Commit
    <3>2. /\ H[c] # <<>>
          /\ H[c][Len(H[c])] = row[c].status
      BY <2>1, <2>6, BoardShowsRows
    <3>3. Board!Exists(c) /\ Board!Status(c) = row[c].status
      BY <3>2 DEF Board!Exists, Board!Status
    <3>4. CASE moved
      <4>1. "title" \notin dirty[r] /\ ValidTransition(row[c].status, obj[r].status)
        BY <2>0, <3>1, <3>4 DEF Fresh
      <4>2. T' = T
        BY <2>3, <4>1
      <4>3. K' = [K EXCEPT ![c] = @ \/ obj[r].status = "CLOSED"]
        <5>1. "closed" \in dirty[r] <=> obj[r].status = "CLOSED"
          BY <3>1, <3>4 DEF Fresh
        <5>2. obj[r].status = "CLOSED" => obj[r].closed
          BY DEF IInv, ClosedInv
        <5>3. K[c] \in BOOLEAN /\ obj[r].closed \in BOOLEAN
          BY <2>1, <2>6
        <5>4. K'[c] = (K[c] \/ obj[r].status = "CLOSED")
          BY <2>4, <5>1, <5>2, <5>3
        <5> QED BY <2>1, <5>4
      <4>4. Board!Move(c, obj[r].status)
        <5>1. H' = [H EXCEPT ![c] = Append(@, obj[r].status)]
          BY <2>2, <3>4
        <5>2. ValidTransition(Board!Status(c), obj[r].status)
          BY <3>3, <4>1
        <5> QED BY <3>3, <4>2, <4>3, <5>1, <5>2, SameLifecycle DEF Board!Move
      <4>5. obj[r].status \in Board!CaseStatus
        BY <2>1, SameLifecycle
      <4>6. Board!Next
        BY <4>4, <4>5, Zenon DEF Board!Next, Board!Open, Board!Move, Board!Retitle
      <4> QED BY <4>6
    <3>5. CASE ~moved
      <4>1. H' = H /\ K' = K
        BY <2>2, <2>4, <3>1, <3>5 DEF Fresh
      <4>2. CASE "title" \in dirty[r]
        <5>1. Board!Retitle(c, obj[r].title)
          BY <2>3, <3>3, <4>1, <4>2 DEF Board!Retitle
        <5>2. obj[r].title \in Titles
          BY <2>1
        <5>3. Board!Next
          BY <5>1, <5>2, Zenon DEF Board!Next, Board!Open, Board!Move, Board!Retitle
        <5> QED BY <5>3
      <4>3. CASE "title" \notin dirty[r]
        BY <2>3, <4>1, <4>3 DEF Board!vars
      <4> QED BY <4>2, <4>3
    <3> QED BY <3>4, <3>5
  <2> QED BY <2>5, <2>6
<1> QED BY <1>1, <1>2, RowsAreCommitted

\* The server that handles one request at a time implements the board: what a
\* case went through is its timeline in timestamp order, it walks the lifecycle
\* graph, and no case is opened under a title an active case has.
THEOREM SerialImplementsBoard == SerialSpec => ImplementsBoard
<1>1. Init => Board!Init
  BY BoardInit
<1>2. IInv /\ SInv /\ [SerialNext]_vars => [Board!Next]_(Board!vars)
  BY BoardNext
<1> QED BY <1>1, <1>2, SerialInductive, PTL DEF SerialSpec, ImplementsBoard, Board!Spec
=============================================================================
