----------------------- MODULE CaseAnnotationsProofs -----------------------
(***************************************************************************)
(* Proofs about CaseAnnotations: for any number of concurrent requests and *)
(* with either kind of write lock, no edit, deletion or tag of a case is   *)
(* lost or revived.                                                        *)
(***************************************************************************)
EXTENDS CaseAnnotations, TLAPS

\* What a request that has arrived asks for.
AskedInv == \A r \in Requests :
    pc[r] # "idle" => req[r] \in Request /\ (req[r].op = "add" => req[r].on = r)

\* A request that has written holds the lock of its row, nobody else does, and
\* the row is there, or not, as its statement needs it.
LockInv ==
    /\ \A r \in Requests : locked[r] <=> pc[r] \in {"record", "commit"}
    /\ \A q, r \in Requests : q # r /\ locked[q] /\ locked[r] => req[q].on # req[r].on
    /\ \A r \in Requests : locked[r] /\ req[r].op = "edit" => body[req[r].on] # "none"

\* The note a request adds is there only when it has been answered; until then
\* nobody else asks for it and the timeline does not mention it.
BirthInv ==
    /\ \A r \in Requests : body[r] # "none" => pc[r] = "answered"
    /\ \A r \in Requests :
         /\ pc[r] \in {"write", "record", "commit"}
         /\ req[r].op \in {"edit", "delete"}
         /\ req[r].on \in Requests
         => pc[req[r].on] = "answered"
    /\ \A e \in timeline : e.note \in Requests => pc[e.note] = "answered"

\* An entry that is to be committed says what its request does, and is later than
\* every committed one of its note.
TrailInv ==
    /\ \A r \in Requests :
         IF pc[r] = "commit" /\ OnNote(r)
         THEN \E e \in logged[r] :
                /\ logged[r] = {e}
                /\ e.note = req[r].on /\ e.op = req[r].op /\ e.by = r /\ e.at <= clock
                /\ \A f \in timeline : f.note = e.note => f.at <= e.at
         ELSE logged[r] = {}
    /\ \A r \in Requests : pc[r] = "record" => OnNote(r)
    /\ \A e \in timeline : e.at <= clock /\ pc[e.by] = "answered"

\* What a note shows was sent by a request that is over and had a text.
WriterInv == \A n \in Notes : body[n] \in Requests =>
    pc[body[n]] = "answered" /\ req[body[n]].text \in Texts

IInv == /\ TypeOK
        /\ AskedInv
        /\ LockInv
        /\ BirthInv
        /\ TrailInv
        /\ WriterInv
        /\ NoteShowsLastSent
        /\ DeletedStaysDeleted
        /\ AnsweredTagsStay
-----------------------------------------------------------------------------
(* The steps. *)

USE LockAssumption, NamesAssumption, TextsAssumption
    DEF Notes, Request, NoRequest, Entry, Running, Finished, Goto

\* The invariant holds of a case nobody has asked anything of yet.
LEMMA Initially == ASSUME Init PROVE IInv
<1>1. TypeOK
  BY DEF Init, TypeOK
<1>2. AskedInv /\ LockInv /\ BirthInv /\ TrailInv /\ WriterInv
  BY DEF Init, AskedInv, LockInv, BirthInv, TrailInv, WriterInv, OnNote
<1>3. NoteShowsLastSent /\ DeletedStaysDeleted /\ AnsweredTagsStay
  BY DEF Init, NoteShowsLastSent, DeletedStaysDeleted, AnsweredTagsStay, Answered
<1> QED BY <1>1, <1>2, <1>3 DEF IInv

\* What requests that are over have asked and seen stays, so what they sent does;
\* a step that commits nothing leaves the notes as they are.
LEMMA NothingCommitted ==
    ASSUME IInv, body' = body, timeline' = timeline,
           \A q \in Requests : pc[q] = "answered" =>
             pc'[q] = "answered" /\ req'[q] = req[q] /\ seen'[q] = seen[q]
    PROVE  WriterInv' /\ NoteShowsLastSent' /\ DeletedStaysDeleted'
<1>1. \A e \in timeline : Sends(e.by)' <=> Sends(e.by)
  BY DEF IInv, TypeOK, TrailInv, Sends
<1>2. WriterInv'
  BY DEF IInv, WriterInv
<1>3. NoteShowsLastSent'
  BY <1>1 DEF IInv, NoteShowsLastSent
<1> QED BY <1>2, <1>3 DEF IInv, DeletedStaysDeleted

\* A request that arrives changes nothing but what it asks.
LEMMA ArriveKeeps ==
    ASSUME IInv, NEW r \in Requests, Arrive(r) PROVE IInv'
<1> USE DEF IInv, Arrive
<1>1. PICK q \in Request : (q.op = "add" => q.on = r) /\ req' = [req EXCEPT ![r] = q]
  OBVIOUS
<1>2. TypeOK'
  BY <1>1 DEF TypeOK
<1>3. AskedInv'
  BY <1>1 DEF TypeOK, AskedInv
<1>4. LockInv'
  BY <1>1 DEF TypeOK, LockInv
<1>5. BirthInv'
  BY <1>1 DEF TypeOK, BirthInv
<1>6. TrailInv'
  BY <1>1 DEF TypeOK, TrailInv, OnNote
<1>7. WriterInv' /\ NoteShowsLastSent' /\ DeletedStaysDeleted'
  BY NothingCommitted DEF TypeOK
<1>8. AnsweredTagsStay'
  BY <1>1 DEF TypeOK, AnsweredTagsStay, Answered
<1> QED BY <1>2, <1>3, <1>4, <1>5, <1>6, <1>7, <1>8

\* A request that has found its row has written nothing yet.
LEMMA FindKeeps ==
    ASSUME IInv, NEW r \in Requests, Find(r) PROVE IInv'
<1> USE DEF IInv, Find
<1>0. req[r].op = "edit" => TextOf(body[req[r].on]) \in Texts
  BY DEF TypeOK, AskedInv, WriterInv, Present, OnNote, TextOf
<1>1. TypeOK'
  BY <1>0 DEF TypeOK
<1>2. AskedInv' /\ LockInv'
  BY DEF TypeOK, AskedInv, LockInv
<1>3. BirthInv'
  BY DEF TypeOK, AskedInv, BirthInv, Present, OnNote
<1>4. TrailInv'
  BY DEF TypeOK, TrailInv, OnNote
<1>5. WriterInv' /\ NoteShowsLastSent' /\ DeletedStaysDeleted'
  BY NothingCommitted DEF TypeOK
<1>6. AnsweredTagsStay'
  BY DEF TypeOK, AnsweredTagsStay, Answered
<1> QED BY <1>1, <1>2, <1>3, <1>4, <1>5, <1>6

\* A request that ends without a commit leaves the tables as they are, and is
\* answered only if its tag is there.
LEMMA RollbackKeeps ==
    ASSUME IInv, NEW r \in Requests, NEW outcome \in Finished,
           pc[r] \in Running, Rollback(r, outcome),
           outcome = "answered" => req[r].op = "tag" /\ req[r].on \in tags
    PROVE  IInv'
<1> USE DEF IInv, Rollback, EndSession
<1>1. TypeOK'
  BY DEF TypeOK
<1>2. AskedInv' /\ LockInv'
  BY DEF TypeOK, AskedInv, LockInv
<1>3. BirthInv'
  BY DEF TypeOK, AskedInv, BirthInv
<1>4. TrailInv'
  BY DEF TypeOK, TrailInv, OnNote
<1>5. WriterInv' /\ NoteShowsLastSent' /\ DeletedStaysDeleted'
  BY NothingCommitted DEF TypeOK
<1>6. AnsweredTagsStay'
  BY DEF TypeOK, AnsweredTagsStay, Answered
<1> QED BY <1>1, <1>2, <1>3, <1>4, <1>5, <1>6

\* A request that gets its lock excludes the others from its row, which is there if
\* its statement needs it.
LEMMA WriteKeeps ==
    ASSUME IInv, NEW r \in Requests, Write(r) PROVE IInv'
<1> USE DEF IInv, Write, Lock, Free
<1>1. TypeOK'
  BY DEF TypeOK
<1>2. AskedInv'
  BY DEF TypeOK, AskedInv
<1>3. LockInv'
  BY DEF TypeOK, LockInv, Present, OnNote
<1>4. BirthInv'
  BY DEF TypeOK, BirthInv
<1>5. TrailInv'
  BY DEF TypeOK, TrailInv, OnNote
<1>6. WriterInv' /\ NoteShowsLastSent' /\ DeletedStaysDeleted'
  BY NothingCommitted DEF TypeOK
<1>7. AnsweredTagsStay'
  BY DEF TypeOK, AnsweredTagsStay, Answered
<1> QED BY <1>1, <1>2, <1>3, <1>4, <1>5, <1>6, <1>7

\* The entry a request inserts is the latest of its note: nobody else writes it now.
LEMMA RecordKeeps ==
    ASSUME IInv, NEW r \in Requests, Record(r) PROVE IInv'
<1> DEFINE e == [note |-> req[r].on, op |-> req[r].op, at |-> clock + 1, by |-> r]
<1> USE DEF IInv, Record
<1>1. OnNote(r) /\ e \in Entry
  BY DEF TypeOK, AskedInv, TrailInv, OnNote
<1>2. TypeOK'
  BY <1>1 DEF TypeOK
<1>3. AskedInv' /\ LockInv'
  BY DEF TypeOK, AskedInv, LockInv
<1>4. BirthInv'
  BY DEF TypeOK, BirthInv
<1>5. TrailInv'
  <2>1. logged'[r] = {e} /\ \A f \in timeline : f.at <= e.at
    BY DEF TypeOK, TrailInv
  <2>2. pc'[r] = "commit" /\ (OnNote(r))' /\ e.at <= clock'
    BY <1>1 DEF TypeOK, OnNote
  <2>3. \A q \in Requests \ {r} : /\ pc'[q] = pc[q] /\ logged'[q] = logged[q]
                                  /\ (OnNote(q))' = OnNote(q)
    BY DEF TypeOK, OnNote
  <2>4. ASSUME NEW q \in Requests, pc'[q] = "commit", (OnNote(q))'
        PROVE  \E f \in logged'[q] :
                 /\ logged'[q] = {f}
                 /\ f.note = req'[q].on /\ f.op = req'[q].op /\ f.by = q /\ f.at <= clock'
                 /\ \A g \in timeline' : g.note = f.note => g.at <= f.at
    <3>1. CASE q = r
      BY <2>1, <2>2, <3>1
    <3>2. CASE q # r
      BY <2>3, <2>4, <3>2 DEF TypeOK, TrailInv
    <3> QED BY <3>1, <3>2
  <2>5. ASSUME NEW q \in Requests, ~(pc'[q] = "commit" /\ (OnNote(q))')
        PROVE  logged'[q] = {} /\ (pc'[q] = "record" => (OnNote(q))')
    BY <2>2, <2>3, <2>5 DEF TrailInv
  <2>6. \A f \in timeline' : f.at <= clock'
    BY DEF TypeOK, TrailInv
  <2> QED BY <2>4, <2>5, <2>6 DEF TrailInv
<1>6. WriterInv' /\ NoteShowsLastSent' /\ DeletedStaysDeleted'
  BY NothingCommitted DEF TypeOK
<1>7. AnsweredTagsStay'
  BY DEF TypeOK, AnsweredTagsStay, Answered
<1> QED BY <1>2, <1>3, <1>4, <1>5, <1>6, <1>7

\* A commit changes one row, the one it has locked, with the entry that says so.
LEMMA CommitKeeps ==
    ASSUME IInv, NEW r \in Requests, Commit(r) PROVE IInv'
<1> DEFINE op == req[r].op
           on == req[r].on
<1> USE DEF IInv, Commit, EndSession
<1>1. req[r] \in Request /\ (op = "add" => on = r) /\ locked[r]
  BY DEF TypeOK, AskedInv, LockInv
<1>2. CASE OnNote(r)
  <2>1. PICK e \in logged[r] :
          /\ logged[r] = {e}
          /\ e.note = on /\ e.op = op /\ e.by = r /\ e.at <= clock
          /\ \A f \in timeline : f.note = on => f.at <= e.at
    BY <1>2 DEF TrailInv
  <2>2. /\ e \in Entry /\ on \in Notes
        /\ timeline' = timeline \cup {e} /\ tags' = tags
        /\ body' = IF Sends(r) THEN [body EXCEPT ![on] = r]
                   ELSE IF op = "delete" THEN [body EXCEPT ![on] = "none"] ELSE body
        /\ Sends(r) => op \in {"add", "edit"} /\ req[r].text \in Texts
        /\ op = "add" => Sends(r)
    BY <1>1, <1>2, <2>1 DEF TypeOK, OnNote, Sends
  <2>3. \A n \in Notes \ {on} : body'[n] = body[n]
    BY <2>2 DEF TypeOK
  <2>4. TypeOK'
    BY <2>2 DEF TypeOK
  <2>5. AskedInv'
    BY DEF TypeOK, AskedInv
  <2>6. LockInv'
    BY <1>1, <2>2, <2>3 DEF TypeOK, AskedInv, LockInv
  <2>7. BirthInv'
    BY <1>1, <1>2, <2>1, <2>2, <2>3 DEF TypeOK, AskedInv, LockInv, BirthInv, OnNote
  <2>8. TrailInv'
    BY <1>1, <1>2, <2>1, <2>2 DEF TypeOK, LockInv, TrailInv, OnNote
  <2>9. NoteShowsLastSent'
    <3> DEFINE Sent(n) == {f \in timeline : f.note = n /\ Sends(f.by)}
               Later(n) == {f \in timeline' : f.note = n /\ Sends(f.by)}
    <3>0. \A q : Sends(q)' <=> Sends(q)
      BY DEF Sends
    <3>1. ASSUME NEW n \in Notes, body'[n] # "none", Later(n) # {}
          PROVE  \E f \in Later(n) : f.by = body'[n] /\ \A g \in Later(n) : g.at <= f.at
      <4>1. CASE n = on /\ Sends(r)
        <5>1. e \in Later(n) /\ body'[n] = r
          BY <2>1, <2>2, <4>1 DEF TypeOK
        <5>2. \A g \in Later(n) : g.at <= e.at
          BY <2>1, <2>2, <4>1 DEF TypeOK
        <5> QED BY <2>1, <5>1, <5>2
      <4>2. CASE n # on \/ ~Sends(r)
        <5>1. Later(n) = Sent(n)
          BY <2>1, <2>2, <4>2
        <5>2. body'[n] = body[n]
          BY <2>2, <2>3, <3>1, <4>2 DEF TypeOK
        <5> QED BY <3>1, <5>1, <5>2 DEF NoteShowsLastSent
      <4> QED BY <4>1, <4>2
    <3> QED BY <3>0, <3>1 DEF NoteShowsLastSent
  <2>10. DeletedStaysDeleted'
    BY <1>1, <1>2, <2>1, <2>2, <2>3
       DEF TypeOK, LockInv, BirthInv, DeletedStaysDeleted, OnNote
  <2>11. AnsweredTagsStay'
    BY <1>2, <2>2 DEF TypeOK, AnsweredTagsStay, Answered, OnNote
  <2>12. WriterInv'
    BY <1>1, <2>2, <2>3 DEF TypeOK, WriterInv
  <2> QED BY <2>4, <2>5, <2>6, <2>7, <2>8, <2>9, <2>10, <2>11, <2>12
<1>3. CASE ~OnNote(r)
  <2>1. op \in {"tag", "untag"} /\ on \in Tags /\ logged[r] = {} /\ ~Sends(r)
    BY <1>1, <1>3 DEF TypeOK, TrailInv, OnNote, Sends
  <2>2. /\ body' = body /\ timeline' = timeline
        /\ tags' = IF op = "tag" THEN tags \cup {on} ELSE tags \ {on}
    BY <2>1
  <2>3. TypeOK'
    BY <2>1, <2>2 DEF TypeOK
  <2>4. AskedInv' /\ LockInv'
    BY <2>1, <2>2 DEF TypeOK, AskedInv, LockInv
  <2>5. BirthInv'
    BY <2>2 DEF TypeOK, AskedInv, BirthInv
  <2>6. TrailInv'
    BY <1>3, <2>1, <2>2 DEF TypeOK, TrailInv, OnNote
  <2>7. WriterInv' /\ NoteShowsLastSent' /\ DeletedStaysDeleted'
    BY <2>2, NothingCommitted DEF TypeOK
  <2>8. AnsweredTagsStay'
    BY <2>1, <2>2 DEF TypeOK, AnsweredTagsStay, Answered
  <2> QED BY <2>3, <2>4, <2>5, <2>6, <2>7, <2>8
<1> QED BY <1>2, <1>3

\* The invariant survives every step.
LEMMA StepKeeps == ASSUME IInv, [Next]_vars PROVE IInv'
<1>1. CASE UNCHANGED vars
  BY <1>1 DEF vars, IInv, TypeOK, AskedInv, LockInv, BirthInv, TrailInv, OnNote,
              WriterInv, Sends, NoteShowsLastSent, DeletedStaysDeleted, AnsweredTagsStay, Answered
<1>2. ASSUME NEW r \in Requests, NotFound(r) \/ AlreadyTagged(r) \/ Conflict(r) \/ Fail(r)
      PROVE  IInv'
  <2>1. CASE NotFound(r)
    BY <2>1, RollbackKeeps DEF NotFound
  <2>2. CASE AlreadyTagged(r)
    <3>1. req[r].on \in tags
      BY <2>2 DEF AlreadyTagged, Present, OnNote
    <3> QED BY <2>2, <3>1, RollbackKeeps DEF AlreadyTagged
  <2>3. CASE Conflict(r)
    BY <2>3, RollbackKeeps DEF Conflict
  <2>4. CASE Fail(r)
    BY <2>4, RollbackKeeps DEF Fail, Active
  <2> QED BY <1>2, <2>1, <2>2, <2>3, <2>4
<1>3. ASSUME NEW r \in Requests, Arrive(r) \/ Step(r) \/ Fail(r)
      PROVE  IInv'
  BY <1>2, <1>3, ArriveKeeps, FindKeeps, WriteKeeps, RecordKeeps, CommitKeeps DEF Step
<1> QED BY <1>1, <1>3 DEF Next, Quiet

\* Every reachable state has the strengthened invariant.
LEMMA Inductive == Spec => []IInv
<1>1. Init => IInv
  BY Initially
<1>2. IInv /\ [Next]_vars => IInv'
  BY StepKeeps
<1> QED BY <1>1, <1>2, PTL DEF Spec

-----------------------------------------------------------------------------
(* The results. *)

\* Every reachable state has the declared shape.
THEOREM TypeCorrect == Spec => []TypeOK
<1>1. IInv => TypeOK
  BY DEF IInv
<1> QED BY <1>1, Inductive, PTL

\* However many editors overlap, a note shows the body of the entry the timeline
\* dates last among those whose request sent a body: update_case_note flushes, and
\* so locks the row, before it records.
THEOREM LastSentShown == Spec => []NoteShowsLastSent
<1>1. IInv => NoteShowsLastSent
  BY DEF IInv
<1> QED BY <1>1, Inductive, PTL

\* No request that had looked a note up before its deletion was committed brings
\* it back: the UPDATE of the missing row raises (delete_case_note).
THEOREM DeletedForever == Spec => []DeletedStaysDeleted
<1>1. IInv => DeletedStaysDeleted
  BY DEF IInv
<1> QED BY <1>1, Inductive, PTL

\* A tag answered with success is on the case unless its removal was answered
\* too, also when the answer was the row somebody else inserted (add_case_tag).
THEOREM TagsKept == Spec => []AnsweredTagsStay
<1>1. IInv => AnsweredTagsStay
  BY DEF IInv
<1> QED BY <1>1, Inductive, PTL
=============================================================================
