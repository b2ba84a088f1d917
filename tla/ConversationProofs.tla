------------------------- MODULE ConversationProofs -------------------------
(***************************************************************************)
(* Proofs about Conversation: for any number of requests in any number of  *)
(* chats, whichever of them fail and whatever numbers they read, what is   *)
(* stored of a chat is made of pairs of a question and its answer; its     *)
(* summaries tell no message twice; and its answers rest on sources of the *)
(* case.                                                                   *)
(***************************************************************************)
EXTENDS Conversation, SelectionProofs

Authors == Requests \cup 1 .. Seed
Turn == [index : Nat, case : Cases, role : {"user", "assistant"}, by : Authors]
Places == {"idle"} \cup Running \cup Ended

\* The places only a request that stores its messages comes to.
Storing == {"open", "insert", "count", "summarise", "upsert", "number", "question",
            "turns", "touch"}

Functional == /\ pc \in [Requests -> Places]
              /\ DOMAIN ask = Requests /\ DOMAIN seen = Requests /\ DOMAIN mine = Requests
              /\ messages \in [Sessions -> Seq(Turn)]
              /\ rows = [s \in Sessions |-> rows[s]]

\* What a request asks, of a case there is, in a session there is.
AskOK(r) ==
    /\ pc[r] \in Running \cup {"answered", "failed"} => SessionOf(r) \in Sessions
    /\ pc[r] \in Running => ask[r].case \in Cases
    /\ pc[r] \in Storing => setup.backend # "memory"

\* It has read no more turns than there are answers in the session.
SeenOK(r) ==
    /\ {"turns", "index"} \subseteq DOMAIN seen[r]
    /\ pc[r] = "idle" => seen[r].turns = 0
    /\ pc[r] \in Running =>
         seen[r].turns \in Nat /\ 2 * seen[r].turns <= Len(messages[SessionOf(r)])
    /\ pc[r] = "question" => seen[r].index \in Nat

Question(r, n) == Message(n, ask[r].case, "user", r)
Reply(r, n) == Message(n, ask[r].case, "assistant", r)

\* What it has written: nothing, its question, or both halves of its exchange.
NoMessage(r) == mine[r].messages = <<>>
Asked(r) == \E n \in Nat : mine[r].messages = <<Question(r, n)>>
Exchange(r) == \E n, k \in Nat : n < k /\ mine[r].messages = <<Question(r, n), Reply(r, k)>>

MineOK(r) ==
    /\ {"row", "messages"} \subseteq DOMAIN mine[r]
    /\ setup.backend = "memory" => NoMessage(r) /\ mine[r].row = None
    /\ pc[r] \notin {"answer", "turns", "touch", "commit"} => NoMessage(r)
    /\ setup.backend # "memory" =>
         /\ pc[r] = "answer" => Asked(r)
         /\ pc[r] \in {"turns", "touch", "commit"} => Exchange(r)
         /\ pc[r] = "commit" => mine[r].row = None \/ mine[r].row.turns = seen[r].turns + 1

RequestOK(r) == AskOK(r) /\ SeenOK(r) /\ MineOK(r)

\* A message of a request is there once the request is answered.
AuthorInv == \A s \in Sessions : \A i \in DOMAIN messages[s] :
    messages[s][i].by \in Requests => pc[messages[s][i].by] = "answered"

\* The three parts of TranscriptPaired.
PairedIn(s, c, r) ==
    LET questions == By(s, c, "user", r)
        answers == By(s, c, "assistant", r)
    IN  /\ Cardinality(questions) = Cardinality(answers)
        /\ Cardinality(answers) <= 1
        /\ \A i \in questions, j \in answers : messages[s][i].index < messages[s][j].index

PairsInv == \A s \in Sessions, c \in Cases, r \in Authors : PairedIn(s, c, r)

All(c) == UNION {{s} \X Transcript(s, c) : s \in Sessions}
Replies(c) == {m \in All(c) : messages[m[1]][m[2]].role = "assistant"}
CountInv == \A c \in Cases :
    /\ IsFiniteSet(All(c))
    /\ IsFiniteSet(Replies(c))
    /\ Cardinality(All(c)) = 2 * Cardinality(Replies(c))

RowOK(s) == rows[s] # None => rows[s].turns \in Nat /\ 2 * rows[s].turns <= Len(messages[s])

StoredInv == AuthorInv /\ PairsInv /\ CountInv /\ \A s \in Sessions : RowOK(s)

CInv == Functional /\ (\A r \in Requests : RequestOK(r)) /\ StoredInv

\* The invariant is more than what a reader is promised.
LEMMA InvariantPairs == CInv => TranscriptPaired
<1> SUFFICES ASSUME CInv PROVE TranscriptPaired
  OBVIOUS
<1>1. \A s \in Sessions, c \in Cases, r \in Requests \cup 1 .. Seed : PairedIn(s, c, r)
  BY DEF CInv, StoredInv, PairsInv, Authors
<1>2. ASSUME NEW c \in Cases PROVE Analytics(c).total = 2 * Analytics(c).answers
  <2>1. Analytics(c) = [total |-> Cardinality(All(c)), answers |-> Cardinality(Replies(c))]
    BY DEF Analytics, All, Replies
  <2>2. Cardinality(All(c)) = 2 * Cardinality(Replies(c))
    BY DEF CInv, StoredInv, CountInv
  <2> HIDE DEF All, Replies
  <2> QED BY <2>1, <2>2
<1>3. \A s \in Sessions : rows[s] # None => 2 * rows[s].turns <= Len(messages[s])
  BY DEF CInv, StoredInv, RowOK
<1> QED BY <1>1, <1>2, <1>3 DEF TranscriptPaired, PairedIn
-----------------------------------------------------------------------------
(* Numbers. *)

\* The next number is higher than every number there is.
LEMMA NextNumber ==
    ASSUME NEW t \in Seq(Turn)
    PROVE  /\ NextIndex(t) \in Nat
           /\ \A i \in 1 .. Len(t) : t[i].index < NextIndex(t)
<1>1. CASE t = <<>>
  BY <1>1 DEF NextIndex
<1>2. CASE t # <<>>
  <2> DEFINE v == [i \in 1 .. Len(t) |-> t[i].index]
             S == {m.index : m \in ToSet(t)}
  <2>1. DOMAIN t = 1 .. Len(t) /\ Len(t) \in Nat /\ Len(t) # 0
    BY <1>2, LenProperties, EmptySeq
  <2>2. ASSUME NEW i \in 1 .. Len(t) PROVE t[i].index \in Nat
    <3>1. t[i] \in Turn
      BY ElementOfSeq
    <3> QED BY <3>1 DEF Turn
  <2>3. v \in [1 .. Len(t) -> Nat]
    BY <2>2
  <2>4. PICK i \in 1 .. Len(t) : \A j \in 1 .. Len(t) : v[j] <= v[i]
    <3> HIDE DEF v
    <3> QED BY <2>1, <2>3, Highest
  <2>5. S = {t[j].index : j \in 1 .. Len(t)}
    BY <2>1 DEF ToSet
  <2>6. \A j \in 1 .. Len(t) : v[j] = t[j].index
    OBVIOUS
  <2>7. t[i].index \in S /\ \A y \in S : t[i].index >= y
    BY <2>2, <2>4, <2>5, <2>6
  <2>8. Max(S) \in S /\ \A y \in S : Max(S) >= y
    BY <2>7, Zenon DEF Max
  <2>9. Max(S) \in Nat /\ \A j \in 1 .. Len(t) : t[j].index <= Max(S)
    BY <2>2, <2>5, <2>8
  <2>10. NextIndex(t) = Max(S) + 1
    BY <1>2 DEF NextIndex
  <2> HIDE DEF S
  <2> QED BY <2>2, <2>9, <2>10
<1> QED BY <1>1, <1>2
-----------------------------------------------------------------------------
(* The steps. *)

\* What a step of r that does not commit leaves alone.
Aside(r) ==
    /\ UNCHANGED <<setup, messages, rows>>
    /\ pc[r] # "answered"
    /\ \A q \in Requests \ {r} : /\ pc'[q] = pc[q] /\ ask'[q] = ask[q]
                                 /\ seen'[q] = seen[q] /\ mine'[q] = mine[q]

\* What is stored stays right while nothing is stored.
LEMMA StoredKept ==
    ASSUME StoredInv, messages' = messages, rows' = rows,
           \A q \in Requests : pc[q] = "answered" => pc'[q] = "answered"
    PROVE  StoredInv'
<1>1. AuthorInv'
  BY DEF StoredInv, AuthorInv
<1>2. PairsInv'
  <2>1. \A s, c, role, q : By(s, c, role, q)' = By(s, c, role, q)
    BY DEF By, Transcript
  <2>2. ASSUME NEW s \in Sessions, NEW c \in Cases, NEW q \in Authors PROVE PairedIn(s, c, q)'
    <3>1. PairedIn(s, c, q)
      BY DEF StoredInv, PairsInv
    <3> QED BY <2>1, <3>1 DEF PairedIn
  <2> QED BY <2>2 DEF PairsInv
<1>3. CountInv'
  <2>1. \A c : All(c)' = All(c)
    BY DEF All, Transcript
  <2>2. \A c : Replies(c)' = Replies(c)
    BY <2>1, Zenon DEF Replies
  <2> QED BY <2>1, <2>2 DEF StoredInv, CountInv
<1>4. \A s \in Sessions : RowOK(s)'
  BY DEF StoredInv, RowOK
<1> QED BY <1>1, <1>2, <1>3, <1>4 DEF StoredInv

\* It is enough to show what becomes of the request that takes the step.
LEMMA OthersKept ==
    ASSUME CInv, NEW r \in Requests, Aside(r), Functional', RequestOK(r)'
    PROVE  CInv'
<1>1. ASSUME NEW q \in Requests \ {r} PROVE RequestOK(q)'
  <2>1. RequestOK(q)
    BY DEF CInv
  <2>2. /\ setup' = setup /\ messages' = messages
        /\ pc'[q] = pc[q] /\ ask'[q] = ask[q] /\ seen'[q] = seen[q] /\ mine'[q] = mine[q]
    BY DEF Aside
  <2> QED BY <2>1, <2>2 DEF RequestOK, AskOK, SeenOK, MineOK, SessionOf, NoMessage, Asked,
                            Exchange, Question, Reply, Message
<1>2. messages' = messages /\ rows' = rows /\ StoredInv
  BY DEF Aside, CInv
<1>3. \A q \in Requests : pc[q] = "answered" => pc'[q] = "answered"
  BY DEF Aside
<1>4. StoredInv'
  BY <1>2, <1>3, StoredKept
<1> QED BY <1>1, <1>4 DEF CInv

USE DEF Goto, Running, Ended, Places, Storing

\* A request arrives.
LEMMA AskKeeps == ASSUME CInv, NEW r \in Requests, Ask(r) PROVE CInv'
<1>0. Functional /\ RequestOK(r) /\ pc[r] = "idle"
  BY DEF CInv, Ask
<1>1. PICK w \in Workload, s \in Known \cup {None} :
        LET resumed == s # None /\ s \in ToSet(sessions)
            used == IF resumed THEN s ELSE r
        IN  ask' = [ask EXCEPT ![r] = [case |-> w.case, question |-> w.question,
                                       session |-> used]]
  BY DEF Ask
<1>2. Known \subseteq Sessions
  BY DEF CInv, RequestOK, AskOK, SessionOf, Known, Sessions
<1> DEFINE used == IF s # None /\ s \in ToSet(sessions) THEN s ELSE r
           new == [case |-> w.case, question |-> w.question, session |-> used]
<1>3. used \in Sessions
  BY <1>1, <1>2 DEF Sessions
<1>4. new.session = used /\ new.case \in Cases
  BY WorkloadAssumption
<1> HIDE DEF used
<1>5. ask' = [ask EXCEPT ![r] = new]
  BY <1>1 DEF used
<1> HIDE DEF new
<1>6. ask'[r] = new /\ DOMAIN ask' = Requests
  BY <1>0, <1>5 DEF Functional
<1>7. /\ pc' = [pc EXCEPT ![r] = IF setup.backend = "database" THEN "open" ELSE "window"]
      /\ UNCHANGED <<setup, rows, messages, seen, mine>>
  BY DEF Ask, stored
<1>8. Aside(r) /\ Functional'
  BY <1>0, <1>5, <1>6, <1>7 DEF Aside, Functional
<1>9. messages[used] \in Seq(Turn)
  BY <1>0, <1>3 DEF Functional
<1>10. Len(messages[used]) \in Nat
  BY <1>9, LenProperties
<1>11. pc'[r] \in {"open", "window"} /\ (pc'[r] = "open" => setup.backend # "memory")
  BY <1>0, <1>7 DEF Functional
<1>12. RequestOK(r)'
  BY <1>0, <1>3, <1>4, <1>6, <1>7, <1>10, <1>11
  DEF RequestOK, AskOK, SeenOK, MineOK, SessionOf, NoMessage
<1> QED BY <1>8, <1>12, OthersKept

\* A request is refused, or fails: nothing of it is stored.
LEMMA EndKeeps == ASSUME CInv, NEW r \in Requests, Refuse(r) \/ Fail(r) PROVE CInv'
<1>0. Functional /\ RequestOK(r)
  BY DEF CInv
<1>1. CASE Refuse(r)
  <2>1. /\ pc[r] = "idle" /\ pc' = [pc EXCEPT ![r] = "refused"]
        /\ UNCHANGED <<setup, rows, messages, ask, seen, mine>>
    BY <1>1 DEF Refuse, stored
  <2>2. Aside(r) /\ Functional'
    BY <1>0, <2>1 DEF Aside, Functional
  <2>3. RequestOK(r)'
    BY <1>0, <2>1 DEF RequestOK, AskOK, SeenOK, MineOK, SessionOf, NoMessage, Functional
  <2> QED BY <2>2, <2>3, OthersKept
<1>2. CASE Fail(r)
  <2>1. /\ pc[r] \in Running /\ pc' = [pc EXCEPT ![r] = "failed"]
        /\ ask' = [ask EXCEPT ![r] = [Unasked EXCEPT !.session = SessionOf(r)]]
        /\ seen' = [seen EXCEPT ![r] = Unseen]
        /\ mine' = [mine EXCEPT ![r] = Unwritten]
        /\ UNCHANGED <<setup, rows, messages>>
    BY <1>2 DEF Fail, Forget, stored
  <2>2. Aside(r) /\ Functional'
    BY <1>0, <2>1 DEF Aside, Functional
  <2>3. RequestOK(r)'
    BY <1>0, <2>1 DEF RequestOK, AskOK, SeenOK, MineOK, SessionOf, NoMessage, Functional,
                      Unasked, Unseen, Unwritten
  <2> QED BY <2>2, <2>3, OthersKept
<1> QED BY <1>1, <1>2

\* The row of the session is looked up.
LEMMA OpenRowKeeps == ASSUME CInv, NEW r \in Requests, OpenRow(r) PROVE CInv'
<1>0. Functional /\ RequestOK(r) /\ pc[r] = "open"
      /\ UNCHANGED <<setup, rows, messages, ask, seen, mine>>
  BY DEF CInv, OpenRow, stored
<1>1. PICK p \in {"insert", "window"} :
        pc' = [pc EXCEPT ![r] = p] /\ (p = "insert" => setup.backend # "memory")
  BY <1>0 DEF OpenRow, RequestOK, AskOK
<1>2. Aside(r) /\ Functional'
  BY <1>0, <1>1 DEF Aside, Functional
<1>3. RequestOK(r)'
  BY <1>0, <1>1 DEF RequestOK, AskOK, SeenOK, MineOK, SessionOf, NoMessage, Functional
<1> QED BY <1>2, <1>3, OthersKept

\* The row of a new session is inserted.
LEMMA InsertRowKeeps == ASSUME CInv, NEW r \in Requests, InsertRow(r) PROVE CInv'
<1> DEFINE fresh == [case |-> ask[r].case, turns |-> 0]
<1>0. /\ Functional /\ RequestOK(r) /\ pc[r] = "insert"
      /\ pc' = [pc EXCEPT ![r] = "window"]
      /\ mine' = [mine EXCEPT ![r].row = fresh]
      /\ UNCHANGED <<setup, rows, messages, ask, seen>>
  BY DEF CInv, InsertRow, stored
<1> HIDE DEF fresh
<1>1. Aside(r) /\ Functional'
  BY <1>0 DEF Aside, Functional
<1>2. DOMAIN mine'[r] = DOMAIN mine[r] /\ mine'[r].messages = mine[r].messages
  BY <1>0 DEF Functional, RequestOK, MineOK
<1>3. RequestOK(r)'
  BY <1>0, <1>2 DEF RequestOK, AskOK, SeenOK, MineOK, SessionOf, NoMessage, Functional
<1> QED BY <1>1, <1>3, OthersKept

\* The window, the number of turns and the summary are read.
LEMMA ReadKeeps ==
    ASSUME CInv, NEW r \in Requests, ReadWindow(r) \/ CountTurns(r) \/ Summarise(r)
    PROVE  CInv'
<1>0. Functional /\ RequestOK(r) /\ UNCHANGED <<setup, rows, messages, ask, mine>>
  BY DEF CInv, ReadWindow, CountTurns, Summarise, stored
<1>1. \E p : /\ pc[r] \in Running \ {"answer", "turns", "touch", "commit"}
             /\ pc' = [pc EXCEPT ![r] = p]
             /\ p \in {"count", "summarise", "upsert", "generate"}
             /\ p # "generate" => setup.backend # "memory"
  <2>1. CASE ReadWindow(r)
    BY <2>1 DEF ReadWindow
  <2>2. CASE CountTurns(r)
    BY <1>0, <2>2 DEF CountTurns, RequestOK, AskOK
  <2>3. CASE Summarise(r)
    BY <1>0, <2>3 DEF Summarise, RequestOK, AskOK
  <2> QED BY <2>1, <2>2, <2>3
<1>2. \E v : \/ seen' = [seen EXCEPT ![r].recent = v]
             \/ seen' = [seen EXCEPT ![r].total = v]
             \/ seen' = [seen EXCEPT ![r].summary = v]
  BY DEF ReadWindow, CountTurns, Summarise
<1>3. /\ seen'[r].turns = seen[r].turns /\ DOMAIN seen'[r] = DOMAIN seen[r]
      /\ DOMAIN seen' = Requests /\ \A q \in Requests \ {r} : seen'[q] = seen[q]
  BY <1>0, <1>2 DEF Functional, RequestOK, SeenOK
<1>4. Aside(r) /\ Functional'
  BY <1>0, <1>1, <1>3 DEF Aside, Functional
<1>5. RequestOK(r)'
  BY <1>0, <1>1, <1>3 DEF RequestOK, AskOK, SeenOK, MineOK, SessionOf, NoMessage, Functional
<1> QED BY <1>4, <1>5, OthersKept

\* The summary is written.
LEMMA UpsertKeeps == ASSUME CInv, NEW r \in Requests, Upsert(r) PROVE CInv'
<1>0. /\ Functional /\ RequestOK(r) /\ pc[r] = "upsert"
      /\ pc' = [pc EXCEPT ![r] = "generate"]
      /\ mine' = [mine EXCEPT ![r].summary = seen[r].summary]
      /\ UNCHANGED <<setup, rows, messages, ask, seen>>
  BY DEF CInv, Upsert, stored
<1>1. Aside(r) /\ Functional'
  BY <1>0 DEF Aside, Functional
<1>2. /\ DOMAIN mine'[r] = DOMAIN mine[r] /\ mine'[r].messages = mine[r].messages
      /\ mine'[r].row = mine[r].row
  BY <1>0 DEF Functional, RequestOK, MineOK
<1>3. RequestOK(r)'
  BY <1>0, <1>2 DEF RequestOK, AskOK, SeenOK, MineOK, SessionOf, NoMessage, Functional
<1> QED BY <1>1, <1>3, OthersKept

\* The answer is generated.
LEMMA GenerateKeeps == ASSUME CInv, NEW r \in Requests, Generate(r) PROVE CInv'
<1>0. /\ Functional /\ RequestOK(r) /\ pc[r] = "generate"
      /\ pc' = [pc EXCEPT ![r] = IF setup.backend = "memory" THEN "answer" ELSE "number"]
      /\ UNCHANGED <<setup, rows, messages, ask, seen, mine>>
  BY DEF CInv, Generate, stored
<1>1. Aside(r) /\ Functional'
  BY <1>0 DEF Aside, Functional
<1>2. RequestOK(r)'
  BY <1>0 DEF RequestOK, AskOK, SeenOK, MineOK, SessionOf, NoMessage, Functional
<1> QED BY <1>1, <1>2, OthersKept

\* The process remembers the turn.
LEMMA RememberKeeps == ASSUME CInv, NEW r \in Requests, Remember(r) PROVE CInv'
<1>0. /\ Functional /\ RequestOK(r) /\ pc[r] = "answer" /\ setup.backend = "memory"
      /\ pc' = [pc EXCEPT ![r] = "commit"]
      /\ UNCHANGED <<setup, rows, messages, ask, seen, mine>>
  BY DEF CInv, Remember, stored
<1>1. Aside(r) /\ Functional'
  BY <1>0 DEF Aside, Functional
<1>2. RequestOK(r)'
  BY <1>0 DEF RequestOK, AskOK, SeenOK, MineOK, SessionOf, NoMessage, Functional
<1> QED BY <1>1, <1>2, OthersKept

\* What a request writes is of its case, and by itself.
LEMMA ExchangeTyped ==
    ASSUME NEW r \in Requests, ask[r].case \in Cases, NEW n \in Nat
    PROVE  Question(r, n) \in Turn /\ Reply(r, n) \in Turn
  BY DEF Question, Reply, Message, Turn, Authors

\* The number of the question is read.
LEMMA ReadIndexKeeps == ASSUME CInv, NEW r \in Requests, ReadIndex(r) PROVE CInv'
<1> DEFINE n == NextIndex(Visible(r))
<1>0. /\ Functional /\ RequestOK(r) /\ pc[r] = "number"
      /\ pc' = [pc EXCEPT ![r] = "question"]
      /\ seen' = [seen EXCEPT ![r].index = n]
      /\ UNCHANGED <<setup, rows, messages, ask, mine>>
  BY DEF CInv, ReadIndex, stored
<1>1. messages[SessionOf(r)] \in Seq(Turn) /\ mine[r].messages = <<>>
  BY <1>0 DEF Functional, RequestOK, AskOK, MineOK, NoMessage
<1>2. Visible(r) \in Seq(Turn)
  BY <1>1, ConcatEmptySeq DEF Visible
<1>3. n \in Nat
  BY <1>2, NextNumber
<1> HIDE DEF n
<1>4. Aside(r) /\ Functional'
  BY <1>0 DEF Aside, Functional
<1>5. /\ DOMAIN seen'[r] = DOMAIN seen[r]
      /\ seen'[r].index = n /\ seen'[r].turns = seen[r].turns
  BY <1>0 DEF Functional, RequestOK, SeenOK
<1>6. RequestOK(r)'
  BY <1>0, <1>3, <1>5
  DEF RequestOK, AskOK, SeenOK, MineOK, SessionOf, NoMessage, Functional
<1> QED BY <1>4, <1>6, OthersKept

\* The question is inserted.
LEMMA AppendQuestionKeeps == ASSUME CInv, NEW r \in Requests, AppendQuestion(r) PROVE CInv'
<1> DEFINE written == Append(mine[r].messages, Question(r, seen[r].index))
<1>0. /\ Functional /\ RequestOK(r) /\ pc[r] = "question"
      /\ pc' = [pc EXCEPT ![r] = "answer"]
      /\ UNCHANGED <<setup, rows, messages, ask, seen>>
  BY DEF CInv, AppendQuestion, stored
<1>1. mine' = [mine EXCEPT ![r].messages = written]
  BY <1>0 DEF AppendQuestion, Question, Functional, RequestOK, MineOK
<1>2. seen[r].index \in Nat /\ mine[r].messages = <<>> /\ setup.backend # "memory"
  BY <1>0 DEF RequestOK, AskOK, SeenOK, MineOK, NoMessage
<1>3. written = <<Question(r, seen[r].index)>>
  BY <1>2
<1> HIDE DEF written
<1>4. Aside(r) /\ Functional'
  BY <1>0, <1>1 DEF Aside, Functional
<1>5. /\ DOMAIN mine'[r] = DOMAIN mine[r]
      /\ mine'[r].messages = <<Question(r, seen[r].index)>> /\ mine'[r].row = mine[r].row
  BY <1>0, <1>1, <1>3 DEF Functional, RequestOK, MineOK
<1>6. Asked(r)'
  BY <1>0, <1>2, <1>5 DEF Asked, Question
<1>7. RequestOK(r)'
  BY <1>0, <1>2, <1>5, <1>6
  DEF RequestOK, AskOK, SeenOK, MineOK, SessionOf, NoMessage, Functional
<1> QED BY <1>4, <1>7, OthersKept

\* The answer is inserted, with a number above all that are visible.
LEMMA AppendAnswerKeeps == ASSUME CInv, NEW r \in Requests, AppendAnswer(r) PROVE CInv'
<1> DEFINE k == NextIndex(Visible(r))
           written == Append(mine[r].messages, Reply(r, k))
<1>0. /\ Functional /\ RequestOK(r) /\ pc[r] = "answer" /\ setup.backend = "database"
      /\ pc' = [pc EXCEPT ![r] = "turns"]
      /\ UNCHANGED <<setup, rows, messages, ask, seen>>
  BY DEF CInv, AppendAnswer, stored
<1>1. mine' = [mine EXCEPT ![r].messages = written]
  BY <1>0 DEF AppendAnswer, Reply, Functional, RequestOK, MineOK
<1>2. PICK n \in Nat : mine[r].messages = <<Question(r, n)>>
  BY <1>0 DEF RequestOK, MineOK, Asked
<1> DEFINE t == messages[SessionOf(r)]
           q == Question(r, n)
<1>3. t \in Seq(Turn) /\ q \in Turn
  BY <1>0, ExchangeTyped DEF Functional, RequestOK, AskOK
<1>4. Visible(r) = t \o <<q>>
  BY <1>2 DEF Visible
<1>5. q.index = n
  BY DEF Question, Message
<1> HIDE DEF t, q
<1>6. /\ t \o <<q>> \in Seq(Turn) /\ Len(t) + 1 \in 1 .. Len(t \o <<q>>)
      /\ (t \o <<q>>)[Len(t) + 1] = q
  <2>1. <<q>> \in Seq(Turn) /\ Len(<<q>>) = 1 /\ <<q>>[1] = q
    BY <1>3
  <2>2. Len(t) \in Nat
    BY <1>3, LenProperties
  <2> QED BY <1>3, <2>1, <2>2, ConcatProperties
<1>7. k \in Nat /\ n < k
  BY <1>4, <1>5, <1>6, NextNumber
<1> HIDE DEF k
<1>8. written = <<Question(r, n), Reply(r, k)>>
  <2>1. ASSUME NEW x \in Turn, NEW y \in Turn PROVE Append(<<x>>, y) = <<x, y>>
    <3>1. /\ <<x>> \in Seq(Turn) /\ Len(<<x>>) = 1 /\ <<x>>[1] = x
          /\ <<x, y>> \in Seq(Turn) /\ Len(<<x, y>>) = 2
          /\ <<x, y>>[1] = x /\ <<x, y>>[2] = y
      OBVIOUS
    <3>2. /\ Append(<<x>>, y) \in Seq(Turn) /\ Len(Append(<<x>>, y)) = 2
          /\ Append(<<x>>, y)[1] = x /\ Append(<<x>>, y)[2] = y
      BY <3>1, AppendProperties
    <3>3. \A i \in 1 .. 2 : i = 1 \/ i = 2
      OBVIOUS
    <3> QED BY <3>1, <3>2, <3>3, SeqEqual
  <2>2. Question(r, n) \in Turn /\ Reply(r, k) \in Turn
    BY <1>0, <1>7, ExchangeTyped DEF RequestOK, AskOK
  <2> QED BY <1>2, <2>1, <2>2
<1> HIDE DEF written
<1>9. Aside(r) /\ Functional'
  BY <1>0, <1>1 DEF Aside, Functional
<1>10. /\ DOMAIN mine'[r] = DOMAIN mine[r]
       /\ mine'[r].messages = <<Question(r, n), Reply(r, k)>> /\ mine'[r].row = mine[r].row
  BY <1>0, <1>1, <1>8 DEF Functional, RequestOK, MineOK
<1>11. Exchange(r)'
  BY <1>0, <1>7, <1>10 DEF Exchange, Question, Reply
<1>12. RequestOK(r)'
  BY <1>0, <1>10, <1>11
  DEF RequestOK, AskOK, SeenOK, MineOK, SessionOf, NoMessage, Functional
<1> QED BY <1>9, <1>12, OthersKept

\* What the row counts is read again.
LEMMA ReadTurnsKeeps == ASSUME CInv, NEW r \in Requests, ReadTurns(r) PROVE CInv'
<1> DEFINE n == IF rows[SessionOf(r)] = None THEN 0 ELSE rows[SessionOf(r)].turns
<1>0. /\ Functional /\ RequestOK(r) /\ pc[r] = "turns"
      /\ pc' = [pc EXCEPT ![r] = "touch"]
      /\ seen' = [seen EXCEPT ![r].turns = n]
      /\ UNCHANGED <<setup, rows, messages, ask, mine>>
  BY DEF CInv, ReadTurns, stored
<1>1. SessionOf(r) \in Sessions /\ RowOK(SessionOf(r)) /\ setup.backend # "memory"
  BY <1>0 DEF CInv, StoredInv, RequestOK, AskOK
<1>2. n \in Nat /\ 2 * n <= Len(messages[SessionOf(r)])
  <2>1. messages[SessionOf(r)] \in Seq(Turn)
    BY <1>0, <1>1 DEF Functional
  <2>2. Len(messages[SessionOf(r)]) \in Nat
    BY <2>1, LenProperties
  <2> QED BY <1>1, <2>2 DEF RowOK
<1> HIDE DEF n
<1>3. Aside(r) /\ Functional'
  BY <1>0 DEF Aside, Functional
<1>4. seen'[r].turns = n /\ DOMAIN seen'[r] = DOMAIN seen[r]
  BY <1>0 DEF Functional, RequestOK, SeenOK
<1>5. Exchange(r) /\ Exchange(r)'
  BY <1>0, <1>1 DEF RequestOK, MineOK, Exchange, Question, Reply
<1>6. RequestOK(r)'
  BY <1>0, <1>1, <1>2, <1>4, <1>5
  DEF RequestOK, AskOK, SeenOK, MineOK, SessionOf, NoMessage, Functional
<1> QED BY <1>3, <1>6, OthersKept

\* The turn is counted.
LEMMA TouchKeeps == ASSUME CInv, NEW r \in Requests, Touch(r) PROVE CInv'
<1> DEFINE touched == [case |-> IF rows[SessionOf(r)] = None THEN ask[r].case
                                ELSE rows[SessionOf(r)].case,
                       turns |-> seen[r].turns + 1]
<1>0. /\ Functional /\ RequestOK(r) /\ pc[r] = "touch"
      /\ pc' = [pc EXCEPT ![r] = "commit"]
      /\ mine' = [mine EXCEPT ![r].row = touched]
      /\ UNCHANGED <<setup, rows, messages, ask, seen>>
  BY DEF CInv, Touch, stored
<1>1. touched.turns = seen[r].turns + 1
  OBVIOUS
<1> HIDE DEF touched
<1>2. Aside(r) /\ Functional'
  BY <1>0 DEF Aside, Functional
<1>3. /\ DOMAIN mine'[r] = DOMAIN mine[r] /\ mine'[r].messages = mine[r].messages
      /\ mine'[r].row = touched
  BY <1>0 DEF Functional, RequestOK, MineOK
<1>4. setup.backend # "memory" /\ Exchange(r)
  BY <1>0 DEF RequestOK, AskOK, MineOK
<1>5. Exchange(r)'
  BY <1>0, <1>3, <1>4 DEF Exchange, Question, Reply
<1>6. RequestOK(r)'
  BY <1>0, <1>1, <1>3, <1>4, <1>5
  DEF RequestOK, AskOK, SeenOK, MineOK, SessionOf, NoMessage, Functional
<1> QED BY <1>2, <1>6, OthersKept
-----------------------------------------------------------------------------
(* Commit. *)

\* What is known of a request that commits: it leaves its session as it is, or
\* adds a question and an answer behind everything that is there.
LEMMA CommitShape ==
    ASSUME CInv, NEW r \in Requests, Commit(r), NEW s, s = SessionOf(r)
    PROVE  /\ s \in Sessions /\ ask[r].case \in Cases
           /\ \/ messages' = messages /\ rows' = rows
              \/ \E n, k \in Nat :
                   /\ n < k
                   /\ messages' = [messages EXCEPT ![s] =
                                      @ \o <<Question(r, n), Reply(r, k)>>]
                   /\ \/ rows' = rows
                      \/ \E row : /\ rows' = [rows EXCEPT ![s] = row]
                                  /\ row.turns = seen[r].turns + 1
<1>0. Functional /\ RequestOK(r) /\ pc[r] = "commit"
  BY DEF CInv, Commit
<1>1. s \in Sessions /\ ask[r].case \in Cases /\ messages[s] \in Seq(Turn)
  BY <1>0 DEF Functional, RequestOK, AskOK
<1>2. /\ messages' = [messages EXCEPT ![s] = @ \o mine[r].messages]
      /\ rows' = [rows EXCEPT ![s] = IF mine[r].row = None THEN @ ELSE mine[r].row]
  BY DEF Commit
<1>3. mine[r].row = None => rows' = rows
  BY <1>0, <1>1, <1>2 DEF Functional
<1>4. CASE setup.backend = "memory"
  <2>1. mine[r].messages = <<>> /\ mine[r].row = None
    BY <1>0, <1>4 DEF RequestOK, MineOK, NoMessage
  <2>2. messages[s] \o <<>> = messages[s]
    BY <1>1, ConcatEmptySeq
  <2>3. messages' = [messages EXCEPT ![s] = messages[s]]
    BY <1>2, <2>1, <2>2
  <2>4. messages' = messages
    BY <1>0, <1>1, <2>3 DEF Functional
  <2> QED BY <1>1, <1>3, <2>1, <2>4
<1>5. CASE setup.backend # "memory"
  <2>1. PICK n, k \in Nat : n < k /\ mine[r].messages = <<Question(r, n), Reply(r, k)>>
    BY <1>0, <1>5 DEF RequestOK, MineOK, Exchange
  <2>2. mine[r].row = None \/ mine[r].row.turns = seen[r].turns + 1
    BY <1>0, <1>5 DEF RequestOK, MineOK
  <2>3. messages' = [messages EXCEPT ![s] = @ \o <<Question(r, n), Reply(r, k)>>]
    BY <1>2, <2>1
  <2>4. \/ rows' = rows
        \/ \E row : rows' = [rows EXCEPT ![s] = row] /\ row.turns = seen[r].turns + 1
    BY <1>2, <1>3, <2>2
  <2> QED BY <1>1, <2>1, <2>3, <2>4
<1> QED BY <1>4, <1>5

\* Two more messages at the end of a session.
LEMMA TwoMore ==
    ASSUME NEW t \in Seq(Turn), NEW x \in Turn, NEW y \in Turn
    PROVE  LET w == t \o <<x, y>>
           IN  /\ w \in Seq(Turn)
               /\ Len(t) \in Nat /\ Len(w) = Len(t) + 2
               /\ DOMAIN t = 1 .. Len(t) /\ DOMAIN w = 1 .. Len(t) + 2
               /\ \A i \in 1 .. Len(t) : w[i] = t[i]
               /\ w[Len(t) + 1] = x /\ w[Len(t) + 2] = y
<1>1. /\ <<x, y>> \in Seq(Turn) /\ Len(<<x, y>>) = 2
      /\ <<x, y>>[1] = x /\ <<x, y>>[2] = y
  OBVIOUS
<1>2. Len(t) \in Nat /\ DOMAIN t = 1 .. Len(t)
  BY LenProperties
<1> DEFINE w == t \o <<x, y>>
<1>3. /\ w \in Seq(Turn) /\ Len(w) = Len(t) + 2
      /\ \A i \in 1 .. Len(t) + 2 : w[i] = IF i <= Len(t) THEN t[i] ELSE <<x, y>>[i - Len(t)]
  BY <1>1, ConcatProperties
<1>4. DOMAIN w = 1 .. Len(t) + 2
  BY <1>3, LenProperties
<1> HIDE DEF w
<1>5. /\ \A i \in 1 .. Len(t) : w[i] = t[i]
      /\ w[Len(t) + 1] = x /\ w[Len(t) + 2] = y
  BY <1>1, <1>2, <1>3
<1> QED BY <1>2, <1>3, <1>4, <1>5 DEF w

\* The pairs of a session stay pairs when the exchange of a request that had no
\* message there is added.
LEMMA PairAdded ==
    ASSUME CInv, NEW r \in Requests, NEW s \in Sessions, pc[r] # "answered",
           ask[r].case \in Cases, NEW n \in Nat, NEW k \in Nat, n < k,
           messages' = [messages EXCEPT ![s] = @ \o <<Question(r, n), Reply(r, k)>>]
    PROVE  PairsInv'
<1> DEFINE t == messages[s]
           x == Question(r, n)
           y == Reply(r, k)
           w == t \o <<x, y>>
<1>0. messages \in [Sessions -> Seq(Turn)] /\ x \in Turn /\ y \in Turn /\ t \in Seq(Turn)
  BY ExchangeTyped DEF CInv, Functional
<1>1. messages'[s] = w /\ \A z \in Sessions \ {s} : messages'[z] = messages[z]
  BY <1>0
<1>2. /\ Len(t) \in Nat /\ DOMAIN t = 1 .. Len(t) /\ DOMAIN w = 1 .. Len(t) + 2
      /\ \A i \in 1 .. Len(t) : w[i] = t[i]
      /\ w[Len(t) + 1] = x /\ w[Len(t) + 2] = y
  BY <1>0, TwoMore
<1>3. /\ x.case = ask[r].case /\ x.role = "user" /\ x.by = r /\ x.index = n
      /\ y.case = ask[r].case /\ y.role = "assistant" /\ y.by = r /\ y.index = k
  BY DEF Question, Reply, Message
<1>4. \A i \in DOMAIN t : t[i].by # r
  BY DEF CInv, StoredInv, AuthorInv
<1> HIDE DEF w, x, y
<1>5. ASSUME NEW z \in Sessions, NEW c \in Cases, NEW a \in Authors PROVE PairedIn(z, c, a)'
  <2>0. PairedIn(z, c, a)
    BY DEF CInv, StoredInv, PairsInv
  <2>1. CASE z # s
    BY <1>1, <2>0, <2>1 DEF PairedIn, By, Transcript
  <2>2. CASE z = s /\ (c # ask[r].case \/ a # r)
    <3>1. \A role : By(s, c, role, a)' = By(s, c, role, a)
      <4>1. \A i \in DOMAIN w : i \in DOMAIN t \/ i = Len(t) + 1 \/ i = Len(t) + 2
        BY <1>2
      <4>2. \A i \in DOMAIN t : i \in DOMAIN w
        BY <1>2
      <4>3. \A i \in DOMAIN w : i \in DOMAIN t \/ w[i].case # c \/ w[i].by # a
        BY <1>2, <1>3, <2>2, <4>1
      <4>4. \A i \in DOMAIN t : w[i] = t[i]
        BY <1>2
      <4> HIDE DEF t
      <4>5. \A role : {i \in DOMAIN w : w[i].case = c /\ w[i].role = role /\ w[i].by = a}
                       = {i \in DOMAIN t : t[i].case = c /\ t[i].role = role /\ t[i].by = a}
        BY <4>2, <4>3, <4>4
      <4>6. \A role : By(s, c, role, a)
                       = {i \in DOMAIN t : t[i].case = c /\ t[i].role = role /\ t[i].by = a}
        BY DEF t, By, Transcript
      <4>7. \A role : By(s, c, role, a)'
                       = {i \in DOMAIN w : w[i].case = c /\ w[i].role = role /\ w[i].by = a}
        BY <1>1 DEF By, Transcript
      <4> QED BY <4>5, <4>6, <4>7
    <3>2. \A i \in DOMAIN t : messages'[s][i] = t[i]
      BY <1>1, <1>2
    <3>3. \A role : By(s, c, role, a) \subseteq DOMAIN t
      BY DEF By, Transcript
    <3> QED BY <2>0, <2>2, <3>1, <3>2, <3>3 DEF PairedIn
  <2>3. CASE z = s /\ c = ask[r].case /\ a = r
    <3>1. By(s, c, "user", r)' = {Len(t) + 1}
      BY <1>1, <1>2, <1>3, <1>4, <2>3 DEF By, Transcript
    <3>2. By(s, c, "assistant", r)' = {Len(t) + 2}
      BY <1>1, <1>2, <1>3, <1>4, <2>3 DEF By, Transcript
    <3>3. messages'[s][Len(t) + 1].index = n /\ messages'[s][Len(t) + 2].index = k
      BY <1>1, <1>2, <1>3
    <3>4. Cardinality({Len(t) + 1}) = 1 /\ Cardinality({Len(t) + 2}) = 1
      BY FS_Singleton
    <3>5. /\ Cardinality(By(s, c, "user", r)') = Cardinality(By(s, c, "assistant", r)')
          /\ Cardinality(By(s, c, "assistant", r)') <= 1
      <4>1. /\ Cardinality(By(s, c, "user", r)') = 1
            /\ Cardinality(By(s, c, "assistant", r)') = 1
        BY <3>1, <3>2, <3>4, Zenon
      <4> QED BY <4>1
    <3>6. \A i \in By(s, c, "user", r)', j \in By(s, c, "assistant", r)' :
             messages'[s][i].index < messages'[s][j].index
      BY <3>1, <3>2, <3>3
    <3>7. PairedIn(s, c, r)'
      BY <3>5, <3>6, Zenon DEF PairedIn
    <3> QED BY <2>3, <3>7
  <2> QED BY <2>1, <2>2, <2>3
<1> QED BY <1>5 DEF PairsInv

\* An exchange adds two messages of its case, one of them an answer.
LEMMA ExchangeCounted ==
    ASSUME CInv, NEW r \in Requests, NEW s \in Sessions, ask[r].case \in Cases,
           NEW n \in Nat, NEW k \in Nat,
           messages' = [messages EXCEPT ![s] = @ \o <<Question(r, n), Reply(r, k)>>]
    PROVE  CountInv'
<1> DEFINE t == messages[s]
           x == Question(r, n)
           y == Reply(r, k)
           w == t \o <<x, y>>
<1>0. messages \in [Sessions -> Seq(Turn)] /\ x \in Turn /\ y \in Turn /\ t \in Seq(Turn)
  BY ExchangeTyped DEF CInv, Functional
<1>1. messages'[s] = w /\ \A z \in Sessions \ {s} : messages'[z] = messages[z]
  BY <1>0
<1>2. /\ Len(t) \in Nat /\ DOMAIN t = 1 .. Len(t) /\ DOMAIN w = 1 .. Len(t) + 2
      /\ \A i \in 1 .. Len(t) : w[i] = t[i]
      /\ w[Len(t) + 1] = x /\ w[Len(t) + 2] = y
  BY <1>0, TwoMore
<1>3. /\ x.case = ask[r].case /\ x.role = "user"
      /\ y.case = ask[r].case /\ y.role = "assistant"
  BY DEF Question, Reply, Message
<1> DEFINE asked == <<s, Len(t) + 1>>
           replied == <<s, Len(t) + 2>>
<1> HIDE DEF w, x, y
<1>4. ASSUME NEW c \in Cases
      PROVE  /\ IsFiniteSet(All(c)') /\ IsFiniteSet(Replies(c)')
             /\ Cardinality(All(c)') = 2 * Cardinality(Replies(c)')
  <2>0. /\ IsFiniteSet(All(c)) /\ IsFiniteSet(Replies(c))
        /\ Cardinality(All(c)) = 2 * Cardinality(Replies(c))
    BY DEF CInv, StoredInv, CountInv
  <2>1. \A z \in Sessions : Transcript(z, c)' =
          Transcript(z, c) \cup (IF z = s /\ c = ask[r].case
                                 THEN {Len(t) + 1, Len(t) + 2} ELSE {})
    <3> TAKE z \in Sessions
    <3>1. CASE z # s
      BY <1>1, <3>1 DEF Transcript
    <3>2. CASE z = s
      BY <1>1, <1>2, <1>3, <3>2 DEF Transcript
    <3> QED BY <3>1, <3>2
  <2>2. \A m : m \in All(c) => /\ m = <<m[1], m[2]>> /\ m[1] \in Sessions
                               /\ m[2] \in DOMAIN messages[m[1]]
    BY DEF All, Transcript
  <2>3. \A m \in All(c) : messages'[m[1]][m[2]] = messages[m[1]][m[2]]
    <3> TAKE m \in All(c)
    <3>1. CASE m[1] = s
      BY <1>1, <1>2, <2>2, <3>1
    <3>2. CASE m[1] # s
      BY <1>1, <2>2, <3>2
    <3> QED BY <3>1, <3>2
  <2>4. CASE c # ask[r].case
    <3>1. All(c)' = All(c)
      BY <2>1, <2>4 DEF All
    <3>2. Replies(c)' = Replies(c)
      <4> HIDE DEF t, asked, replied
      <4> QED BY <2>3, <3>1 DEF Replies
    <3> QED BY <2>0, <3>1, <3>2
  <2>5. CASE c = ask[r].case
    <3>1. All(c)' = (All(c) \cup {asked}) \cup {replied}
      BY <2>1, <2>5 DEF All
    <3>2. /\ messages'[asked[1]][asked[2]].role = "user"
          /\ messages'[replied[1]][replied[2]].role = "assistant"
      BY <1>1, <1>2, <1>3
    <3>3. asked \notin All(c) /\ replied \notin All(c) /\ asked # replied
      BY <1>2, <2>2
    <3> HIDE DEF asked, replied, t
    <3>4. Replies(c)' = Replies(c) \cup {replied}
      BY <2>3, <3>1, <3>2 DEF Replies
    <3>5. replied \notin All(c) \cup {asked} /\ replied \notin Replies(c)
      BY <3>3 DEF Replies
    <3>6. /\ IsFiniteSet(All(c)') /\ Cardinality(All(c)') = Cardinality(All(c)) + 1 + 1
      <4>1. /\ IsFiniteSet(All(c) \cup {asked})
            /\ Cardinality(All(c) \cup {asked}) = Cardinality(All(c)) + 1
        BY <2>0, <3>3, FS_AddElement
      <4> QED BY <3>1, <3>5, <4>1, FS_AddElement
    <3>7. /\ IsFiniteSet(Replies(c)')
          /\ Cardinality(Replies(c)') = Cardinality(Replies(c)) + 1
      BY <2>0, <3>4, <3>5, FS_AddElement
    <3>8. Cardinality(Replies(c)) \in Nat
      BY <2>0, FS_CardinalityType
    <3> QED BY <2>0, <3>6, <3>7, <3>8
  <2> QED BY <2>4, <2>5
<1> QED BY <1>4 DEF CountInv

\* A request commits.
LEMMA CommitKeeps == ASSUME CInv, NEW r \in Requests, Commit(r) PROVE CInv'
<1> PICK s : s = SessionOf(r)
  OBVIOUS
<1>0. /\ Functional /\ RequestOK(r) /\ pc[r] = "commit"
      /\ pc' = [pc EXCEPT ![r] = "answered"]
      /\ ask' = [ask EXCEPT ![r] = [Unasked EXCEPT !.session = SessionOf(r)]]
      /\ seen' = [seen EXCEPT ![r] = Unseen]
      /\ mine' = [mine EXCEPT ![r] = Unwritten]
      /\ setup' = setup
  BY DEF CInv, Commit, Forget
<1>1. s \in Sessions /\ ask[r].case \in Cases
  BY CommitShape
<1>2. /\ RequestOK(r)
      /\ seen[r].turns \in Nat /\ 2 * seen[r].turns <= Len(messages[s])
  BY <1>0 DEF RequestOK, SeenOK
<1>3. pc'[r] = "answered" /\ \A q \in Requests \ {r} : pc'[q] = pc[q]
  BY <1>0 DEF Functional
<1>4. ASSUME UNCHANGED <<messages, rows>> PROVE StoredInv' /\ messages' \in [Sessions -> Seq(Turn)]
  <2>1. \A q \in Requests : pc[q] = "answered" => pc'[q] = "answered"
    BY <1>3
  <2> QED BY <1>0, <1>4, <2>1, StoredKept DEF CInv, Functional
<1>5. ASSUME NEW n \in Nat, NEW k \in Nat, n < k,
             messages' = [messages EXCEPT ![s] = @ \o <<Question(r, n), Reply(r, k)>>]
      PROVE  /\ AuthorInv' /\ PairsInv' /\ CountInv'
             /\ messages' \in [Sessions -> Seq(Turn)]
             /\ \A z \in Sessions : Len(messages[z]) \in Nat /\ Len(messages'[z]) \in Nat
                                    /\ Len(messages[z]) <= Len(messages'[z])
             /\ Len(messages'[s]) = Len(messages[s]) + 2
  <2> DEFINE t == messages[s]
             x == Question(r, n)
             y == Reply(r, k)
             w == t \o <<x, y>>
  <2>0. messages \in [Sessions -> Seq(Turn)] /\ x \in Turn /\ y \in Turn /\ t \in Seq(Turn)
    BY <1>0, <1>1, ExchangeTyped DEF Functional
  <2>1. messages'[s] = w /\ \A z \in Sessions \ {s} : messages'[z] = messages[z]
    BY <1>1, <1>5, <2>0
  <2>2. /\ w \in Seq(Turn) /\ Len(w) = Len(t) + 2
        /\ Len(t) \in Nat /\ DOMAIN t = 1 .. Len(t) /\ DOMAIN w = 1 .. Len(t) + 2
        /\ \A i \in 1 .. Len(t) : w[i] = t[i]
        /\ w[Len(t) + 1] = x /\ w[Len(t) + 2] = y
    BY <2>0, TwoMore
  <2>3. x.by = r /\ y.by = r
    BY DEF Question, Reply, Message
  <2> HIDE DEF w, x, y
  <2>4. messages' \in [Sessions -> Seq(Turn)]
    BY <1>1, <1>5, <2>0, <2>1, <2>2 DEF w, x, y
  <2>5. AuthorInv'
    <3>1. \A i \in DOMAIN w : w[i].by = r \/ (i \in DOMAIN t /\ w[i] = t[i])
      BY <2>2, <2>3
    <3>2. \A q \in Requests : pc[q] = "answered" => pc'[q] = "answered"
      BY <1>3
    <3>3. \A i \in DOMAIN t : t[i].by \in Requests => pc[t[i].by] = "answered"
      BY <1>1 DEF CInv, StoredInv, AuthorInv
    <3>4. \A i \in DOMAIN w : w[i].by \in Requests => pc'[w[i].by] = "answered"
      BY <1>3, <3>1, <3>2, <3>3
    <3> HIDE DEF t
    <3>5. ASSUME NEW z \in Sessions \ {s}, NEW i \in DOMAIN messages'[z],
                 messages'[z][i].by \in Requests
          PROVE  pc'[messages'[z][i].by] = "answered"
      BY <2>1, <3>2, <3>5 DEF CInv, StoredInv, AuthorInv
    <3> QED BY <2>1, <3>4, <3>5 DEF AuthorInv
  <2>6. PairsInv'
    BY <1>0, <1>1, <1>5, PairAdded
  <2>7. CountInv'
    BY <1>1, <1>5, ExchangeCounted
  <2>8. \A z \in Sessions : Len(messages[z]) \in Nat
    <3> TAKE z \in Sessions
    <3>1. messages[z] \in Seq(Turn)
      BY <2>0
    <3> QED BY <3>1, LenProperties
  <2> QED BY <1>1, <2>1, <2>2, <2>4, <2>5, <2>6, <2>7, <2>8
<1>6. ASSUME NEW n \in Nat, NEW k \in Nat, n < k,
             messages' = [messages EXCEPT ![s] = @ \o <<Question(r, n), Reply(r, k)>>],
             \/ rows' = rows
             \/ \E row : rows' = [rows EXCEPT ![s] = row] /\ row.turns = seen[r].turns + 1
      PROVE  /\ \A z \in Sessions : RowOK(z)'
             /\ rows' = [z \in Sessions |-> rows'[z]]
  <2>1. /\ \A z \in Sessions : Len(messages[z]) \in Nat /\ Len(messages'[z]) \in Nat
                               /\ Len(messages[z]) <= Len(messages'[z])
        /\ Len(messages'[s]) = Len(messages[s]) + 2
    BY <1>5, <1>6
  <2>2. rows = [z \in Sessions |-> rows[z]] /\ \A z \in Sessions : RowOK(z)
    BY DEF CInv, Functional, StoredInv
  <2>3. rows' = [z \in Sessions |-> rows'[z]]
    BY <1>6, <2>2
  <2>4. ASSUME NEW z \in Sessions, rows'[z] = rows[z] PROVE RowOK(z)'
    BY <2>1, <2>2, <2>4 DEF RowOK
  <2>5. CASE rows' = rows
    BY <2>3, <2>4, <2>5
  <2>6. CASE \E row : rows' = [rows EXCEPT ![s] = row] /\ row.turns = seen[r].turns + 1
    <3>1. PICK row : rows' = [rows EXCEPT ![s] = row] /\ row.turns = seen[r].turns + 1
      BY <2>6
    <3>2. rows'[s] = row /\ \A z \in Sessions \ {s} : rows'[z] = rows[z]
      BY <1>1, <2>2, <3>1
    <3>3. row.turns \in Nat /\ 2 * row.turns <= Len(messages'[s])
      BY <1>1, <1>2, <2>1, <3>1
    <3>4. RowOK(s)'
      BY <3>2, <3>3 DEF RowOK
    <3> QED BY <2>3, <2>4, <3>2, <3>4
  <2> QED BY <1>6, <2>5, <2>6
<1>7. /\ StoredInv' /\ messages' \in [Sessions -> Seq(Turn)]
      /\ rows' = [z \in Sessions |-> rows'[z]]
      /\ \A z \in Sessions : Len(messages[z]) \in Nat /\ Len(messages'[z]) \in Nat
                             /\ Len(messages[z]) <= Len(messages'[z])
  <2>1. CASE UNCHANGED <<messages, rows>>
    <3>1. ASSUME NEW z \in Sessions PROVE Len(messages[z]) \in Nat
      <4>1. messages[z] \in Seq(Turn)
        BY <1>0 DEF Functional
      <4> QED BY <4>1, LenProperties
    <3> QED BY <1>0, <1>4, <2>1, <3>1 DEF Functional
  <2>2. CASE \E n, k \in Nat :
               /\ n < k
               /\ messages' = [messages EXCEPT ![s] = @ \o <<Question(r, n), Reply(r, k)>>]
               /\ \/ rows' = rows
                  \/ \E row : /\ rows' = [rows EXCEPT ![s] = row]
                              /\ row.turns = seen[r].turns + 1
    BY <1>5, <1>6, <2>2 DEF StoredInv
  <2> QED BY <2>1, <2>2, CommitShape
<1>8. Functional'
  BY <1>0, <1>7 DEF Functional
<1>9. ASSUME NEW q \in Requests \ {r} PROVE RequestOK(q)'
  <2>1. RequestOK(q)
    BY DEF CInv
  <2>2. /\ setup' = setup /\ pc'[q] = pc[q] /\ ask'[q] = ask[q]
        /\ seen'[q] = seen[q] /\ mine'[q] = mine[q]
    BY <1>0 DEF Functional
  <2>3. AskOK(q)' /\ MineOK(q)'
    BY <2>1, <2>2 DEF RequestOK, AskOK, MineOK, SessionOf, NoMessage, Asked, Exchange,
                      Question, Reply, Message
  <2>4. SeenOK(q)'
    BY <1>7, <2>1, <2>2 DEF RequestOK, AskOK, SeenOK, SessionOf
  <2> QED BY <2>3, <2>4 DEF RequestOK
<1>10. RequestOK(r)'
  BY <1>0, <1>1 DEF RequestOK, AskOK, SeenOK, MineOK, SessionOf, NoMessage, Functional,
                    Unasked, Unseen, Unwritten
<1> QED BY <1>7, <1>8, <1>9, <1>10 DEF CInv
-----------------------------------------------------------------------------
(* The chat there is at the start. *)

\* The exchanges of the chat are numbered through, questions first.
LEMMA SeedTurns ==
    /\ SeedMessages \in Seq(Turn) /\ Len(SeedMessages) = 2 * Seed
    /\ DOMAIN SeedMessages = 1 .. 2 * Seed
    /\ \A i \in 1 .. 2 * Seed :
          /\ SeedMessages[i].index = i - 1
          /\ SeedMessages[i].case = "c1"
          /\ SeedMessages[i].role = IF i % 2 = 1 THEN "user" ELSE "assistant"
          /\ SeedMessages[i].by = (i + 1) \div 2
          /\ SeedMessages[i].by \in 1 .. Seed
<1>1. ASSUME NEW i \in 1 .. 2 * Seed
      PROVE  i - 1 \in Nat /\ (i + 1) \div 2 \in 1 .. Seed
  BY SeedAssumption
<1>2. ASSUME NEW i \in 1 .. 2 * Seed
      PROVE  Message(i - 1, "c1", IF i % 2 = 1 THEN "user" ELSE "assistant", (i + 1) \div 2)
                \in Turn
  BY <1>1, <1>2, SeedAssumption DEF Message, Turn, Authors
<1>3. 2 * Seed \in Nat
  BY SeedAssumption
<1>4. /\ SeedMessages \in Seq(Turn) /\ Len(SeedMessages) = 2 * Seed
      /\ DOMAIN SeedMessages = 1 .. 2 * Seed
  BY <1>2, <1>3 DEF SeedMessages
<1> QED BY <1>1, <1>4 DEF SeedMessages, Message

\* Its places count as many as there are, and half of them are answers.
LEMMA SeedCounted ==
    LET all == {<<"seed", i>> : i \in 1 .. 2 * Seed}
        replies == {<<"seed", 2 * i>> : i \in 1 .. Seed}
    IN  /\ IsFiniteSet(all) /\ Cardinality(all) = 2 * Seed
        /\ IsFiniteSet(replies) /\ Cardinality(replies) = Seed
<1> DEFINE all == {<<"seed", i>> : i \in 1 .. 2 * Seed}
           replies == {<<"seed", 2 * i>> : i \in 1 .. Seed}
           f == [i \in 1 .. 2 * Seed |-> <<"seed", i>>]
           g == [i \in 1 .. Seed |-> <<"seed", 2 * i>>]
<1>0. Seed \in Nat /\ 2 * Seed \in Nat
  BY SeedAssumption
<1>1. f \in Bijection(1 .. 2 * Seed, all)
  BY DEF Bijection, Injection, Surjection, IsInjective
<1>2. g \in Bijection(1 .. Seed, replies)
  BY DEF Bijection, Injection, Surjection, IsInjective
<1>3. ExistsBijection(1 .. 2 * Seed, all) /\ ExistsBijection(1 .. Seed, replies)
  BY <1>1, <1>2 DEF ExistsBijection
<1> HIDE DEF f, g, all, replies
<1>4. /\ IsFiniteSet(1 .. 2 * Seed) /\ Cardinality(1 .. 2 * Seed) = 2 * Seed
      /\ IsFiniteSet(1 .. Seed) /\ Cardinality(1 .. Seed) = Seed
  BY <1>0, FS_Interval
<1>5. /\ IsFiniteSet(all) /\ Cardinality(all) = 2 * Seed
      /\ IsFiniteSet(replies) /\ Cardinality(replies) = Seed
  BY <1>3, <1>4, FS_Bijection
<1> QED BY <1>5 DEF all, replies

\* The server starts.
LEMMA ConversationInit == Init => CInv
<1> SUFFICES ASSUME Init PROVE CInv
  OBVIOUS
<1> DEFINE stocked == setup.backend = "database"
<1>0. /\ messages = [s \in Sessions |-> IF s = "seed" /\ stocked THEN SeedMessages ELSE <<>>]
      /\ rows = [s \in Sessions |-> IF s = "seed" /\ stocked
                                    THEN [case |-> "c1", turns |-> Seed] ELSE None]
      /\ pc = [r \in Requests |-> "idle"] /\ ask = [r \in Requests |-> Unasked]
      /\ seen = [r \in Requests |-> Unseen] /\ mine = [r \in Requests |-> Unwritten]
  BY DEF Init
<1>1. "seed" \in Sessions /\ <<>> \in Seq(Turn) /\ Len(<<>>) = 0 /\ DOMAIN <<>> = {}
  BY EmptySeq DEF Sessions
<1>2. Functional
  BY <1>0, <1>1, SeedTurns DEF Functional
<1>3. ASSUME NEW r \in Requests PROVE RequestOK(r)
  BY <1>0, <1>3 DEF RequestOK, AskOK, SeenOK, MineOK, NoMessage, Unseen, Unwritten
<1>4. \A s \in Sessions : messages[s] = <<>> \/ (s = "seed" /\ messages[s] = SeedMessages)
  BY <1>0
<1>5. AuthorInv
  <2>1. \A i \in DOMAIN SeedMessages : SeedMessages[i].by \notin Requests
    BY SeedTurns, SeedAssumption
  <2> QED BY <1>1, <1>4, <2>1 DEF AuthorInv
<1>6. \A s \in Sessions, c \in Cases : Transcript(s, c) =
         IF messages[s] # <<>> /\ c = "c1" THEN 1 .. 2 * Seed ELSE {}
  <2> TAKE s \in Sessions, c \in Cases
  <2>1. CASE messages[s] = <<>>
    BY <1>1, <2>1 DEF Transcript
  <2>2. CASE messages[s] # <<>>
    <3>1. messages[s] = SeedMessages
      BY <1>4, <2>2
    <3> QED BY <2>2, <3>1, SeedTurns DEF Transcript
  <2> QED BY <2>1, <2>2
<1>7. ASSUME NEW s \in Sessions, NEW c \in Cases, NEW q \in Authors PROVE PairedIn(s, c, q)
  <2>0. Cardinality({}) = 0
    BY FS_EmptySet
  <2>1. CASE Transcript(s, c) = {} \/ q \notin 1 .. Seed
    <3>1. \A role : By(s, c, role, q) = {}
      <4>1. CASE Transcript(s, c) = {}
        BY <4>1 DEF By
      <4>2. CASE Transcript(s, c) # {} /\ q \notin 1 .. Seed
        BY <1>4, <1>6, <4>2, SeedTurns DEF By
      <4> QED BY <2>1, <4>1, <4>2
    <3> QED BY <2>0, <3>1 DEF PairedIn
  <2>2. CASE Transcript(s, c) # {} /\ q \in 1 .. Seed
    <3>1. messages[s] = SeedMessages /\ Transcript(s, c) = 1 .. 2 * Seed
      BY <1>4, <1>6, <2>2
    <3>2. /\ 2 * q - 1 \in 1 .. 2 * Seed /\ 2 * q \in 1 .. 2 * Seed
          /\ (2 * q - 1) % 2 = 1 /\ (2 * q) % 2 = 0
          /\ ((2 * q - 1) + 1) \div 2 = q /\ (2 * q + 1) \div 2 = q
          /\ \A i \in 1 .. 2 * Seed : (i + 1) \div 2 = q => i = 2 * q - 1 \/ i = 2 * q
      BY <2>2, SeedAssumption
    <3> DEFINE first == 2 * q - 1
               second == 2 * q
    <3>7. /\ SeedMessages[first].role = "user" /\ SeedMessages[first].by = q
          /\ SeedMessages[second].role = "assistant" /\ SeedMessages[second].by = q
      <4>1. ASSUME NEW i \in 1 .. 2 * Seed
            PROVE  /\ SeedMessages[i].role = IF i % 2 = 1 THEN "user" ELSE "assistant"
                   /\ SeedMessages[i].by = (i + 1) \div 2
        BY SeedTurns
      <4>2. /\ first \in 1 .. 2 * Seed /\ first % 2 = 1 /\ (first + 1) \div 2 = q
            /\ second \in 1 .. 2 * Seed /\ second % 2 # 1 /\ (second + 1) \div 2 = q
        BY <3>2
      <4> HIDE DEF first, second
      <4> QED BY <4>1, <4>2, Zenon
    <3>8. \A i \in 1 .. 2 * Seed : SeedMessages[i].by = q => i = first \/ i = second
      BY <3>2, SeedTurns
    <3>9. first \in 1 .. 2 * Seed /\ second \in 1 .. 2 * Seed
      BY <3>2
    <3> HIDE DEF first, second
    <3>3. By(s, c, "user", q) = {first}
      BY <3>1, <3>7, <3>8, <3>9 DEF By
    <3>4. By(s, c, "assistant", q) = {second}
      BY <3>1, <3>7, <3>8, <3>9 DEF By
    <3>5. messages[s][first].index < messages[s][second].index
      BY <2>2, <3>1, <3>2, SeedTurns DEF first, second
    <3>6. Cardinality({first}) = 1 /\ Cardinality({second}) = 1
      BY FS_Singleton
    <3> QED BY <3>3, <3>4, <3>5, <3>6 DEF PairedIn
  <2> QED BY <2>1, <2>2
<1>8. ASSUME NEW c \in Cases
      PROVE  /\ IsFiniteSet(All(c)) /\ IsFiniteSet(Replies(c))
             /\ Cardinality(All(c)) = 2 * Cardinality(Replies(c))
  <2>1. CASE messages["seed"] = <<>> \/ c # "c1"
    <3>1. All(c) = {}
      BY <1>4, <1>6, <2>1 DEF All
    <3>2. Replies(c) = {}
      BY <3>1 DEF Replies
    <3> QED BY <3>1, <3>2, FS_EmptySet
  <2>2. CASE messages["seed"] # <<>> /\ c = "c1"
    <3>1. messages["seed"] = SeedMessages
      BY <1>1, <1>4, <2>2
    <3>2. All(c) = {<<"seed", i>> : i \in 1 .. 2 * Seed}
      <4>1. \A s \in Sessions : Transcript(s, c) = IF s = "seed" THEN 1 .. 2 * Seed ELSE {}
        BY <1>4, <1>6, <2>2
      <4>2. All(c) = {"seed"} \X (1 .. 2 * Seed)
        BY <1>1, <4>1 DEF All
      <4> QED BY <4>2
    <3>3. Replies(c) = {<<"seed", 2 * i>> : i \in 1 .. Seed}
      <4>1. Replies(c) = {<<"seed", i>> : i \in {j \in 1 .. 2 * Seed :
                              SeedMessages[j].role = "assistant"}}
        BY <3>1, <3>2 DEF Replies
      <4>2. \A j \in 1 .. 2 * Seed : SeedMessages[j].role = "assistant" <=> j % 2 = 0
        <5>1. \A j \in 1 .. 2 * Seed : j % 2 = 1 <=> j % 2 # 0
          BY SeedAssumption
        <5>2. "user" # "assistant"
          OBVIOUS
        <5> QED BY <5>1, <5>2, SeedTurns, Zenon
      <4>3. {j \in 1 .. 2 * Seed : SeedMessages[j].role = "assistant"} =
               {2 * i : i \in 1 .. Seed}
        <5>1. \A j \in 1 .. 2 * Seed : j % 2 = 0 => j \div 2 \in 1 .. Seed /\ j = 2 * (j \div 2)
          BY SeedAssumption
        <5>2. \A i \in 1 .. Seed : 2 * i \in 1 .. 2 * Seed /\ (2 * i) % 2 = 0
          BY SeedAssumption
        <5> QED BY <4>2, <5>1, <5>2
      <4> QED BY <4>1, <4>3
    <3>4. Seed \in Nat
      BY SeedAssumption
    <3> QED BY <3>2, <3>3, <3>4, SeedCounted
  <2> QED BY <2>1, <2>2
<1>9. ASSUME NEW s \in Sessions PROVE RowOK(s)
  <2>1. CASE s = "seed" /\ stocked
    <3>1. rows[s] = [case |-> "c1", turns |-> Seed] /\ messages[s] = SeedMessages
      BY <1>0, <1>1, <2>1
    <3>2. rows[s].turns = Seed
      BY <3>1
    <3> QED BY <3>1, <3>2, SeedTurns, SeedAssumption DEF RowOK
  <2>2. CASE ~(s = "seed" /\ stocked)
    BY <1>0, <2>2 DEF RowOK
  <2> QED BY <2>1, <2>2
<1> QED BY <1>2, <1>3, <1>5, <1>7, <1>8, <1>9 DEF CInv, StoredInv, PairsInv, CountInv
-----------------------------------------------------------------------------
\* CInv holds in every reachable state.
LEMMA ConversationInductive == Spec => []CInv
<1>1. CInv /\ [Next]_vars => CInv'
  <2> SUFFICES ASSUME CInv, [Next]_vars PROVE CInv'
    OBVIOUS
  <2>1. ASSUME NEW r \in Requests, Serve(r) PROVE CInv'
    BY <2>1, AskKeeps, EndKeeps, OpenRowKeeps, InsertRowKeeps, ReadKeeps, UpsertKeeps,
       GenerateKeeps, RememberKeeps, ReadIndexKeeps, AppendQuestionKeeps,
       AppendAnswerKeeps, ReadTurnsKeeps, TouchKeeps, CommitKeeps DEF Serve
  <2>2. CASE UNCHANGED vars
    <3>1. /\ messages' = messages /\ rows' = rows /\ setup' = setup
          /\ pc' = pc /\ ask' = ask /\ seen' = seen /\ mine' = mine
      BY <2>2 DEF vars, stored
    <3>2. StoredInv'
      BY <3>1, StoredKept DEF CInv
    <3>3. Functional'
      BY <3>1 DEF CInv, Functional
    <3>4. ASSUME NEW r \in Requests PROVE RequestOK(r)'
      BY <3>1 DEF CInv, RequestOK, AskOK, SeenOK, MineOK, SessionOf, NoMessage, Asked,
                  Exchange, Question, Reply, Message
    <3> QED BY <3>2, <3>3, <3>4 DEF CInv
  <2> QED BY <2>1, <2>2 DEF Next, Rest
<1> QED BY <1>1, ConversationInit, PTL DEF Spec

\* However requests interleave and fail, the stored transcript of a case is made
\* of questions with their answers behind them, and the counters agree with it.
THEOREM ChatsPaired == Spec => []TranscriptPaired
  BY ConversationInductive, InvariantPairs, PTL
-----------------------------------------------------------------------------
(* The end of a list. *)

\* The last elements of a list are its end, from some element on.
LEMMA LastOfIsTheEnd ==
    ASSUME NEW T, NEW s \in Seq(T), s # <<>>, NEW n \in Nat \ {0}
    PROVE  /\ \E k \in 1 .. Len(s) : LastOf(s, n) = SubSeq(s, k, Len(s))
           /\ LastOf(s, n) \in Seq(T) /\ LastOf(s, n) # <<>>
<1>1. Len(s) \in Nat /\ Len(s) # 0 /\ \A i \in 1 .. Len(s) : s[i] \in T
  BY LenProperties, EmptySeq, ElementOfSeq
<1> DEFINE M == {1, Len(s) - n + 1}
           k == Max(M)
<1>2. \E x \in M : \A y \in M : x >= y
  <2>1. CASE n >= Len(s)
    BY <1>1, <2>1
  <2>2. CASE n < Len(s)
    BY <1>1, <2>2
  <2> QED BY <1>1, <2>1, <2>2
<1>3. k \in M /\ \A y \in M : k >= y
  <2> HIDE DEF M
  <2> QED BY <1>2 DEF Max
<1>4. k \in 1 .. Len(s)
  <2> HIDE DEF k
  <2> QED BY <1>1, <1>3
<1>5. LastOf(s, n) = SubSeq(s, k, Len(s))
  BY DEF LastOf
<1> HIDE DEF k
<1>6. \A i \in k .. Len(s) : s[i] \in T
  BY <1>1, <1>4
<1>7. /\ SubSeq(s, k, Len(s)) \in Seq(T)
      /\ Len(SubSeq(s, k, Len(s))) = Len(s) - k + 1
  BY <1>1, <1>4, <1>6, SubSeqProperties
<1>8. Len(SubSeq(s, k, Len(s))) # 0
  BY <1>1, <1>4, <1>7
<1> QED BY <1>4, <1>5, <1>7, <1>8, EmptySeq

\* The end of a list is a suffix of it.
LEMMA EndIsSuffix ==
    ASSUME NEW T, NEW s \in Seq(T), NEW k \in 1 .. Len(s)
    PROVE  IsSuffix(SubSeq(s, k, Len(s)), s)
<1> DEFINE L == Len(s)
           t == SubSeq(s, k, L)
           n == L - k + 1
<1>1. L \in Nat /\ \A i \in 1 .. L : s[i] \in T
  BY LenProperties, ElementOfSeq
<1>2. n \in 1 .. L /\ k \in Int /\ n = L - k + 1
  BY <1>1
<1>3. t \in Seq(T) /\ Len(t) = n /\ \A i \in 1 .. n : t[i] = s[k + i - 1]
  <2>1. \A i \in k .. L : s[i] \in T
    BY <1>1
  <2> HIDE DEF L
  <2> QED BY <1>1, <1>2, <2>1, SubSeqProperties
<1> HIDE DEF t, L, n
<1>4. Reverse(t) = [i \in 1 .. n |-> t[(n - i) + 1]]
  BY <1>3 DEF Reverse
<1>5. Reverse(s) = [i \in 1 .. L |-> s[(L - i) + 1]]
  BY DEF Reverse, L
<1>6. Reverse(t) \in Seq(T) /\ Len(Reverse(t)) = n
  <2>1. \A i \in 1 .. n : t[(n - i) + 1] \in T
    BY <1>1, <1>2, <1>3
  <2>2. Reverse(t) \in [1 .. n -> T]
    BY <1>4, <2>1
  <2> QED BY <1>1, <1>2, <1>4, <2>2
<1>7. Reverse(s) \in Seq(T) /\ Len(Reverse(s)) = L
  <2>1. \A i \in 1 .. L : s[(L - i) + 1] \in T
    BY <1>1
  <2>2. Reverse(s) \in [1 .. L -> T]
    BY <1>5, <2>1
  <2> QED BY <1>1, <1>5, <2>2
<1>8. \A i \in 1 .. n : Reverse(t)[i] = Reverse(s)[i]
  <2> TAKE i \in 1 .. n
  <2>1. i \in 1 .. L /\ (n - i) + 1 \in 1 .. n /\ k + ((n - i) + 1) - 1 = (L - i) + 1
    BY <1>1, <1>2
  <2>2. Reverse(t)[i] = t[(n - i) + 1] /\ Reverse(s)[i] = s[(L - i) + 1]
    BY <1>4, <1>5, <2>1
  <2>3. t[(n - i) + 1] = s[k + ((n - i) + 1) - 1]
    BY <1>3, <2>1
  <2> QED BY <2>1, <2>2, <2>3
<1> DEFINE a == Reverse(t)
           b == Reverse(s)
<1> HIDE DEF a, b
<1>9. SubSeq(a, 1, n) = SubSeq(b, 1, n)
  <2>1. /\ \A i \in 1 .. n : a[i] \in T
        /\ \A i \in 1 .. n : b[i] \in T
    BY <1>1, <1>2, <1>6, <1>7, <1>8, ElementOfSeq DEF a, b
  <2>2. /\ SubSeq(a, 1, n) \in Seq(T) /\ Len(SubSeq(a, 1, n)) = n
        /\ \A i \in 1 .. n : SubSeq(a, 1, n)[i] = a[i]
    BY <1>1, <1>2, <2>1, SubSeqProperties
  <2>3. /\ SubSeq(b, 1, n) \in Seq(T) /\ Len(SubSeq(b, 1, n)) = n
        /\ \A i \in 1 .. n : SubSeq(b, 1, n)[i] = b[i]
    BY <1>1, <1>2, <2>1, SubSeqProperties
  <2>4. \A i \in 1 .. n : SubSeq(a, 1, n)[i] = SubSeq(b, 1, n)[i]
    BY <1>8, <2>2, <2>3 DEF a, b
  <2> QED BY <2>2, <2>3, <2>4, SeqEqual
<1>10. n <= L
  BY <1>1, <1>2
<1>11. IsPrefix(Reverse(t), Reverse(s))
  BY <1>6, <1>7, <1>9, <1>10 DEF IsPrefix, a, b
<1> QED BY <1>11 DEF IsSuffix, t, L

\* What a prompt is left of the latest turns are the latest.
LEMMA LatestOfLatest ==
    ASSUME NEW T, NEW s \in Seq(T), s # <<>>, NEW m \in Nat \ {0}, NEW n \in Nat \ {0}
    PROVE  LastOf(LastOf(s, m), n) # <<>> /\ IsSuffix(LastOf(LastOf(s, m), n), s)
<1> DEFINE t == LastOf(s, m)
<1>1. PICK k \in 1 .. Len(s) : t = SubSeq(s, k, Len(s))
  BY LastOfIsTheEnd
<1>2. t \in Seq(T) /\ t # <<>>
  BY LastOfIsTheEnd
<1> HIDE DEF t
<1>3. PICK l \in 1 .. Len(t) : LastOf(t, n) = SubSeq(t, l, Len(t))
  BY <1>2, LastOfIsTheEnd
<1>4. LastOf(t, n) # <<>>
  BY <1>2, LastOfIsTheEnd
<1>5. Len(s) \in Nat /\ \A i \in 1 .. Len(s) : s[i] \in T
  BY LenProperties, ElementOfSeq
<1>6. Len(t) = Len(s) - k + 1
  <2>1. \A i \in k .. Len(s) : s[i] \in T
    BY <1>5
  <2> QED BY <1>1, <1>5, <2>1, SubSeqProperties
<1>7. SubSeq(t, l, Len(t)) = SubSeq(s, k + l - 1, k + Len(t) - 1)
  <2>1. k \in 1 .. Len(s) /\ Len(s) \in 1 .. Len(s)
    BY <1>5
  <2>2. l \in 1 .. Len(s) - k + 1 /\ Len(t) \in 1 .. Len(s) - k + 1
    BY <1>5, <1>6
  <2> QED BY <1>1, <2>1, <2>2, SubSeqOfSubSeq
<1>8. k + Len(t) - 1 = Len(s) /\ k + l - 1 \in 1 .. Len(s)
  BY <1>5, <1>6
<1>9. IsSuffix(SubSeq(s, k + l - 1, Len(s)), s)
  BY <1>8, EndIsSuffix
<1> QED BY <1>3, <1>4, <1>7, <1>8, <1>9 DEF t
-----------------------------------------------------------------------------
(* Summaries of lists of messages. *)

\* Those of a list of messages a summary up to number n is to tell.
UpTo(turns, n) == {m \in ToSet(turns) : m.index <= n}

\* The summary u tells messages of this list, none twice, and if it is of one
\* request at a time all that it covers.
Tells(u, turns, s, races) ==
    /\ u.covers \in Int
    /\ u.covers = -1 \/ \E i \in DOMAIN turns : turns[i].index = u.covers
    /\ u.told \in Seq(UpTo(turns, u.covers))
    /\ \A i, j \in DOMAIN u.told : u.told[i] = u.told[j] => i = j
    /\ s \notin races => UpTo(turns, u.covers) \subseteq ToSet(u.told)

\* The messages of a list are numbered.
LEMMA Numbered ==
    ASSUME NEW turns \in Seq(Turn)
    PROVE  /\ Len(turns) \in Nat /\ DOMAIN turns = 1 .. Len(turns)
           /\ \A i \in DOMAIN turns : turns[i] \in Turn /\ turns[i].index \in Nat
           /\ \A m \in ToSet(turns) : m \in Turn /\ m.index \in Nat
<1>1. Len(turns) \in Nat /\ DOMAIN turns = 1 .. Len(turns)
  BY LenProperties
<1>2. \A i \in DOMAIN turns : turns[i] \in Turn
  BY <1>1, ElementOfSeq
<1>3. \A m \in Turn : m.index \in Nat
  BY DEF Turn
<1>4. \A m \in ToSet(turns) : m \in Turn
  BY <1>2 DEF ToSet
<1> QED BY <1>1, <1>2, <1>3, <1>4

\* An empty summary tells nothing, and covers nothing.
LEMMA EmptySummaryTells ==
    ASSUME NEW turns \in Seq(Turn), NEW s, NEW races
    PROVE  Tells(NoSummary, turns, s, races)
<1>1. NoSummary.told = <<>> /\ NoSummary.covers = -1
  BY DEF NoSummary
<1>2. UpTo(turns, -1) = {}
  BY Numbered DEF UpTo
<1>3. <<>> \in Seq({}) /\ DOMAIN <<>> = {}
  OBVIOUS
<1> HIDE DEF NoSummary
<1> QED BY <1>1, <1>2, <1>3 DEF Tells

\* A summary stays right when messages are added behind it, in any order when
\* requests share the session.
LEMMA TellsOfMore ==
    ASSUME NEW turns \in Seq(Turn), NEW new \in Seq(Turn), NEW u, NEW s, NEW races,
           Tells(u, turns, s, races),
           s \notin races => \A i \in DOMAIN turns, j \in DOMAIN new : turns[i].index < new[j].index
    PROVE  Tells(u, turns \o new, s, races)
<1> DEFINE more == turns \o new
<1>1. /\ more \in Seq(Turn) /\ Len(more) = Len(turns) + Len(new)
      /\ \A i \in 1 .. Len(more) :
           more[i] = IF i <= Len(turns) THEN turns[i] ELSE new[i - Len(turns)]
  BY ConcatProperties
<1>2. /\ Len(turns) \in Nat /\ DOMAIN turns = 1 .. Len(turns)
      /\ Len(new) \in Nat /\ DOMAIN new = 1 .. Len(new)
      /\ DOMAIN more = 1 .. Len(more)
  BY <1>1, Numbered
<1> HIDE DEF more
<1>3. \A i \in DOMAIN turns : i \in DOMAIN more /\ more[i] = turns[i]
  BY <1>1, <1>2
<1>4. ToSet(turns) \subseteq ToSet(more)
  BY <1>3 DEF ToSet
<1>5. UpTo(turns, u.covers) \subseteq UpTo(more, u.covers)
  BY <1>4 DEF UpTo
<1>6. u.told \in Seq(UpTo(more, u.covers))
  <2>1. u.told \in Seq(UpTo(turns, u.covers))
    BY DEF Tells
  <2> QED BY <1>5, <2>1
<1>7. u.covers = -1 \/ \E i \in DOMAIN more : more[i].index = u.covers
  BY <1>3 DEF Tells
<1>8. ASSUME s \notin races PROVE UpTo(more, u.covers) \subseteq UpTo(turns, u.covers)
  <2>1. ASSUME NEW j \in DOMAIN new PROVE ~ (new[j].index <= u.covers)
    <3>1. new[j].index \in Nat /\ u.covers \in Int
      BY Numbered DEF Tells
    <3>2. CASE u.covers = -1
      BY <3>1, <3>2
    <3>3. CASE u.covers # -1
      <4>1. PICK i \in DOMAIN turns : turns[i].index = u.covers
        BY <3>3 DEF Tells
      <4> QED BY <1>8, <3>1, <4>1
    <3> QED BY <3>2, <3>3
  <2>2. \A i \in DOMAIN more : more[i] \in ToSet(turns) \/ \E j \in DOMAIN new : more[i] = new[j]
    <3> TAKE i \in DOMAIN more
    <3>1. CASE i <= Len(turns)
      BY <1>1, <1>2, <3>1 DEF ToSet
    <3>2. CASE ~ (i <= Len(turns))
      <4>1. more[i] = new[i - Len(turns)] /\ i - Len(turns) \in DOMAIN new
        BY <1>1, <1>2, <3>2
      <4> QED BY <4>1
    <3> QED BY <3>1, <3>2
  <2>3. \A m \in ToSet(more) : m \in ToSet(turns) \/ \E j \in DOMAIN new : m = new[j]
    BY <2>2 DEF ToSet
  <2> QED BY <2>1, <2>3 DEF UpTo
<1> QED BY <1>6, <1>7, <1>8 DEF Tells, more

\* By their numbers messages can be ordered.
LEMMA EarlierOrders ==
    ASSUME NEW turns \in Seq(Turn), NEW S, S \subseteq DOMAIN turns
    PROVE  /\ S \subseteq Int /\ IsFiniteSet(S)
           /\ \A i, j \in S : <<i, j>> \in Earlier(turns) <=> turns[i].index < turns[j].index
           /\ WeakOrder(S, Earlier(turns))
<1>1. /\ DOMAIN turns = 1 .. Len(turns) /\ Len(turns) \in Nat
      /\ \A i \in DOMAIN turns : turns[i].index \in Nat
  BY Numbered
<1>2. S \subseteq Int
  BY <1>1
<1>3. IsFiniteSet(S)
  <2>1. IsFiniteSet(1 .. Len(turns))
    BY <1>1, FS_Interval
  <2> QED BY <1>1, <2>1, FS_Subset
<1>4. \A i, j \in DOMAIN turns : <<i, j>> \in Earlier(turns) <=> turns[i].index < turns[j].index
  BY DEF Earlier
<1>5. WeakOrder(S, Earlier(turns))
  <2>1. \A i \in S : turns[i].index \in Int
    BY <1>1
  <2>2. \A i, j \in S : <<i, j>> \in Earlier(turns) <=> turns[i].index < turns[j].index
    BY <1>4
  <2> QED BY <2>1, <2>2 DEF WeakOrder
<1> QED BY <1>2, <1>3, <1>4, <1>5

\* Messages that are written in the order of their numbers are read as written.
LEMMA InOrderAlready ==
    ASSUME NEW turns \in Seq(Turn),
           \A i, j \in DOMAIN turns : i < j => turns[i].index < turns[j].index
    PROVE  InOrder(turns) = turns
<1>1. \A i \in DOMAIN turns : turns[i].index \in Int
  BY Numbered
<1>2. /\ \A i, j \in DOMAIN turns :
           <<i, j>> \in Earlier(turns) <=> turns[i].index < turns[j].index
      /\ WeakOrder(DOMAIN turns, Earlier(turns))
  BY EarlierOrders
<1>3. \A i, j \in DOMAIN turns : i < j => <<j, i>> \notin Earlier(turns)
  BY <1>1, <1>2
<1> QED BY <1>2, <1>3, SortedAlready DEF InOrder

\* What a summary is added tells what it has not told, once.
LEMMA SummarizedTells ==
    ASSUME NEW turns \in Seq(Turn), NEW s, NEW races, NEW existing, NEW cutoff \in Int,
           \A i, j \in DOMAIN turns : turns[i] = turns[j] => i = j,
           Tells(existing, turns, s, races)
    PROVE  Tells(Summarized(turns, existing, cutoff), turns, s, races)
<1> DEFINE after == {i \in DOMAIN turns : turns[i].index \in existing.covers + 1 .. cutoff}
           rest == Sorted(turns, after, Earlier(turns))
           more == [told |-> existing.told \o rest, covers |-> Last(rest).index]
<1>1. Summarized(turns, existing, cutoff) = IF rest = <<>> THEN existing ELSE more
  BY DEF Summarized
<1>2. SUFFICES ASSUME rest # <<>> PROVE Tells(more, turns, s, races)
  BY <1>1
<1>3. /\ existing.covers \in Int
      /\ existing.told \in Seq(UpTo(turns, existing.covers))
      /\ \A i, j \in DOMAIN existing.told : existing.told[i] = existing.told[j] => i = j
      /\ s \notin races => UpTo(turns, existing.covers) \subseteq ToSet(existing.told)
  BY DEF Tells
<1>4. /\ DOMAIN turns = 1 .. Len(turns) /\ Len(turns) \in Nat
      /\ \A i \in DOMAIN turns : turns[i].index \in Nat
  BY Numbered
<1>5. /\ after \subseteq DOMAIN turns /\ after \subseteq Int /\ IsFiniteSet(after)
      /\ \A i, j \in after : <<i, j>> \in Earlier(turns) <=> turns[i].index < turns[j].index
      /\ WeakOrder(after, Earlier(turns))
  BY EarlierOrders
<1>6. \A i \in after : existing.covers < turns[i].index /\ turns[i].index <= cutoff
  BY <1>3, <1>4
<1>7. /\ rest \in Seq(ToSet(turns)) /\ DOMAIN rest = 1 .. Len(rest) /\ Len(rest) \in Nat
      /\ \A i \in after : \E n \in DOMAIN rest : rest[n] = turns[i]
      /\ \A n \in DOMAIN rest : \E i \in after : rest[n] = turns[i]
      /\ \A m, n \in DOMAIN rest : m < n =>
           \E i, j \in after : /\ rest[m] = turns[i] /\ rest[n] = turns[j]
                               /\ i # j /\ Precedes(Earlier(turns), i, j)
  <2>1. \A i \in after : turns[i] \in ToSet(turns)
    BY <1>5 DEF ToSet
  <2>2. rest = Sorted(turns, after, Earlier(turns))
    OBVIOUS
  <2> HIDE DEF after, rest
  <2>3. /\ rest \in Seq(ToSet(turns)) /\ DOMAIN rest = 1 .. Len(rest) /\ Len(rest) \in Nat
        /\ Selects(rest, turns, after)
        /\ \A m, n \in DOMAIN rest : m < n =>
             \E i, j \in after : /\ rest[m] = turns[i] /\ rest[n] = turns[j]
                                 /\ i # j /\ Precedes(Earlier(turns), i, j)
    BY <1>5, <2>1, <2>2, SortedSelects
  <2> QED BY <2>3 DEF Selects
<1> HIDE DEF rest
<1>8. Len(rest) # 0 /\ Len(rest) \in DOMAIN rest
  BY <1>2, <1>7, EmptySeq
\* The positions it comes from.
<1>9. \A m \in DOMAIN rest : \E i \in after : rest[m] = turns[i]
  BY <1>7
<1>10. \A m, n \in DOMAIN rest : m < n =>
          rest[m] # rest[n] /\ rest[m].index <= rest[n].index
  <2> TAKE m, n \in DOMAIN rest
  <2> HAVE m < n
  <2>1. PICK i \in after, j \in after : /\ rest[m] = turns[i] /\ rest[n] = turns[j]
                                        /\ i # j /\ Precedes(Earlier(turns), i, j)
    BY <1>7
  <2>2. turns[i] # turns[j]
    BY <1>5, <2>1
  <2>3. turns[i].index \in Nat /\ turns[j].index \in Nat
    BY <1>4, <1>5
  <2>4. ~ (turns[j].index < turns[i].index)
    <3>1. IF i < j THEN <<j, i>> \notin Earlier(turns) ELSE <<i, j>> \in Earlier(turns)
      BY <2>1 DEF Precedes
    <3>2. /\ <<i, j>> \in Earlier(turns) <=> turns[i].index < turns[j].index
          /\ <<j, i>> \in Earlier(turns) <=> turns[j].index < turns[i].index
      BY <1>5
    <3> QED BY <2>3, <3>1, <3>2
  <2> QED BY <2>1, <2>2, <2>3, <2>4
<1> DEFINE last == Last(rest).index
<1>11. last = rest[Len(rest)].index
  BY DEF Last
<1>12. PICK l \in after : rest[Len(rest)] = turns[l]
  BY <1>8, <1>9
<1>13. last \in Nat /\ existing.covers < last /\ last <= cutoff /\ last = turns[l].index
  BY <1>4, <1>5, <1>6, <1>11, <1>12
<1> HIDE DEF last
<1>14. \A m \in DOMAIN rest : rest[m].index <= last
  <2> TAKE m \in DOMAIN rest
  <2>1. CASE m = Len(rest)
    <3>1. rest[m].index = last /\ last \in Nat
      BY <1>11, <1>13, <2>1
    <3> QED BY <3>1
  <2>2. CASE m # Len(rest)
    <3>1. m < Len(rest)
      BY <1>7, <2>2
    <3> QED BY <1>8, <1>10, <1>11, <3>1
  <2> QED BY <2>1, <2>2
<1> HIDE DEF after
<1>15. \A m \in DOMAIN rest : rest[m] \in UpTo(turns, last) /\ existing.covers < rest[m].index
  <2> TAKE m \in DOMAIN rest
  <2>1. PICK i \in after : rest[m] = turns[i]
    BY <1>9
  <2>2. turns[i] \in ToSet(turns)
    BY <1>5 DEF ToSet
  <2> QED BY <1>6, <1>14, <2>1, <2>2 DEF UpTo
<1>16. UpTo(turns, existing.covers) \subseteq UpTo(turns, last)
  BY <1>3, <1>13, Numbered DEF UpTo
<1> DEFINE U == UpTo(turns, last)
           old == existing.told
           told == old \o rest
<1>17. \A m \in DOMAIN old : old[m] \in U /\ old[m].index <= existing.covers
  <2>1. \A m \in DOMAIN old : old[m] \in UpTo(turns, existing.covers)
    BY <1>3
  <2> QED BY <1>16, <2>1 DEF UpTo
<1>18. old \in Seq(U) /\ rest \in Seq(U)
  <2> HIDE DEF U
  <2>1. old \in Seq(U)
    BY <1>3, <1>16 DEF U
  <2>2. \A m \in DOMAIN rest : rest[m] \in U
    BY <1>15 DEF U
  <2>3. rest \in Seq(U)
    <3>1. rest = [m \in 1 .. Len(rest) |-> rest[m]]
      BY <1>7
    <3>2. rest \in [1 .. Len(rest) -> U]
      BY <1>7, <2>2, <3>1
    <3> DEFINE k == Len(rest)
    <3>3. k \in Nat /\ rest \in [1 .. k -> U]
      BY <1>7, <3>2
    <3> HIDE DEF k
    <3> QED BY <3>3
  <2> QED BY <2>1, <2>3
<1>19. /\ told \in Seq(U) /\ Len(told) = Len(old) + Len(rest) /\ DOMAIN told = 1 .. Len(told)
       /\ Len(old) \in Nat /\ DOMAIN old = 1 .. Len(old)
       /\ \A i \in 1 .. Len(told) :
            told[i] = IF i <= Len(old) THEN old[i] ELSE rest[i - Len(old)]
  <2> HIDE DEF U, old
  <2> QED BY <1>18, ConcatProperties, LenProperties
<1> HIDE DEF U, told, old
<1>20. \A i \in DOMAIN told : i > Len(old) =>
          i - Len(old) \in DOMAIN rest /\ told[i] = rest[i - Len(old)]
  BY <1>7, <1>19
<1>21. \A i \in DOMAIN told : i <= Len(old) => i \in DOMAIN old /\ told[i] = old[i]
  BY <1>7, <1>19
<1>22. \A m \in U : m.index \in Int
  BY Numbered DEF U, UpTo
<1>23. ASSUME NEW i \in DOMAIN told, NEW j \in DOMAIN told, i < j PROVE told[i] # told[j]
  <2>1. i \in Int /\ j \in Int
    BY <1>7, <1>19
  <2>2. CASE j <= Len(old)
    BY <1>3, <1>19, <1>21, <1>23, <2>1, <2>2 DEF old
  <2>3. CASE i <= Len(old) /\ j > Len(old)
    <3>1. told[i] \in U /\ told[i].index <= existing.covers
      BY <1>17, <1>21, <2>3 DEF U, old
    <3>2. existing.covers < told[j].index
      BY <1>15, <1>20, <2>3
    <3> QED BY <1>3, <1>22, <3>1, <3>2
  <2>4. CASE i > Len(old)
    <3> DEFINE k == i - Len(old)
               o == j - Len(old)
    <3>1. j > Len(old) /\ k < o
      BY <1>19, <1>23, <2>1, <2>4
    <3>2. /\ k \in DOMAIN rest /\ told[i] = rest[k]
          /\ o \in DOMAIN rest /\ told[j] = rest[o]
      BY <1>20, <2>4, <3>1
    <3> HIDE DEF k, o
    <3> QED BY <1>10, <3>1, <3>2
  <2> QED BY <1>19, <2>1, <2>2, <2>3, <2>4
<1>24. \A i, j \in DOMAIN told : told[i] = told[j] => i = j
  <2>1. \A i \in DOMAIN told : i \in Int
    BY <1>7, <1>19
  <2> QED BY <1>23, <2>1
<1>25. ASSUME s \notin races PROVE U \subseteq ToSet(told)
  <2> SUFFICES ASSUME NEW m \in U PROVE \E n \in DOMAIN told : told[n] = m
    BY DEF ToSet
  <2>1. m \in ToSet(turns) /\ m.index <= last /\ m.index \in Int
    BY <1>22 DEF U, UpTo
  <2>2. CASE m.index <= existing.covers
    <3>1. m \in ToSet(existing.told)
      BY <1>3, <1>25, <2>1, <2>2 DEF UpTo
    <3>2. PICK n \in DOMAIN old : old[n] = m
      BY <3>1 DEF ToSet, old
    <3>3. n \in DOMAIN told /\ n <= Len(old)
      BY <1>7, <1>19
    <3> QED BY <1>21, <3>2, <3>3
  <2>3. CASE existing.covers < m.index
    <3>1. PICK i \in DOMAIN turns : turns[i] = m
      BY <2>1 DEF ToSet
    <3>2. i \in after
      BY <1>3, <1>13, <2>1, <2>3, <3>1 DEF after
    <3>3. PICK n \in DOMAIN rest : rest[n] = m
      BY <1>7, <3>1, <3>2
    <3> DEFINE k == n + Len(old)
    <3>4. k \in DOMAIN told /\ k > Len(old) /\ k - Len(old) = n
      BY <1>7, <1>19, <3>3
    <3> HIDE DEF k
    <3>5. told[k] = m
      BY <1>20, <3>3, <3>4
    <3> QED BY <3>4, <3>5
  <2> QED BY <1>3, <2>1, <2>2, <2>3
<1>26. more.told = told /\ more.covers = last
  BY DEF told, old, last
<1>27. \E i \in DOMAIN turns : turns[i].index = last
  BY <1>5, <1>13
<1> HIDE DEF more
<1>28. /\ last \in Int /\ told \in Seq(UpTo(turns, last))
       /\ s \notin races => UpTo(turns, last) \subseteq ToSet(told)
  BY <1>13, <1>19, <1>25 DEF U
<1> QED BY <1>24, <1>26, <1>27, <1>28 DEF Tells
-----------------------------------------------------------------------------
(* The memory of a chat. *)

\* Requests that have a session to themselves have it to themselves.
Alone == \A r, q \in Requests :
    /\ r # q /\ pc[r] \in Running /\ pc[q] \in Running
    /\ SessionOf(r) = SessionOf(q)
    => SessionOf(r) \in raced

Rising(turns) == \A i, j \in DOMAIN turns : i < j => turns[i].index < turns[j].index

TellsIn(u, s) == Tells(u, messages[s], s, raced)

SessionTold(s) == /\ s \notin raced => Rising(messages[s])
                  /\ summaries[s] = None \/ TellsIn(summaries[s], s)

Unraced(r) == pc[r] \in Running /\ SessionOf(r) \notin raced

\* What it has to write is numbered after what is there.
NewestLast(r) == Unraced(r) =>
    \A i \in DOMAIN messages[SessionOf(r)] :
        LET m == messages[SessionOf(r)][i]
        IN  /\ pc[r] = "question" => m.index < seen[r].index
            /\ \A j \in DOMAIN mine[r].messages : m.index < mine[r].messages[j].index

\* What it has read, or written, as the summary, tells what is there.
SummaryTold(r) ==
    /\ pc[r] = "idle" => seen[r].summary = None /\ mine[r].summary = None
    /\ pc[r] = "summarise" => seen[r].total \in Nat
    /\ pc[r] \in Running =>
         /\ seen[r].summary = None \/ TellsIn(seen[r].summary, SessionOf(r))
         /\ mine[r].summary = None \/ TellsIn(mine[r].summary, SessionOf(r))
         /\ pc[r] = "upsert" => TellsIn(seen[r].summary, SessionOf(r))

Answering == {"number", "question", "answer", "turns", "touch", "commit"}

\* Its prompt ends with the latest messages, which it has read.
Prompted(r) ==
    /\ pc[r] \notin Answering => answer[r] = None
    /\ Unraced(r) /\ setup.backend = "database" =>
         LET turns == messages[SessionOf(r)]
         IN  /\ pc[r] \in {"count", "summarise", "upsert", "generate"} =>
                  seen[r].recent = LastOf(turns, Window)
             /\ answer[r] # None /\ turns # <<>> =>
                  answer[r].history.turns # <<>> /\ IsSuffix(answer[r].history.turns, turns)

Shaped == /\ DOMAIN answer = Requests
          /\ DOMAIN summaries = Sessions
          /\ \A r \in Requests : {"recent", "total", "summary"} \subseteq DOMAIN seen[r]
          /\ \A r \in Requests : "summary" \in DOMAIN mine[r]

RequestTold(r) == NewestLast(r) /\ SummaryTold(r) /\ Prompted(r)

HInv == /\ Shaped /\ Alone
        /\ \A s \in Sessions : SessionTold(s)
        /\ \A r \in Requests : RequestTold(r)

\* What a step of r that stores nothing leaves alone.
Apart(r) ==
    /\ UNCHANGED <<setup, messages, summaries>>
    /\ raced \subseteq raced'
    /\ \A q \in Requests \ {r} :
         /\ pc'[q] = pc[q] /\ ask'[q] = ask[q] /\ seen'[q] = seen[q]
         /\ mine'[q] = mine[q] /\ answer'[q] = answer[q]

\* A summary that is right for one request at a time is right for more.
LEMMA TellsShared ==
    ASSUME NEW u, NEW turns, NEW s, NEW races, NEW more, races \subseteq more,
           Tells(u, turns, s, races)
    PROVE  Tells(u, turns, s, more)
  BY DEF Tells

\* It is enough to show what becomes of the request that takes the step.
LEMMA OthersTold ==
    ASSUME HInv, NEW r \in Requests, Apart(r), Shaped', Alone', RequestTold(r)'
    PROVE  HInv'
<1>0. messages' = messages /\ summaries' = summaries /\ raced \subseteq raced' /\ setup' = setup
  BY DEF Apart
<1>1. \A u, s : TellsIn(u, s) => Tells(u, messages[s], s, raced')
  BY <1>0, TellsShared DEF TellsIn
<1>2. ASSUME NEW s \in Sessions PROVE SessionTold(s)'
  <2>1. SessionTold(s)
    BY DEF HInv
  <2>2. PICK u : u = summaries[s]
    OBVIOUS
  <2>3. TellsIn(u, s) => Tells(u, messages[s], s, raced')
    BY <1>1
  <2> QED BY <1>0, <2>1, <2>2, <2>3 DEF SessionTold, TellsIn
<1>3. ASSUME NEW q \in Requests \ {r} PROVE RequestTold(q)'
  <2>1. RequestTold(q)
    BY DEF HInv
  <2>2. /\ pc'[q] = pc[q] /\ ask'[q] = ask[q] /\ seen'[q] = seen[q]
        /\ mine'[q] = mine[q] /\ answer'[q] = answer[q]
    BY DEF Apart
  <2>3. Unraced(q)' => Unraced(q)
    BY <1>0, <2>2 DEF Unraced, SessionOf
  <2>4. NewestLast(q)'
    BY <1>0, <2>1, <2>2, <2>3 DEF RequestTold, NewestLast, SessionOf
  <2>5. SummaryTold(q)'
    <3>1. PICK s : s = SessionOf(q)
      OBVIOUS
    <3>2. PICK u : u = seen[q].summary
      OBVIOUS
    <3>3. PICK v : v = mine[q].summary
      OBVIOUS
    <3>4. /\ TellsIn(u, s) => Tells(u, messages[s], s, raced')
          /\ TellsIn(v, s) => Tells(v, messages[s], s, raced')
      BY <1>1
    <3> QED BY <1>0, <2>1, <2>2, <3>1, <3>2, <3>3, <3>4
            DEF RequestTold, SummaryTold, SessionOf, TellsIn
  <2>6. Prompted(q)'
    BY <1>0, <2>1, <2>2, <2>3 DEF RequestTold, Prompted, SessionOf
  <2> QED BY <2>4, <2>5, <2>6 DEF RequestTold
<1> QED BY <1>2, <1>3 DEF HInv

\* The same of a step that does not bring a request into a session.
LEMMA StepTold ==
    ASSUME HInv, NEW r \in Requests, Apart(r), Shaped', RequestTold(r)',
           pc'[r] \in Running => pc[r] \in Running /\ ask'[r] = ask[r]
    PROVE  HInv'
<1>1. Alone'
  <2> SUFFICES ASSUME NEW p \in Requests, NEW q \in Requests, p # q,
                      pc'[p] \in Running, pc'[q] \in Running,
                      SessionOf(p)' = SessionOf(q)'
               PROVE  SessionOf(p)' \in raced'
    BY DEF Alone
  <2>1. /\ pc[p] \in Running /\ SessionOf(p)' = SessionOf(p)
        /\ pc[q] \in Running /\ SessionOf(q)' = SessionOf(q)
    BY DEF Apart, SessionOf
  <2>2. SessionOf(p) \in raced /\ raced \subseteq raced'
    BY <2>1 DEF HInv, Alone, Apart
  <2> QED BY <2>1, <2>2
<1> QED BY <1>1, OthersTold

USE DEF Answering

\* A request arrives.
LEMMA AskTold == ASSUME CInv, HInv, NEW r \in Requests, Ask(r) PROVE HInv'
<1>0. Functional /\ RequestOK(r) /\ RequestTold(r) /\ pc[r] = "idle"
  BY DEF CInv, HInv, Ask
<1>1. PICK w \in Workload, s \in Known \cup {None} :
        LET resumed == s # None /\ s \in ToSet(sessions)
            used == IF resumed THEN s ELSE r
        IN  /\ ask' = [ask EXCEPT ![r] = [case |-> w.case, question |-> w.question,
                                          session |-> used]]
            /\ raced' = IF \E q \in Requests : pc[q] \in Running /\ SessionOf(q) = used
                        THEN raced \cup {used} ELSE raced
  BY DEF Ask
<1> DEFINE used == IF s # None /\ s \in ToSet(sessions) THEN s ELSE r
           new == [case |-> w.case, question |-> w.question, session |-> used]
<1>2. new.session = used
  OBVIOUS
<1> HIDE DEF used
<1>3. /\ ask' = [ask EXCEPT ![r] = new]
      /\ raced' = IF \E q \in Requests : pc[q] \in Running /\ SessionOf(q) = used
                  THEN raced \cup {used} ELSE raced
  BY <1>1 DEF used
<1> HIDE DEF new
<1>4. ask'[r] = new /\ \A q \in Requests \ {r} : ask'[q] = ask[q]
  BY <1>0, <1>3 DEF Functional
<1>5. /\ pc' = [pc EXCEPT ![r] = IF setup.backend = "database" THEN "open" ELSE "window"]
      /\ UNCHANGED <<setup, messages, summaries, seen, mine, answer>>
  BY DEF Ask, stored
<1>6. pc'[r] \in {"open", "window"} /\ \A q \in Requests \ {r} : pc'[q] = pc[q]
  BY <1>0, <1>5 DEF Functional
<1>7. Apart(r) /\ Shaped'
  BY <1>3, <1>4, <1>5, <1>6 DEF Apart, HInv, Shaped
<1>8. Alone'
  <2>1. ASSUME NEW q \in Requests \ {r}, pc'[q] \in Running, SessionOf(q)' = used
        PROVE  used \in raced'
    <3>1. pc[q] \in Running /\ SessionOf(q) = used
      BY <1>4, <1>6, <2>1 DEF SessionOf
    <3> QED BY <1>3, <3>1
  <2>2. SessionOf(r)' = used
    BY <1>2, <1>4 DEF SessionOf
  <2>3. ASSUME NEW p \in Requests \ {r}, NEW q \in Requests \ {r}, p # q,
               pc'[p] \in Running, pc'[q] \in Running, SessionOf(p)' = SessionOf(q)'
        PROVE  SessionOf(p)' \in raced'
    BY <1>4, <1>6, <1>7, <2>3 DEF HInv, Alone, Apart, SessionOf
  <2> QED BY <2>1, <2>2, <2>3 DEF Alone
<1>9. RequestTold(r)'
  <2>1. mine[r].messages = <<>> /\ DOMAIN mine[r].messages = {}
    BY <1>0 DEF RequestOK, MineOK, NoMessage
  <2> QED BY <1>0, <1>5, <1>6, <2>1 DEF RequestTold, NewestLast, SummaryTold, Prompted
<1> QED BY <1>7, <1>8, <1>9, OthersTold

\* A request is refused, or fails.
LEMMA EndTold == ASSUME CInv, HInv, NEW r \in Requests, Refuse(r) \/ Fail(r) PROVE HInv'
<1>0. Functional /\ RequestTold(r)
  BY DEF CInv, HInv
<1>1. CASE Refuse(r)
  <2>1. /\ pc[r] = "idle" /\ pc' = [pc EXCEPT ![r] = "refused"]
        /\ UNCHANGED <<setup, messages, summaries, ask, seen, mine, answer, raced>>
    BY <1>1 DEF Refuse, stored
  <2>2. Apart(r) /\ Shaped' /\ pc'[r] = "refused"
    BY <1>0, <2>1 DEF Apart, Functional, HInv, Shaped
  <2>3. RequestTold(r)'
    BY <1>0, <2>1, <2>2 DEF RequestTold, NewestLast, SummaryTold, Prompted, Unraced
  <2> QED BY <2>2, <2>3, StepTold
<1>2. CASE Fail(r)
  <2>1. /\ pc' = [pc EXCEPT ![r] = "failed"]
        /\ ask' = [ask EXCEPT ![r] = [Unasked EXCEPT !.session = SessionOf(r)]]
        /\ seen' = [seen EXCEPT ![r] = Unseen]
        /\ mine' = [mine EXCEPT ![r] = Unwritten]
        /\ answer' = [answer EXCEPT ![r] = None]
        /\ UNCHANGED <<setup, messages, summaries, raced>>
    BY <1>2 DEF Fail, Forget, stored
  <2>2. Apart(r) /\ Shaped' /\ pc'[r] = "failed" /\ answer'[r] = None
    BY <1>0, <2>1 DEF Apart, Functional, HInv, Shaped, Unseen, Unwritten
  <2>3. RequestTold(r)'
    BY <2>2 DEF RequestTold, NewestLast, SummaryTold, Prompted, Unraced
  <2> QED BY <2>2, <2>3, StepTold
<1> QED BY <1>1, <1>2

\* The row of the session is looked up, or inserted.
LEMMA OpenRowTold ==
    ASSUME CInv, HInv, NEW r \in Requests, OpenRow(r) \/ InsertRow(r)
    PROVE  HInv'
<1>0. Functional /\ RequestTold(r) /\ RequestOK(r) /\ Shaped
  BY DEF CInv, HInv
<1>1. /\ pc[r] \in {"open", "insert"} /\ pc'[r] \in {"insert", "window"}
      /\ \A q \in Requests \ {r} : pc'[q] = pc[q]
  BY <1>0 DEF OpenRow, InsertRow, Functional
<1>2. UNCHANGED <<setup, messages, summaries, ask, answer, raced>>
  BY DEF OpenRow, InsertRow, stored
<1>3. /\ {"recent", "total", "summary"} \subseteq DOMAIN seen'[r]
      /\ seen'[r].summary = seen[r].summary
      /\ \A q \in Requests \ {r} : seen'[q] = seen[q]
  BY <1>0 DEF OpenRow, InsertRow, Functional, Shaped
<1>4. /\ "summary" \in DOMAIN mine'[r]
      /\ mine'[r].summary = mine[r].summary /\ mine'[r].messages = mine[r].messages
      /\ \A q \in Requests \ {r} : mine'[q] = mine[q]
  BY <1>0 DEF OpenRow, InsertRow, Functional, Shaped, RequestOK, MineOK
<1>5. Apart(r) /\ Shaped'
  BY <1>0, <1>1, <1>2, <1>3, <1>4 DEF Apart, Shaped
<1>6. mine[r].messages = <<>> /\ DOMAIN mine[r].messages = {}
  BY <1>0, <1>1 DEF RequestOK, MineOK, NoMessage
<1>7. RequestTold(r)'
  BY <1>0, <1>1, <1>2, <1>3, <1>4, <1>6
  DEF RequestTold, NewestLast, SummaryTold, Prompted, TellsIn, SessionOf
<1> QED BY <1>1, <1>2, <1>5, <1>7, StepTold

\* A request that has written no message sees those that are there.
LEMMA SeesStored ==
    ASSUME CInv, NEW r \in Requests, pc[r] \in Running, NoMessage(r)
    PROVE  /\ SessionOf(r) \in Sessions
           /\ messages[SessionOf(r)] \in Seq(Turn)
           /\ Visible(r) = messages[SessionOf(r)]
<1>1. SessionOf(r) \in Sessions
  BY DEF CInv, RequestOK, AskOK
<1>2. messages[SessionOf(r)] \in Seq(Turn)
  BY <1>1 DEF CInv, Functional
<1>3. PICK turns : turns = messages[SessionOf(r)]
  OBVIOUS
<1>4. turns \o <<>> = turns
  BY <1>2, <1>3, ConcatEmptySeq
<1> QED BY <1>1, <1>2, <1>3, <1>4 DEF Visible, NoMessage

\* No message is there twice.
LEMMA MessagesDiffer ==
    ASSUME CInv, NEW s \in Sessions
    PROVE  \A i, j \in DOMAIN messages[s] : messages[s][i] = messages[s][j] => i = j
<1> SUFFICES ASSUME NEW i \in DOMAIN messages[s], NEW j \in DOMAIN messages[s],
                    messages[s][i] = messages[s][j], i # j
             PROVE  FALSE
  OBVIOUS
<1>1. messages[s] \in Seq(Turn)
  BY DEF CInv, Functional
<1>2. PICK m : m = messages[s][i]
  OBVIOUS
<1>3. m \in Turn
  BY <1>1, <1>2, Numbered
<1>4. m.case \in Cases /\ m.by \in Authors /\ m.role \in {"user", "assistant"}
  BY <1>3 DEF Turn
<1> DEFINE B == By(s, m.case, m.role, m.by)
<1>5. Cardinality(B) <= 1
  <2>1. PairedIn(s, m.case, m.by)
    BY <1>4 DEF CInv, StoredInv, PairsInv
  <2>2. /\ Cardinality(By(s, m.case, "user", m.by)) = Cardinality(By(s, m.case, "assistant", m.by))
        /\ Cardinality(By(s, m.case, "assistant", m.by)) <= 1
    BY <2>1 DEF PairedIn
  <2>3. CASE m.role = "user"
    BY <2>2, <2>3
  <2>4. CASE m.role = "assistant"
    BY <2>2, <2>4
  <2> QED BY <1>4, <2>3, <2>4
<1>6. i \in B /\ j \in B
  BY <1>2 DEF By, Transcript
<1>7. IsFiniteSet(B)
  <2>1. DOMAIN messages[s] = 1 .. Len(messages[s]) /\ Len(messages[s]) \in Nat
    BY <1>1, LenProperties
  <2>2. PICK n \in Nat : n = Len(messages[s])
    BY <2>1
  <2>3. IsFiniteSet(1 .. n)
    BY FS_Interval
  <2>4. B \subseteq 1 .. n
    BY <2>1, <2>2 DEF By, Transcript
  <2> QED BY <2>3, <2>4, FS_Subset
<1> HIDE DEF B
<1>8. IsFiniteSet({j}) /\ Cardinality({j}) = 1 /\ IsFiniteSet({i, j}) /\ Cardinality({i, j}) = 2
  <2>1. IsFiniteSet({j}) /\ Cardinality({j}) = 1
    BY FS_Singleton
  <2>2. {j} \cup {i} = {i, j} /\ i \notin {j}
    OBVIOUS
  <2>3. IsFiniteSet({j} \cup {i}) /\ Cardinality({j} \cup {i}) = Cardinality({j}) + 1
    BY <2>1, <2>2, FS_AddElement
  <2> QED BY <2>1, <2>2, <2>3
<1>9. Cardinality({i, j}) <= Cardinality(B)
  BY <1>6, <1>7, FS_Subset
<1>10. Cardinality(B) \in Nat
  BY <1>7, FS_CardinalityType
<1> QED BY <1>5, <1>8, <1>9, <1>10

\* The latest messages are read, and counted.
LEMMA ReadWindowTold == ASSUME CInv, HInv, NEW r \in Requests, ReadWindow(r) PROVE HInv'
<1>0. Functional /\ RequestTold(r) /\ RequestOK(r) /\ Shaped /\ pc[r] = "window"
  BY DEF CInv, HInv, ReadWindow
<1>1. /\ pc' = [pc EXCEPT ![r] = IF setup.backend = "memory" THEN "generate" ELSE "count"]
      /\ UNCHANGED <<setup, messages, summaries, ask, mine, answer, raced>>
  BY DEF ReadWindow, stored
<1>2. /\ pc'[r] \in {"generate", "count"} /\ \A q \in Requests \ {r} : pc'[q] = pc[q]
      /\ setup.backend = "database" => pc'[r] = "count"
  BY <1>0, <1>1 DEF Functional
<1> DEFINE new == IF setup.backend = "memory" THEN LastOf(chat[ask[r].case], Window)
                  ELSE LastOf(InOrder(Visible(r)), Window)
<1>3. seen' = [seen EXCEPT ![r].recent = new]
  BY DEF ReadWindow
<1> HIDE DEF new
<1>4. /\ {"recent", "total", "summary"} \subseteq DOMAIN seen'[r]
      /\ seen'[r].summary = seen[r].summary /\ seen'[r].recent = new
      /\ \A q \in Requests \ {r} : seen'[q] = seen[q]
  BY <1>0, <1>3 DEF Functional, Shaped
<1>5. Apart(r) /\ Shaped'
  BY <1>0, <1>1, <1>2, <1>4 DEF Apart, Shaped
<1>6. NoMessage(r) /\ DOMAIN mine[r].messages = {}
  BY <1>0 DEF RequestOK, MineOK, NoMessage
<1>7. ASSUME Unraced(r), setup.backend = "database"
      PROVE  new = LastOf(messages[SessionOf(r)], Window)
  <2>1. PICK turns : turns = messages[SessionOf(r)]
    OBVIOUS
  <2>2. SessionOf(r) \in Sessions /\ turns \in Seq(Turn) /\ Visible(r) = turns
    BY <1>0, <1>6, <2>1, SeesStored
  <2>3. \A i, j \in DOMAIN turns : i < j => turns[i].index < turns[j].index
    BY <1>7, <2>1, <2>2 DEF HInv, SessionTold, Rising, Unraced
  <2>4. InOrder(turns) = turns
    BY <2>2, <2>3, InOrderAlready
  <2> QED BY <1>7, <2>1, <2>2, <2>4 DEF new
<1>8. RequestTold(r)'
  BY <1>0, <1>1, <1>2, <1>4, <1>6, <1>7
  DEF RequestTold, NewestLast, SummaryTold, Prompted, TellsIn, SessionOf, Unraced
<1> QED BY <1>0, <1>1, <1>2, <1>5, <1>8, StepTold

\* The messages are counted.
LEMMA CountTurnsTold == ASSUME CInv, HInv, NEW r \in Requests, CountTurns(r) PROVE HInv'
<1>0. Functional /\ RequestTold(r) /\ RequestOK(r) /\ Shaped /\ pc[r] = "count"
  BY DEF CInv, HInv, CountTurns
<1>1. /\ pc' = [pc EXCEPT ![r] = IF Len(Visible(r)) > Trigger THEN "summarise" ELSE "generate"]
      /\ seen' = [seen EXCEPT ![r].total = Len(Visible(r))]
      /\ UNCHANGED <<setup, messages, summaries, ask, mine, answer, raced>>
  BY DEF CountTurns, stored
<1>2. pc'[r] \in {"summarise", "generate"} /\ \A q \in Requests \ {r} : pc'[q] = pc[q]
  BY <1>0, <1>1 DEF Functional
<1>3. /\ {"recent", "total", "summary"} \subseteq DOMAIN seen'[r]
      /\ seen'[r].summary = seen[r].summary /\ seen'[r].recent = seen[r].recent
      /\ seen'[r].total = Len(Visible(r))
      /\ \A q \in Requests \ {r} : seen'[q] = seen[q]
  BY <1>0, <1>1 DEF Functional, Shaped
<1>4. Apart(r) /\ Shaped'
  BY <1>0, <1>1, <1>2, <1>3 DEF Apart, Shaped
<1>5. NoMessage(r) /\ DOMAIN mine[r].messages = {}
  BY <1>0 DEF RequestOK, MineOK, NoMessage
<1>6. Len(Visible(r)) \in Nat
  BY <1>0, <1>5, SeesStored, LenProperties
<1>7. RequestTold(r)'
  BY <1>0, <1>1, <1>2, <1>3, <1>5, <1>6
  DEF RequestTold, NewestLast, SummaryTold, Prompted, TellsIn, SessionOf, Unraced
<1> QED BY <1>0, <1>1, <1>2, <1>4, <1>7, StepTold

\* The older messages are summarised.
LEMMA SummariseTold == ASSUME CInv, HInv, NEW r \in Requests, Summarise(r) PROVE HInv'
<1>0. Functional /\ RequestTold(r) /\ RequestOK(r) /\ Shaped /\ pc[r] = "summarise"
  BY DEF CInv, HInv, Summarise
<1>1. PICK s : s = SessionOf(r)
  OBVIOUS
<1>2. PICK turns : turns = messages[s]
  OBVIOUS
<1>3. PICK existing : existing = IF summaries[s] = None THEN NoSummary ELSE summaries[s]
  OBVIOUS
<1>4. PICK cutoff : cutoff = seen[r].total - 1 - Keep
  OBVIOUS
<1>5. PICK combined : combined = Summarized(turns, existing, cutoff)
  OBVIOUS
<1>6. NoMessage(r) /\ DOMAIN mine[r].messages = {}
  BY <1>0 DEF RequestOK, MineOK, NoMessage
<1>7. s \in Sessions /\ turns \in Seq(Turn) /\ Visible(r) = turns
  BY <1>0, <1>1, <1>2, <1>6, SeesStored
<1>8. /\ seen' = [seen EXCEPT ![r].summary = combined]
      /\ pc' = [pc EXCEPT ![r] = IF combined = existing THEN "generate" ELSE "upsert"]
      /\ UNCHANGED <<setup, messages, summaries, ask, mine, answer, raced>>
  BY <1>1, <1>3, <1>4, <1>5, <1>7 DEF Summarise, stored
<1>9. Tells(combined, turns, s, raced)
  <2>1. Tells(existing, turns, s, raced)
    <3>1. CASE summaries[s] = None
      BY <1>3, <1>7, <3>1, EmptySummaryTells
    <3>2. CASE summaries[s] # None
      BY <1>2, <1>3, <1>7, <3>2 DEF HInv, SessionTold, TellsIn
    <3> QED BY <3>1, <3>2
  <2>2. \A i, j \in DOMAIN turns : turns[i] = turns[j] => i = j
    BY <1>2, <1>7, MessagesDiffer
  <2>3. cutoff \in Int
    BY <1>0, <1>4, HistoryAssumption DEF RequestTold, SummaryTold
  <2>4. PICK races : races = raced
    OBVIOUS
  <2>5. Tells(Summarized(turns, existing, cutoff), turns, s, races)
    BY <1>7, <2>1, <2>2, <2>3, <2>4, SummarizedTells
  <2> QED BY <1>5, <2>4, <2>5
<1>10. pc'[r] \in {"generate", "upsert"} /\ \A q \in Requests \ {r} : pc'[q] = pc[q]
  BY <1>0, <1>8 DEF Functional
<1>11. /\ {"recent", "total", "summary"} \subseteq DOMAIN seen'[r]
       /\ seen'[r].summary = combined /\ seen'[r].recent = seen[r].recent
       /\ \A q \in Requests \ {r} : seen'[q] = seen[q]
  BY <1>0, <1>8 DEF Functional, Shaped
<1>12. Apart(r) /\ Shaped'
  BY <1>0, <1>8, <1>10, <1>11 DEF Apart, Shaped
<1>13. RequestTold(r)'
  BY <1>0, <1>1, <1>2, <1>6, <1>8, <1>9, <1>10, <1>11
  DEF RequestTold, NewestLast, SummaryTold, Prompted, TellsIn, SessionOf, Unraced
<1> QED BY <1>0, <1>8, <1>10, <1>12, <1>13, StepTold

\* The summary is written.
LEMMA UpsertTold == ASSUME CInv, HInv, NEW r \in Requests, Upsert(r) PROVE HInv'
<1>0. Functional /\ RequestTold(r) /\ RequestOK(r) /\ Shaped /\ pc[r] = "upsert"
  BY DEF CInv, HInv, Upsert
<1>1. /\ mine' = [mine EXCEPT ![r].summary = seen[r].summary]
      /\ pc' = [pc EXCEPT ![r] = "generate"]
      /\ UNCHANGED <<setup, messages, summaries, ask, seen, answer, raced>>
  BY DEF Upsert, stored
<1>2. pc'[r] = "generate" /\ \A q \in Requests \ {r} : pc'[q] = pc[q]
  BY <1>0, <1>1 DEF Functional
<1>3. /\ "summary" \in DOMAIN mine'[r]
      /\ mine'[r].summary = seen[r].summary /\ mine'[r].messages = mine[r].messages
      /\ \A q \in Requests \ {r} : mine'[q] = mine[q]
  BY <1>0, <1>1 DEF Functional, Shaped, RequestOK, MineOK
<1>4. Apart(r) /\ Shaped'
  BY <1>0, <1>1, <1>2, <1>3 DEF Apart, Shaped
<1>5. NoMessage(r) /\ DOMAIN mine[r].messages = {}
  BY <1>0 DEF RequestOK, MineOK, NoMessage
<1>6. RequestTold(r)'
  BY <1>0, <1>1, <1>2, <1>3, <1>5
  DEF RequestTold, NewestLast, SummaryTold, Prompted, TellsIn, SessionOf, Unraced
<1> QED BY <1>0, <1>1, <1>2, <1>4, <1>6, StepTold

\* A prompt is made of what was read, and answered.
LEMMA GenerateTold == ASSUME CInv, HInv, NEW r \in Requests, Generate(r) PROVE HInv'
<1>0. Functional /\ RequestTold(r) /\ RequestOK(r) /\ Shaped /\ pc[r] = "generate"
  BY DEF CInv, HInv, Generate
<1>1. /\ pc' = [pc EXCEPT ![r] = IF setup.backend = "memory" THEN "answer" ELSE "number"]
      /\ UNCHANGED <<setup, messages, summaries, ask, seen, mine, raced>>
  BY DEF Generate, stored
<1>2. pc'[r] \in {"answer", "number"} /\ \A q \in Requests \ {r} : pc'[q] = pc[q]
  BY <1>0, <1>1 DEF Functional
<1> DEFINE history == BoundedHistory(seen[r].summary, seen[r].recent)
<1>3. PICK a : answer' = [answer EXCEPT ![r] = [history |-> history, reply |-> a]]
  BY DEF Generate
<1>4. answer'[r].history = history
  <2>1. answer'[r] = [history |-> history, reply |-> a]
    BY <1>0, <1>3 DEF Shaped
  <2> HIDE DEF history
  <2> QED BY <2>1
<1>5. DOMAIN answer' = Requests /\ \A q \in Requests \ {r} : answer'[q] = answer[q]
  BY <1>0, <1>3 DEF Shaped
<1>6. Apart(r) /\ Shaped'
  BY <1>0, <1>1, <1>2, <1>5 DEF Apart, Shaped
<1>7. NoMessage(r) /\ DOMAIN mine[r].messages = {}
  BY <1>0 DEF RequestOK, MineOK, NoMessage
<1>8. ASSUME Unraced(r), setup.backend = "database", messages[SessionOf(r)] # <<>>
      PROVE  history.turns # <<>> /\ IsSuffix(history.turns, messages[SessionOf(r)])
  <2>1. PICK turns : turns = messages[SessionOf(r)]
    OBVIOUS
  <2>2. turns \in Seq(Turn) /\ turns # <<>>
    BY <1>0, <1>7, <1>8, <2>1, SeesStored
  <2>3. seen[r].recent = LastOf(turns, Window)
    BY <1>0, <1>8, <2>1 DEF RequestTold, Prompted
  <2>4. PICK u : u = seen[r].summary
    OBVIOUS
  <2> DEFINE told == IF u = None THEN <<>> ELSE u.told
  <2>5. Len(told) \in Nat
    <3>1. CASE u = None
      BY <3>1
    <3>2. CASE u # None
      <4>1. u.told \in Seq(UpTo(turns, u.covers))
        BY <1>0, <2>1, <2>4, <3>2 DEF RequestTold, SummaryTold, TellsIn, Tells
      <4> QED BY <3>2, <4>1, LenProperties
    <3> QED BY <3>1, <3>2
  <2> HIDE DEF told
  <2>6. PICK left \in Nat \ {0} : left = Max({1, MaxTokens - Len(told)})
    <3> DEFINE M == {1, MaxTokens - Len(told)}
    <3>1. \A y \in M : y \in Int
      BY <2>5, HistoryAssumption
    <3>2. \E x \in M : \A y \in M : x >= y
      <4>1. CASE MaxTokens - Len(told) >= 1
        BY <3>1, <4>1
      <4>2. CASE ~ (MaxTokens - Len(told) >= 1)
        BY <3>1, <4>2
      <4> QED BY <4>1, <4>2
    <3>3. 1 \in M
      OBVIOUS
    <3> HIDE DEF M
    <3>4. Max(M) \in M /\ \A y \in M : Max(M) >= y
      BY <3>2 DEF Max
    <3>5. Max(M) \in Int /\ Max(M) >= 1
      BY <3>1, <3>3, <3>4
    <3> QED BY <3>5 DEF M
  <2>7. history.turns = LastOf(LastOf(turns, Window), left)
    BY <2>3, <2>4, <2>6 DEF BoundedHistory, told
  <2> HIDE DEF history
  <2> QED BY <2>1, <2>2, <2>6, <2>7, LatestOfLatest, HistoryAssumption
<1> HIDE DEF history
<1>9. RequestTold(r)'
  BY <1>0, <1>1, <1>2, <1>4, <1>7, <1>8
  DEF RequestTold, NewestLast, SummaryTold, Prompted, TellsIn, SessionOf, Unraced
<1> QED BY <1>0, <1>1, <1>2, <1>6, <1>9, StepTold

\* The process remembers the exchange.
LEMMA RememberTold == ASSUME CInv, HInv, NEW r \in Requests, Remember(r) PROVE HInv'
<1>0. /\ Functional /\ RequestTold(r) /\ RequestOK(r) /\ Shaped
      /\ pc[r] = "answer" /\ setup.backend = "memory"
  BY DEF CInv, HInv, Remember
<1>1. /\ pc' = [pc EXCEPT ![r] = "commit"]
      /\ UNCHANGED <<setup, messages, summaries, ask, seen, mine, answer, raced>>
  BY DEF Remember, stored
<1>2. pc'[r] = "commit" /\ \A q \in Requests \ {r} : pc'[q] = pc[q]
  BY <1>0, <1>1 DEF Functional
<1>3. Apart(r) /\ Shaped'
  BY <1>0, <1>1, <1>2 DEF Apart, Shaped
<1>4. NoMessage(r) /\ DOMAIN mine[r].messages = {}
  BY <1>0 DEF RequestOK, MineOK, NoMessage
<1>5. RequestTold(r)'
  BY <1>0, <1>1, <1>2, <1>4
  DEF RequestTold, NewestLast, SummaryTold, Prompted, TellsIn, SessionOf, Unraced
<1> QED BY <1>0, <1>1, <1>2, <1>3, <1>5, StepTold

\* The number of the question is read.
LEMMA ReadIndexTold == ASSUME CInv, HInv, NEW r \in Requests, ReadIndex(r) PROVE HInv'
<1>0. Functional /\ RequestTold(r) /\ RequestOK(r) /\ Shaped /\ pc[r] = "number"
  BY DEF CInv, HInv, ReadIndex
<1> DEFINE n == NextIndex(Visible(r))
<1>1. /\ pc' = [pc EXCEPT ![r] = "question"]
      /\ seen' = [seen EXCEPT ![r].index = n]
      /\ UNCHANGED <<setup, messages, summaries, ask, mine, answer, raced>>
  BY DEF ReadIndex, stored
<1>2. NoMessage(r) /\ DOMAIN mine[r].messages = {}
  BY <1>0 DEF RequestOK, MineOK, NoMessage
<1>3. \A i \in DOMAIN messages[SessionOf(r)] : messages[SessionOf(r)][i].index < n
  <2>1. PICK turns : turns = messages[SessionOf(r)]
    OBVIOUS
  <2>2. turns \in Seq(Turn) /\ Visible(r) = turns
    BY <1>0, <1>2, <2>1, SeesStored
  <2>3. \A i \in 1 .. Len(turns) : turns[i].index < n
    BY <2>2, NextNumber
  <2>4. DOMAIN turns = 1 .. Len(turns)
    BY <2>2, Numbered
  <2> QED BY <2>1, <2>3, <2>4
<1> HIDE DEF n
<1>4. pc'[r] = "question" /\ \A q \in Requests \ {r} : pc'[q] = pc[q]
  BY <1>0, <1>1 DEF Functional
<1>5. /\ {"recent", "total", "summary"} \subseteq DOMAIN seen'[r]
      /\ seen'[r].summary = seen[r].summary /\ seen'[r].recent = seen[r].recent
      /\ seen'[r].index = n
      /\ \A q \in Requests \ {r} : seen'[q] = seen[q]
  BY <1>0, <1>1 DEF Functional, Shaped, RequestOK, SeenOK
<1>6. Apart(r) /\ Shaped'
  BY <1>0, <1>1, <1>4, <1>5 DEF Apart, Shaped
<1>7. RequestTold(r)'
  BY <1>0, <1>1, <1>2, <1>3, <1>4, <1>5
  DEF RequestTold, NewestLast, SummaryTold, Prompted, TellsIn, SessionOf, Unraced
<1> QED BY <1>0, <1>1, <1>4, <1>6, <1>7, StepTold

\* Whatever a request writes of its exchange has a number above what is there.
LEMMA WriteTold ==
    ASSUME CInv, HInv, NEW r \in Requests, pc[r] \in Answering,
           pc'[r] \in {"answer", "turns"}, \A q \in Requests \ {r} : pc'[q] = pc[q],
           "summary" \in DOMAIN mine'[r], mine'[r].summary = mine[r].summary,
           \A q \in Requests \ {r} : mine'[q] = mine[q],
           UNCHANGED <<setup, messages, summaries, ask, seen, answer, raced>>,
           Unraced(r) => \A i \in DOMAIN messages[SessionOf(r)], j \in DOMAIN mine'[r].messages :
                            messages[SessionOf(r)][i].index < mine'[r].messages[j].index
    PROVE  HInv'
<1>0. Functional /\ RequestTold(r) /\ RequestOK(r) /\ Shaped
  BY DEF CInv, HInv
<1>1. Apart(r) /\ Shaped'
  BY <1>0 DEF Apart, Shaped
<1>2. Unraced(r)' => Unraced(r)
  BY DEF Unraced, SessionOf
<1>3. NewestLast(r)'
  BY <1>2 DEF NewestLast, SessionOf
<1>4. SummaryTold(r)'
  BY <1>0 DEF RequestTold, SummaryTold, TellsIn, SessionOf
<1>5. Prompted(r)'
  BY <1>0, <1>2 DEF RequestTold, Prompted, SessionOf
<1>6. RequestTold(r)'
  BY <1>3, <1>4, <1>5 DEF RequestTold
<1> QED BY <1>1, <1>6, StepTold

\* The question is inserted.
LEMMA AppendQuestionTold ==
    ASSUME CInv, HInv, NEW r \in Requests, AppendQuestion(r) PROVE HInv'
<1>0. /\ RequestTold(r) /\ RequestOK(r) /\ pc[r] = "question"
      /\ pc' = [pc EXCEPT ![r] = "answer"]
      /\ UNCHANGED <<setup, messages, summaries, ask, seen, answer, raced>>
  BY DEF CInv, HInv, AppendQuestion, stored
<1> DEFINE written == Append(mine[r].messages, Question(r, seen[r].index))
<1>1. mine' = [mine EXCEPT ![r].messages = written]
  BY DEF AppendQuestion, Question, CInv, Functional, RequestOK, MineOK
<1>2. DOMAIN written = {1} /\ written[1].index = seen[r].index
  <2>1. mine[r].messages = <<>>
    BY <1>0 DEF RequestOK, MineOK, NoMessage
  <2>2. PICK m : m = Question(r, seen[r].index)
    OBVIOUS
  <2>3. m.index = seen[r].index
    BY <2>2 DEF Question, Message
  <2>4. written = <<m>>
    BY <2>1, <2>2
  <2> HIDE DEF written
  <2> QED BY <2>3, <2>4
<1> HIDE DEF written
<1>3. Unraced(r) => \A i \in DOMAIN messages[SessionOf(r)] :
         messages[SessionOf(r)][i].index < seen[r].index
  BY <1>0 DEF RequestTold, NewestLast
<1>4. Unraced(r) => \A i \in DOMAIN messages[SessionOf(r)] : \A j \in DOMAIN written :
         messages[SessionOf(r)][i].index < written[j].index
  BY <1>2, <1>3
<1>5. /\ pc'[r] = "answer" /\ \A q \in Requests \ {r} : pc'[q] = pc[q]
      /\ "summary" \in DOMAIN mine'[r]
      /\ mine'[r].summary = mine[r].summary /\ mine'[r].messages = written
      /\ \A q \in Requests \ {r} : mine'[q] = mine[q]
  BY <1>0, <1>1 DEF CInv, HInv, Functional, Shaped, RequestOK, MineOK
<1>6. Unraced(r) => \A i \in DOMAIN messages[SessionOf(r)], j \in DOMAIN mine'[r].messages :
                       messages[SessionOf(r)][i].index < mine'[r].messages[j].index
  BY <1>4, <1>5
<1> QED BY <1>0, <1>5, <1>6, WriteTold

\* The answer is inserted.
LEMMA AppendAnswerTold ==
    ASSUME CInv, HInv, NEW r \in Requests, AppendAnswer(r) PROVE HInv'
<1> DEFINE k == NextIndex(Visible(r))
           written == Append(mine[r].messages, Reply(r, k))
<1>0. /\ Functional /\ RequestTold(r) /\ RequestOK(r)
      /\ pc[r] = "answer" /\ setup.backend = "database"
      /\ pc' = [pc EXCEPT ![r] = "turns"]
      /\ UNCHANGED <<setup, messages, summaries, ask, seen, answer, raced>>
  BY DEF CInv, HInv, AppendAnswer, stored
<1>1. mine' = [mine EXCEPT ![r].messages = written]
  BY <1>0 DEF AppendAnswer, Reply, Functional, RequestOK, MineOK
<1>2. PICK n \in Nat : mine[r].messages = <<Question(r, n)>>
  BY <1>0 DEF RequestOK, MineOK, Asked
<1>3. PICK q : q = Question(r, n)
  OBVIOUS
<1>4. PICK t : t = messages[SessionOf(r)]
  OBVIOUS
<1>5. t \in Seq(Turn) /\ q \in Turn
  BY <1>0, <1>3, <1>4, ExchangeTyped DEF Functional, RequestOK, AskOK
<1>6. Visible(r) = t \o <<q>>
  BY <1>2, <1>3, <1>4 DEF Visible
<1>7. t \o <<q>> \in Seq(Turn) /\ \A i \in DOMAIN t :
         i \in 1 .. Len(t \o <<q>>) /\ (t \o <<q>>)[i] = t[i]
  <2>1. <<q>> \in Seq(Turn) /\ Len(<<q>>) = 1
    BY <1>5
  <2>2. Len(t) \in Nat /\ DOMAIN t = 1 .. Len(t)
    BY <1>5, LenProperties
  <2> QED BY <1>5, <2>1, <2>2, ConcatProperties
<1>8. \A i \in DOMAIN t : t[i].index < k
  BY <1>6, <1>7, NextNumber
<1> HIDE DEF k
<1>9. DOMAIN written = 1 .. 2 /\ written[1].index = n /\ written[2].index = k
  <2>1. PICK a : a = Reply(r, k)
    OBVIOUS
  <2>2. a.index = k /\ q.index = n
    BY <1>3, <2>1 DEF Reply, Question, Message
  <2>3. written = Append(<<q>>, a)
    BY <1>2, <1>3, <2>1
  <2> HIDE DEF written
  <2>4. /\ Len(Append(<<q>>, a)) = 2 /\ DOMAIN Append(<<q>>, a) = 1 .. 2
        /\ Append(<<q>>, a)[1] = q /\ Append(<<q>>, a)[2] = a
    <3>1. <<q>> \in Seq({q, a}) /\ Len(<<q>>) = 1 /\ <<q>>[1] = q
      OBVIOUS
    <3> QED BY <3>1, AppendProperties, LenProperties
  <2> QED BY <2>2, <2>3, <2>4
<1> HIDE DEF written
<1>10. ASSUME Unraced(r)
       PROVE  \A i \in DOMAIN messages[SessionOf(r)] : \A j \in DOMAIN written :
                 messages[SessionOf(r)][i].index < written[j].index
  <2>1. \A i \in DOMAIN t : t[i].index < n
    <3>1. \A i \in DOMAIN t : \A j \in DOMAIN mine[r].messages :
             t[i].index < mine[r].messages[j].index
      BY <1>0, <1>4, <1>10 DEF RequestTold, NewestLast
    <3>2. 1 \in DOMAIN mine[r].messages /\ mine[r].messages[1] = q
      BY <1>2, <1>3
    <3>3. q.index = n
      BY <1>3 DEF Question, Message
    <3> QED BY <3>1, <3>2, <3>3
  <2>2. \A j \in DOMAIN written : j = 1 \/ j = 2
    BY <1>9
  <2> QED BY <1>4, <1>8, <1>9, <2>1, <2>2
<1>11. /\ pc'[r] = "turns" /\ \A o \in Requests \ {r} : pc'[o] = pc[o]
       /\ "summary" \in DOMAIN mine'[r]
       /\ mine'[r].summary = mine[r].summary /\ mine'[r].messages = written
       /\ \A o \in Requests \ {r} : mine'[o] = mine[o]
  BY <1>0, <1>1 DEF HInv, Functional, Shaped, RequestOK, MineOK
<1>12. Unraced(r) => \A i \in DOMAIN messages[SessionOf(r)], j \in DOMAIN mine'[r].messages :
                        messages[SessionOf(r)][i].index < mine'[r].messages[j].index
  BY <1>10, <1>11
<1> QED BY <1>0, <1>11, <1>12, WriteTold

\* What the row counts is read again.
LEMMA ReadTurnsTold == ASSUME CInv, HInv, NEW r \in Requests, ReadTurns(r) PROVE HInv'
<1>0. /\ Functional /\ RequestTold(r) /\ RequestOK(r) /\ Shaped /\ pc[r] = "turns"
      /\ pc' = [pc EXCEPT ![r] = "touch"]
      /\ UNCHANGED <<setup, messages, summaries, ask, mine, answer, raced>>
  BY DEF CInv, HInv, ReadTurns, stored
<1>1. \E n : seen' = [seen EXCEPT ![r].turns = n]
  BY DEF ReadTurns
<1>2. pc'[r] = "touch" /\ \A q \in Requests \ {r} : pc'[q] = pc[q]
  BY <1>0 DEF Functional
<1>3. /\ DOMAIN seen'[r] = DOMAIN seen[r]
      /\ {"recent", "total", "summary"} \subseteq DOMAIN seen'[r]
      /\ seen'[r].summary = seen[r].summary
      /\ \A q \in Requests \ {r} : seen'[q] = seen[q]
  BY <1>0, <1>1 DEF Functional, Shaped
<1>4. Apart(r) /\ Shaped'
  BY <1>0, <1>2, <1>3 DEF Apart, Shaped
<1>5. RequestTold(r)'
  BY <1>0, <1>2, <1>3
  DEF RequestTold, NewestLast, SummaryTold, Prompted, TellsIn, SessionOf, Unraced
<1> QED BY <1>0, <1>2, <1>4, <1>5, StepTold

\* The turn is counted.
LEMMA TouchTold == ASSUME CInv, HInv, NEW r \in Requests, Touch(r) PROVE HInv'
<1>0. /\ Functional /\ RequestTold(r) /\ RequestOK(r) /\ Shaped /\ pc[r] = "touch"
      /\ pc' = [pc EXCEPT ![r] = "commit"]
      /\ UNCHANGED <<setup, messages, summaries, ask, seen, answer, raced>>
  BY DEF CInv, HInv, Touch, stored
<1>1. \E touched : mine' = [mine EXCEPT ![r].row = touched]
  BY DEF Touch
<1>2. pc'[r] = "commit" /\ \A q \in Requests \ {r} : pc'[q] = pc[q]
  BY <1>0 DEF Functional
<1>3. /\ "summary" \in DOMAIN mine'[r]
      /\ mine'[r].summary = mine[r].summary /\ mine'[r].messages = mine[r].messages
      /\ \A q \in Requests \ {r} : mine'[q] = mine[q]
  BY <1>0, <1>1 DEF Functional, Shaped, RequestOK, MineOK
<1>4. Apart(r) /\ Shaped'
  BY <1>0, <1>2, <1>3 DEF Apart, Shaped
<1>5. RequestTold(r)'
  BY <1>0, <1>2, <1>3
  DEF RequestTold, NewestLast, SummaryTold, Prompted, TellsIn, SessionOf, Unraced
<1> QED BY <1>0, <1>2, <1>4, <1>5, StepTold

\* An exchange is written in the order of its numbers, if it is written.
LEMMA ExchangeRising ==
    ASSUME CInv, NEW r \in Requests, pc[r] = "commit"
    PROVE  mine[r].messages \in Seq(Turn) /\ Rising(mine[r].messages)
<1>0. RequestOK(r) /\ ask[r].case \in Cases
  BY DEF CInv, RequestOK, AskOK
<1>1. CASE setup.backend = "memory"
  <2>1. mine[r].messages = <<>>
    BY <1>0, <1>1 DEF RequestOK, MineOK, NoMessage
  <2>2. <<>> \in Seq(Turn) /\ DOMAIN <<>> = {}
    OBVIOUS
  <2> QED BY <2>1, <2>2 DEF Rising
<1>2. CASE setup.backend # "memory"
  <2>1. PICK n, k \in Nat : n < k /\ mine[r].messages = <<Question(r, n), Reply(r, k)>>
    BY <1>0, <1>2 DEF RequestOK, MineOK, Exchange
  <2>2. PICK q : q = Question(r, n)
    OBVIOUS
  <2>3. PICK a : a = Reply(r, k)
    OBVIOUS
  <2>4. q \in Turn /\ a \in Turn /\ q.index = n /\ a.index = k
    <3>1. q.index = n /\ a.index = k
      BY <2>2, <2>3 DEF Question, Reply, Message
    <3> QED BY <1>0, <2>2, <2>3, <3>1, ExchangeTyped
  <2>5. /\ <<q, a>> \in Seq(Turn) /\ DOMAIN <<q, a>> = 1 .. 2
        /\ <<q, a>>[1] = q /\ <<q, a>>[2] = a
    BY <2>4
  <2>6. \A i, j \in 1 .. 2 : i < j => i = 1 /\ j = 2
    OBVIOUS
  <2> QED BY <2>1, <2>2, <2>3, <2>4, <2>5, <2>6 DEF Rising
<1> QED BY <1>1, <1>2

\* Rising numbers with higher ones behind them, which rise, rise.
LEMMA RisingOn ==
    ASSUME NEW t \in Seq(Turn), NEW new \in Seq(Turn), Rising(t), Rising(new),
           \A i \in DOMAIN t, j \in DOMAIN new : t[i].index < new[j].index
    PROVE  Rising(t \o new)
<1> DEFINE w == t \o new
           n == Len(t)
<1>1. /\ w \in Seq(Turn) /\ Len(w) = n + Len(new)
      /\ \A i \in 1 .. Len(w) : w[i] = IF i <= n THEN t[i] ELSE new[i - n]
  BY ConcatProperties
<1>2. /\ n \in Nat /\ DOMAIN t = 1 .. n
      /\ Len(new) \in Nat /\ DOMAIN new = 1 .. Len(new)
      /\ DOMAIN w = 1 .. Len(w)
  BY <1>1, Numbered
<1> HIDE DEF w, n
<1>3. \A i \in DOMAIN w : IF i <= n THEN i \in DOMAIN t /\ w[i] = t[i]
                          ELSE i - n \in DOMAIN new /\ w[i] = new[i - n]
  BY <1>1, <1>2
<1>4. ASSUME NEW i \in DOMAIN w, NEW j \in DOMAIN w, i < j PROVE w[i].index < w[j].index
  <2>1. i \in Int /\ j \in Int
    BY <1>1, <1>2
  <2>2. CASE j <= n
    BY <1>2, <1>3, <1>4, <2>1, <2>2 DEF Rising
  <2>3. CASE i <= n /\ ~ (j <= n)
    BY <1>3, <2>3
  <2>4. CASE ~ (i <= n)
    <3> DEFINE k == i - n
               l == j - n
    <3>1. ~ (j <= n) /\ k < l
      BY <1>2, <1>4, <2>1, <2>4
    <3>2. k \in DOMAIN new /\ w[i] = new[k] /\ l \in DOMAIN new /\ w[j] = new[l]
      BY <1>3, <2>4, <3>1
    <3> HIDE DEF k, l
    <3> QED BY <3>1, <3>2 DEF Rising
  <2> QED BY <1>2, <2>1, <2>2, <2>3, <2>4
<1> QED BY <1>4 DEF Rising, w

\* A request commits.
LEMMA CommitTold == ASSUME CInv, HInv, NEW r \in Requests, Commit(r) PROVE HInv'
<1>0. Functional /\ RequestTold(r) /\ RequestOK(r) /\ Shaped /\ pc[r] = "commit"
  BY DEF CInv, HInv, Commit
<1>1. PICK s : s = SessionOf(r)
  OBVIOUS
<1>2. PICK new : new = mine[r].messages
  OBVIOUS
<1>3. PICK told : told = IF mine[r].summary = None THEN summaries[s] ELSE mine[r].summary
  OBVIOUS
<1>4. /\ messages' = [messages EXCEPT ![s] = @ \o new]
      /\ summaries' = [summaries EXCEPT ![s] = told]
      /\ pc' = [pc EXCEPT ![r] = "answered"]
      /\ ask' = [ask EXCEPT ![r] = [Unasked EXCEPT !.session = SessionOf(r)]]
      /\ seen' = [seen EXCEPT ![r] = Unseen]
      /\ mine' = [mine EXCEPT ![r] = Unwritten]
      /\ answer' = [answer EXCEPT ![r] = None]
      /\ UNCHANGED <<setup, raced>>
  BY <1>1, <1>2, <1>3 DEF Commit, Forget
<1>5. s \in Sessions /\ \A z \in Sessions : messages[z] \in Seq(Turn)
  BY <1>0, <1>1 DEF RequestOK, AskOK, Functional
<1>6. /\ messages'[s] = messages[s] \o new /\ summaries'[s] = told
      /\ \A z \in Sessions \ {s} : messages'[z] = messages[z] /\ summaries'[z] = summaries[z]
      /\ DOMAIN summaries' = Sessions
  BY <1>0, <1>4, <1>5 DEF Functional, Shaped
<1>7. /\ pc'[r] = "answered" /\ answer'[r] = None
      /\ \A q \in Requests \ {r} :
           /\ pc'[q] = pc[q] /\ ask'[q] = ask[q] /\ seen'[q] = seen[q]
           /\ mine'[q] = mine[q] /\ answer'[q] = answer[q]
  BY <1>0, <1>4 DEF Functional, Shaped
<1>8. new \in Seq(Turn) /\ Rising(new)
  BY <1>0, <1>2, ExchangeRising
<1>9. s \notin raced => \A i \in DOMAIN messages[s], j \in DOMAIN new :
                           messages[s][i].index < new[j].index
  BY <1>0, <1>1, <1>2 DEF RequestTold, NewestLast, Unraced
\* What tells a session tells it still.
<1>10. \A u : \A z \in Sessions : TellsIn(u, z) => Tells(u, messages'[z], z, raced')
  <2> TAKE u
  <2> TAKE z \in Sessions
  <2>1. CASE z # s
    BY <1>4, <1>6, <2>1 DEF TellsIn
  <2>2. CASE z = s
    <3>1. PICK t \in Seq(Turn) : t = messages[s]
      BY <1>5
    <3>2. PICK races : races = raced
      OBVIOUS
    <3>3. Tells(u, t, s, races) => Tells(u, t \o new, s, races)
      BY <1>8, <1>9, <3>1, <3>2, TellsOfMore
    <3> QED BY <1>4, <1>6, <2>2, <3>1, <3>2, <3>3 DEF TellsIn
  <2> QED BY <2>1, <2>2
<1>11. ASSUME NEW z \in Sessions PROVE SessionTold(z)'
  <2>1. SessionTold(z)
    BY DEF HInv
  <2>2. z \notin raced => Rising(messages'[z])
    <3>1. CASE z # s
      BY <1>6, <2>1, <3>1 DEF SessionTold
    <3>2. CASE z = s
      <4> PICK t \in Seq(Turn) : t = messages[s]
        BY <1>5
      <4>1. s \notin raced => Rising(t \o new)
        BY <1>8, <1>9, <2>1, <3>2, RisingOn DEF SessionTold
      <4> QED BY <1>6, <3>2, <4>1
    <3> QED BY <3>1, <3>2
  <2>3. PICK u : u = summaries'[z]
    OBVIOUS
  <2>4. u = None \/ TellsIn(u, z)
    <3>1. CASE z # s
      BY <1>6, <2>1, <2>3, <3>1 DEF SessionTold
    <3>2. CASE z = s
      <4>1. mine[r].summary = None \/ TellsIn(mine[r].summary, s)
        BY <1>0, <1>1 DEF RequestTold, SummaryTold
      <4> QED BY <1>3, <1>6, <2>1, <2>3, <3>2, <4>1 DEF SessionTold
    <3> QED BY <3>1, <3>2
  <2>5. u = None \/ Tells(u, messages'[z], z, raced')
    BY <1>10, <2>4
  <2> QED BY <1>4, <2>2, <2>3, <2>5 DEF SessionTold, TellsIn
<1>12. ASSUME NEW q \in Requests \ {r} PROVE RequestTold(q)'
  <2>1. RequestTold(q)
    BY DEF HInv
  <2>2. Unraced(q)' => Unraced(q) /\ messages'[SessionOf(q)] = messages[SessionOf(q)]
    <3> SUFFICES ASSUME Unraced(q)'
                 PROVE  Unraced(q) /\ messages'[SessionOf(q)] = messages[SessionOf(q)]
      OBVIOUS
    <3>1. Unraced(q)
      BY <1>4, <1>7 DEF Unraced, SessionOf
    <3>2. SessionOf(q) \in Sessions
      BY <3>1 DEF CInv, RequestOK, AskOK, Unraced
    <3>3. SessionOf(q) # s
      BY <1>0, <1>1, <3>1 DEF HInv, Alone, Unraced
    <3> QED BY <1>6, <3>1, <3>2, <3>3
  <2>3. NewestLast(q)'
    BY <1>7, <2>1, <2>2 DEF RequestTold, NewestLast, SessionOf
  <2>4. SummaryTold(q)'
    <3>1. PICK z : z = SessionOf(q)
      OBVIOUS
    <3>2. PICK u : u = seen[q].summary
      OBVIOUS
    <3>3. PICK v : v = mine[q].summary
      OBVIOUS
    <3>4. pc[q] \in Running => z \in Sessions
      BY <3>1 DEF CInv, RequestOK, AskOK
    <3>5. pc[q] \in Running => /\ TellsIn(u, z) => Tells(u, messages'[z], z, raced')
                               /\ TellsIn(v, z) => Tells(v, messages'[z], z, raced')
      BY <1>10, <3>4
    <3> QED BY <1>7, <2>1, <3>1, <3>2, <3>3, <3>5
            DEF RequestTold, SummaryTold, SessionOf, TellsIn
  <2>5. Prompted(q)'
    BY <1>4, <1>7, <2>1, <2>2 DEF RequestTold, Prompted, SessionOf
  <2> QED BY <2>3, <2>4, <2>5 DEF RequestTold
<1>13. RequestTold(r)'
  BY <1>7 DEF RequestTold, NewestLast, SummaryTold, Prompted, Unraced
<1>14. Alone'
  <2> SUFFICES ASSUME NEW p \in Requests, NEW q \in Requests, p # q,
                      pc'[p] \in Running, pc'[q] \in Running, SessionOf(p)' = SessionOf(q)'
               PROVE  SessionOf(p)' \in raced'
    BY DEF Alone
  <2>1. p # r /\ q # r
    BY <1>7
  <2> QED BY <1>4, <1>7, <2>1 DEF HInv, Alone, SessionOf
<1>15. Shaped'
  <2>1. DOMAIN answer' = Requests
    BY <1>0, <1>4 DEF Shaped
  <2>2. seen'[r] = Unseen /\ mine'[r] = Unwritten
    BY <1>0, <1>4 DEF Functional
  <2>3. {"recent", "total", "summary"} \subseteq DOMAIN seen'[r] /\ "summary" \in DOMAIN mine'[r]
    BY <2>2 DEF Unseen, Unwritten
  <2> QED BY <1>0, <1>6, <1>7, <2>1, <2>3 DEF Shaped
<1> QED BY <1>11, <1>12, <1>13, <1>14, <1>15 DEF HInv
-----------------------------------------------------------------------------
\* The server starts.
LEMMA HistoryInit == Init => HInv
<1> SUFFICES ASSUME Init PROVE HInv
  OBVIOUS
<1>1. /\ messages = [s \in Sessions |-> IF s = "seed" /\ setup.backend = "database"
                                        THEN SeedMessages ELSE <<>>]
      /\ summaries = [s \in Sessions |-> None]
      /\ pc = [r \in Requests |-> "idle"]
      /\ seen = [r \in Requests |-> Unseen] /\ mine = [r \in Requests |-> Unwritten]
      /\ answer = [r \in Requests |-> None]
  BY DEF Init
<1>2. Shaped
  BY <1>1 DEF Shaped, Unseen, Unwritten
<1>3. Alone
  BY <1>1 DEF Alone
<1>4. ASSUME NEW s \in Sessions PROVE SessionTold(s)
  <2>1. Rising(SeedMessages)
    <3>1. /\ DOMAIN SeedMessages = 1 .. 2 * Seed
          /\ \A i \in 1 .. 2 * Seed : SeedMessages[i].index = i - 1
      BY SeedTurns
    <3> QED BY <3>1, SeedAssumption DEF Rising
  <2>2. Rising(<<>>)
    BY DEF Rising
  <2> QED BY <1>1, <2>1, <2>2 DEF SessionTold
<1>5. ASSUME NEW r \in Requests PROVE RequestTold(r)
  BY <1>1 DEF RequestTold, NewestLast, SummaryTold, Prompted, Unraced, Unseen, Unwritten
<1> QED BY <1>2, <1>3, <1>4, <1>5 DEF HInv

\* HInv holds in every reachable state.
LEMMA HistoryInductive == Spec => []HInv
<1>1. CInv /\ HInv /\ [Next]_vars => HInv'
  <2> SUFFICES ASSUME CInv, HInv, [Next]_vars PROVE HInv'
    OBVIOUS
  <2>1. ASSUME NEW r \in Requests, Serve(r) PROVE HInv'
    BY <2>1, AskTold, EndTold, OpenRowTold, ReadWindowTold, CountTurnsTold, SummariseTold,
       UpsertTold, GenerateTold, RememberTold, ReadIndexTold, AppendQuestionTold,
       AppendAnswerTold, ReadTurnsTold, TouchTold, CommitTold DEF Serve
  <2>2. CASE UNCHANGED vars
    <3>1. /\ messages' = messages /\ summaries' = summaries /\ setup' = setup /\ raced' = raced
          /\ pc' = pc /\ ask' = ask /\ seen' = seen /\ mine' = mine /\ answer' = answer
      BY <2>2 DEF vars, stored
    <3>2. Shaped' /\ Alone'
      BY <3>1 DEF HInv, Shaped, Alone, SessionOf
    <3>3. ASSUME NEW s \in Sessions PROVE SessionTold(s)'
      BY <3>1 DEF HInv, SessionTold, TellsIn
    <3>4. ASSUME NEW r \in Requests PROVE RequestTold(r)'
      BY <3>1 DEF HInv, RequestTold, NewestLast, SummaryTold, Prompted, TellsIn, SessionOf,
                  Unraced
    <3> QED BY <3>2, <3>3, <3>4 DEF HInv
  <2> QED BY <2>1, <2>2 DEF Next, Rest
<1> QED BY <1>1, HistoryInit, ConversationInductive, PTL DEF Spec

\* A list that has nothing twice has as many elements as places.
LEMMA ElementsCounted ==
    ASSUME NEW T, NEW t \in Seq(T), \A i, j \in DOMAIN t : t[i] = t[j] => i = j
    PROVE  Cardinality(ToSet(t)) = Len(t)
<1>1. Len(t) \in Nat /\ DOMAIN t = 1 .. Len(t)
  BY LenProperties
<1>2. PICK n \in Nat : n = Len(t)
  BY <1>1
<1>3. ToSet(t) = {t[i] : i \in DOMAIN t}
  BY DEF ToSet
<1> DEFINE S == ToSet(t)
           f == [i \in 1 .. n |-> t[i]]
<1>4. /\ \A i \in 1 .. n : f[i] = t[i] /\ t[i] \in S
      /\ f \in [1 .. n -> S]
      /\ \A m \in S : \E i \in 1 .. n : f[i] = m
  BY <1>1, <1>2, <1>3
<1> HIDE DEF S, f
<1>5. \A i, j \in 1 .. n : f[i] = f[j] => i = j
  BY <1>1, <1>2, <1>4
<1>6. f \in Bijection(1 .. n, S)
  BY <1>4, <1>5 DEF Bijection, Injection, Surjection, IsInjective
<1>7. IsFiniteSet(1 .. n) /\ Cardinality(1 .. n) = n
  BY FS_Interval
<1>8. Cardinality(S) = n
  BY <1>6, <1>7, FS_Bijection DEF ExistsBijection
<1> QED BY <1>2, <1>8 DEF S

\* The invariant is more than what a reader of the memory is promised.
LEMMA InvariantTells == HInv => HistoryCovered
<1> SUFFICES ASSUME HInv PROVE HistoryCovered
  OBVIOUS
<1>1. SummariesTellOnce
  <2> SUFFICES ASSUME NEW s \in Sessions, summaries[s] # None
               PROVE  LET told == summaries[s].told
                          upTo == {m \in ToSet(messages[s]) : m.index <= summaries[s].covers}
                      IN  /\ Cardinality(ToSet(told)) = Len(told)
                          /\ ToSet(told) \subseteq upTo
                          /\ s \notin raced => ToSet(told) = upTo
    BY DEF SummariesTellOnce
  <2>1. PICK u : u = summaries[s]
    OBVIOUS
  <2>2. Tells(u, messages[s], s, raced)
    BY <2>1 DEF HInv, SessionTold, TellsIn
  <2>3. PICK upTo : upTo = UpTo(messages[s], u.covers)
    OBVIOUS
  <2>4. PICK told : told = u.told
    OBVIOUS
  <2>5. /\ told \in Seq(upTo)
        /\ \A i, j \in DOMAIN told : told[i] = told[j] => i = j
        /\ s \notin raced => upTo \subseteq ToSet(told)
    BY <2>2, <2>3, <2>4 DEF Tells
  <2>6. Cardinality(ToSet(told)) = Len(told)
    BY <2>5, ElementsCounted
  <2>7. ToSet(told) \subseteq upTo
    BY <2>5 DEF ToSet
  <2>8. upTo = {m \in ToSet(messages[s]) : m.index <= summaries[s].covers}
    BY <2>1, <2>3 DEF UpTo
  <2> QED BY <2>1, <2>4, <2>5, <2>6, <2>7, <2>8
<1>2. PromptsEndWithTheLatest
  <2> SUFFICES ASSUME NEW r \in Requests, answer[r] # None, SessionOf(r) \notin raced,
                      setup.backend = "database", messages[SessionOf(r)] # <<>>
               PROVE  LET turns == answer[r].history.turns
                      IN  turns # <<>> /\ IsSuffix(turns, messages[SessionOf(r)])
    BY DEF PromptsEndWithTheLatest
  <2>1. Prompted(r)
    BY DEF HInv, RequestTold
  <2>2. Unraced(r)
    BY <2>1 DEF Prompted, Unraced
  <2> QED BY <2>1, <2>2 DEF Prompted
<1> QED BY <1>1, <1>2 DEF HistoryCovered

\* However requests interleave and fail, the stored summary of a chat tells no
\* message twice and none that is not there, and a prompt of a request that had
\* its session to itself ends with the latest messages (_hydrate_bounded_history
\* and summarize_turns).
THEOREM ChatsRemembered == Spec => []HistoryCovered
  BY HistoryInductive, InvariantTells, PTL
-----------------------------------------------------------------------------
(* What the memory and the knowledge base answer. *)

\* What CaseMemory takes from a list is taken as elsewhere.
LEMMA SameSelection ==
    /\ \A s, n : Memory!FirstOf(s, n) = FirstOf(s, n)
    /\ \A s, S : Memory!Those(s, S) = Those(s, S)
    /\ \A s, S, before : Memory!Sorted(s, S, before) = Sorted(s, S, before)
    /\ \A S : Memory!Cardinality(S) = Cardinality(S)
<1>0. \A S : Memory!Cardinality(S) = Cardinality(S)
  BY Zenon DEF Memory!Cardinality, Cardinality
<1>1. \A S : Memory!Min(S) = Min(S)
  BY DEF Memory!Min, Min
<1>2. \A s, n : Memory!FirstOf(s, n) = FirstOf(s, n)
  BY <1>1 DEF Memory!FirstOf, FirstOf
<1>3. \A S, before : Memory!Order(S, before) = Order(S, before)
  BY Zenon DEF Memory!Order, Order, Memory!Cardinality, Cardinality
<1>4. \A s, S, before : Memory!Sorted(s, S, before) = Sorted(s, S, before)
  BY <1>3 DEF Memory!Sorted, Sorted
<1>5. \A s, S : Memory!Those(s, S) = Those(s, S)
  BY <1>4 DEF Memory!Those, Those
<1> QED BY <1>0, <1>2, <1>4, <1>5

\* The entries of the store are ordered by how near they are.
LEMMA NearerOrders ==
    ASSUME NEW query, IsFiniteSet(query.words), NEW S \in SUBSET DOMAIN Store, NEW before,
           before = {p \in S \X S : Memory!Nearer(query, Store[p[1]], Store[p[2]])}
    PROVE  WeakOrder(S, before)
<1> DEFINE A(i) == Memory!Shared(query, Store[i]) * Memory!Shared(query, Store[i])
           W(i) == Cardinality(Store[i].words)
<1>1. ASSUME NEW i \in S PROVE A(i) \in Nat /\ W(i) \in Nat \ {0}
  <2>1. Memory!Shared(query, Store[i]) \in Nat
    BY SharedCounted, SameSelection DEF Memory!Shared
  <2>2. Store[i] \in ToSet(Store)
    BY DEF ToSet
  <2>3. IsFiniteSet(Store[i].words) /\ Store[i].words # {}
    BY <2>2, StoreAssumption
  <2>4. W(i) \in Nat /\ W(i) # 0
    BY <2>3, FS_CardinalityType, FS_EmptySet
  <2>5. A(i) \in Nat
    BY <2>1
  <2> QED BY <2>4, <2>5
<1>2. \A i, j \in S : <<i, j>> \in before <=> A(i) * W(j) > A(j) * W(i)
  <2> TAKE i, j \in S
  <2>1. <<i, j>> \in before <=> Memory!Nearer(query, Store[i], Store[j])
    OBVIOUS
  <2> QED BY <2>1, SameSelection DEF Memory!Nearer
<1> HIDE DEF A, W
<1>3. ASSUME NEW i \in S, NEW j \in S, <<i, j>> \in before PROVE <<j, i>> \notin before
  <2> DEFINE x == A(i) * W(j)
             y == A(j) * W(i)
  <2>1. x \in Nat /\ y \in Nat
    BY <1>1
  <2> HIDE DEF x, y
  <2>2. x > y /\ (<<j, i>> \in before <=> y > x)
    BY <1>2, <1>3 DEF x, y
  <2> QED BY <2>1, <2>2
<1>4. ASSUME NEW i \in S, NEW j \in S, NEW k \in S, <<i, j>> \in before
      PROVE  <<i, k>> \in before \/ <<k, j>> \in before
  <2>1. /\ A(i) \in Nat /\ A(j) \in Nat /\ A(k) \in Nat
        /\ W(i) \in Nat \ {0} /\ W(j) \in Nat \ {0} /\ W(k) \in Nat \ {0}
    BY <1>1
  <2>2. A(i) * W(j) > A(j) * W(i)
    BY <1>2, <1>4
  <2>3. A(i) * W(k) > A(k) * W(i) \/ A(k) * W(j) > A(j) * W(k)
    BY <2>1, <2>2, FractionsOrdered
  <2> QED BY <1>2, <2>3
<1> QED BY <1>3, <1>4 DEF WeakOrder

\* What is like a question in the memory is of another case.
LEMMA SimilarOf ==
    ASSUME NEW query, IsFiniteSet(query.words), NEW case, NEW categories, NEW T,
           \A e \in ToSet(Store) : e.case # case => e \in T
    PROVE  Memory!FindSimilarExcludingCase(Store, query, case, MaxSimilar, categories) \in Seq(T)
<1> DEFINE which == {i \in DOMAIN Store : Store[i].category \in categories}
           nearer == {p \in which \X which : Memory!Nearer(query, Store[p[1]], Store[p[2]])}
           sorted == Sorted(Store, which, nearer)
           candidates == FirstOf(sorted, 3 * MaxSimilar)
           others == {i \in DOMAIN candidates : candidates[i].case # case}
<1>1. Memory!FindSimilarExcludingCase(Store, query, case, MaxSimilar, categories) =
         FirstOf(Those(candidates, others), MaxSimilar)
  BY SameSelection DEF Memory!FindSimilarExcludingCase, Memory!QueryEmbedding
<1>2. MaxSimilar \in Int /\ 3 * MaxSimilar \in Int
  BY LimitAssumption
<1>3. WeakOrder(which, nearer)
  <2>1. which \in SUBSET DOMAIN Store
    OBVIOUS
  <2> HIDE DEF which
  <2> QED BY <2>1, NearerOrders
<1>4. sorted \in Seq(ToSet(Store))
  <2>1. Store \in Seq(ToSet(Store))
    BY StoreAssumption
  <2>2. which \in SUBSET DOMAIN Store /\ \A i \in which : Store[i] \in ToSet(Store)
    BY DEF ToSet
  <2> HIDE DEF which, nearer
  <2> QED BY <1>3, <2>1, <2>2, SortedOf
<1> HIDE DEF sorted
<1>5. candidates \in Seq(ToSet(Store))
  BY <1>2, <1>4, FirstOfOf
<1> HIDE DEF candidates
<1>6. \A i \in others : candidates[i] \in T
  BY <1>5
<1>7. Those(candidates, others) \in Seq(T)
  <2>1. others \in SUBSET DOMAIN candidates
    OBVIOUS
  <2> HIDE DEF others
  <2> QED BY <1>5, <1>6, <2>1, ThoseOf
<1> QED BY <1>1, <1>2, <1>7, FirstOfOf

\* What the knowledge base says about a question is of the knowledge base.
LEMMA KnowledgeOf ==
    ASSUME NEW query, IsFiniteSet(query.words)
    PROVE  Memory!RetrieveKnowledge(Documents, query, MaxDocuments) \in Seq(ToSet(Documents))
<1> DEFINE A(i) == Memory!Shared(query, Documents[i])
           which == {i \in DOMAIN Documents : A(i) > 0}
           better == {p \in which \X which : A(p[1]) > A(p[2])}
           sorted == Sorted(Documents, which, better)
<1>1. Memory!RetrieveKnowledge(Documents, query, MaxDocuments) = FirstOf(sorted, MaxDocuments)
  BY SameSelection DEF Memory!RetrieveKnowledge
<1>2. \A i \in which : A(i) \in Nat
  BY SharedCounted, SameSelection DEF Memory!Shared
<1>3. which \in SUBSET DOMAIN Documents /\ \A i \in which : Documents[i] \in ToSet(Documents)
  BY DEF ToSet
<1> HIDE DEF A, which
<1>4. WeakOrder(which, better)
  BY <1>2 DEF WeakOrder
<1>5. Documents \in Seq(ToSet(Documents))
  BY DocumentAssumption
<1> HIDE DEF better
<1>6. sorted \in Seq(ToSet(Documents))
  BY <1>3, <1>4, <1>5, SortedOf
<1> HIDE DEF sorted
<1>7. MaxDocuments \in Int
  BY LimitAssumption
<1> QED BY <1>1, <1>6, <1>7, FirstOfOf
-----------------------------------------------------------------------------
(* Answers that are grounded. *)

\* Everything that is read for a question is a document of D.
LEMMA HydrateOf ==
    ASSUME NEW c \in Cases, NEW question, NEW D, NEW documents \in Seq(D), NEW similar \in Seq(D),
           \A part \in {"findings", "iocs", "reports", "timeline"} :
              ToSet(Evidence[c][part]) \subseteq D,
           \A f \in ToSet(Evidence[c].findings) : ToSet(f.mappings) \subseteq D
    PROVE  \A i \in DOMAIN Categories :
              Hydrate(Evidence[c], question, documents, similar)[Categories[i]] \in Seq(D)
<1> DEFINE has == Evidence[c]
           F == ToSet(has.findings)
           read == FirstOf(has.findings, MaxCandidates)
           kept == {i \in DOMAIN read : ~read[i].broken}
           findings == Those(read, kept)
           Mapped(ms) == Those(ms, {i \in DOMAIN ms : ms[i].id # None})
           mapped == [i \in DOMAIN findings |-> Mapped(findings[i].mappings)]
           asked == Select(question).categories
           context == Hydrate(has, question, documents, similar)
<1>1. MaxCandidates \in Int /\ MaxTimeline \in Int /\ 1 \in Int
  BY LimitAssumption
<1>2. /\ has.findings \in Seq(F) /\ F \subseteq D
      /\ has.iocs \in Seq(D) /\ has.reports \in Seq(D) /\ has.timeline \in Seq(D)
  BY EvidenceAssumption
<1>3. findings \in Seq(F)
  <2>1. read \in Seq(F)
    <3> HIDE DEF F
    <3> QED BY <1>1, <1>2, FirstOfOf
  <2> HIDE DEF read, F
  <2>2. kept \in SUBSET DOMAIN read /\ \A i \in kept : read[i] \in F
    BY <2>1
  <2> HIDE DEF kept
  <2> QED BY <2>1, <2>2, ThoseOf
<1> HIDE DEF findings, kept, read
<1>4. ASSUME NEW f \in F PROVE Mapped(f.mappings) \in Seq(D)
  <2>1. PICK ms : ms = f.mappings
    OBVIOUS
  <2>2. ms \in Seq(ToSet(ms)) /\ ToSet(ms) \subseteq D
    BY <2>1, EvidenceAssumption
  <2>3. PICK S \in SUBSET DOMAIN ms : S = {i \in DOMAIN ms : ms[i].id # None}
    OBVIOUS
  <2>4. \A i \in S : ms[i] \in D
    BY <2>2 DEF ToSet
  <2>5. Those(ms, S) \in Seq(D)
    BY <2>2, <2>4, ThoseOf
  <2> QED BY <2>1, <2>3, <2>5
<1>5. FlattenSeq(mapped) \in Seq(D)
  <2> HIDE DEF Mapped, F
  <2>1. DOMAIN findings = 1 .. Len(findings) /\ Len(findings) \in Nat
    BY <1>3, LenProperties
  <2>2. \A i \in DOMAIN findings : findings[i] \in F
    BY <1>3
  <2>3. PICK n \in Nat : n = Len(findings)
    BY <2>1
  <2>4. mapped = [i \in 1 .. n |-> Mapped(findings[i].mappings)]
    BY <2>1, <2>3
  <2>5. \A i \in 1 .. n : Mapped(findings[i].mappings) \in Seq(D)
    BY <1>4, <2>1, <2>2, <2>3
  <2> HIDE DEF mapped
  <2>6. mapped \in [1 .. n -> Seq(D)]
    BY <2>4, <2>5
  <2>7. mapped \in Seq(Seq(D))
    BY <2>6
  <2> QED BY <2>7, FlattenOf
<1> HIDE DEF mapped, Mapped
<1>6. findings \in Seq(D)
  BY <1>2, <1>3
<1>7. context =
        [finding |-> findings, mitre_mapping |-> FlattenSeq(mapped),
         ioc |-> FirstOf(has.iocs, MaxCandidates), report |-> FirstOf(has.reports, 1),
         timeline_event |-> FirstOf(has.timeline, MaxTimeline),
         knowledge |-> IF "knowledge" \in asked THEN documents ELSE <<>>,
         similar_case |-> IF "similar_case" \in asked THEN similar ELSE <<>>]
  BY DEF Hydrate, findings, kept, read, mapped, Mapped
<1>8. /\ FirstOf(has.iocs, MaxCandidates) \in Seq(D)
      /\ FirstOf(has.reports, 1) \in Seq(D)
      /\ FirstOf(has.timeline, MaxTimeline) \in Seq(D)
  BY <1>1, <1>2, FirstOfOf
<1>9. <<>> \in Seq(D)
  OBVIOUS
<1> HIDE DEF context, has, asked
<1>10. /\ context.finding \in Seq(D) /\ context.mitre_mapping \in Seq(D)
       /\ context.ioc \in Seq(D) /\ context.report \in Seq(D)
       /\ context.timeline_event \in Seq(D) /\ context.knowledge \in Seq(D)
       /\ context.similar_case \in Seq(D)
  BY <1>5, <1>6, <1>7, <1>8, <1>9
<1> DEFINE Names == {"finding", "ioc", "knowledge", "mitre_mapping", "report", "similar_case",
                     "timeline_event"}
<1>11. \A i \in DOMAIN Categories : Categories[i] \in Names
  BY DEF Categories
<1>12. \A k \in Names : context[k] \in Seq(D)
  BY <1>10
<1>13. \A i \in DOMAIN Categories : context[Categories[i]] \in Seq(D)
  BY <1>11, <1>12, Zenon
<1> QED BY <1>13 DEF context, has

\* Items made of documents of D, with a score that is a number.
ItemsFor(question, D) ==
    {Item(k, d, Score(question, d)) : k \in ToSet(Categories), d \in D}

\* They have the ids of their documents.
LEMMA ItemsForOf ==
    ASSUME NEW question, IsFiniteSet(question.words), NEW D
    PROVE  \A t \in ItemsFor(question, D) : t.score \in Nat /\ \E d \in D : t.id = d.id
<1> SUFFICES ASSUME NEW k \in ToSet(Categories), NEW d \in D, NEW t,
                    t = Item(k, d, Score(question, d))
             PROVE  t.score \in Nat /\ t.id = d.id
  BY DEF ItemsFor
<1>1. t.score = Score(question, d) /\ t.id = d.id
  BY DEF Item
<1>2. Score(question, d) \in Nat
  BY SharedCounted DEF Score
<1> QED BY <1>1, <1>2

\* What is retrieved is made of what was read.
LEMMA RetrieveOf ==
    ASSUME NEW question, NEW D, NEW context,
           \A i \in DOMAIN Categories : context[Categories[i]] \in Seq(D)
    PROVE  Retrieve(context, question) \in Seq(ItemsFor(question, D))
<1> DEFINE T == ItemsFor(question, D)
<1>1. ASSUME NEW k \in ToSet(Categories), context[k] \in Seq(D)
      PROVE  ItemsOf(context, question, k) \in Seq(T)
  <2>1. PICK all \in Seq(D) : all = context[k]
    BY <1>1
  <2> DEFINE which == {i \in DOMAIN all : Score(question, all[i]) > 0}
             matching == Those(all, which)
             fallback == IF Select(question).explicit THEN FirstOf(all, FallbackRecords) ELSE <<>>
             chosen == IF matching = <<>> THEN fallback ELSE matching
  <2>2. matching \in Seq(D)
    <3>1. which \in SUBSET DOMAIN all /\ \A i \in which : all[i] \in D
      OBVIOUS
    <3> HIDE DEF which
    <3> QED BY <3>1, ThoseOf
  <2>3. fallback \in Seq(D)
    <3>1. FirstOf(all, FallbackRecords) \in Seq(D)
      BY LimitAssumption, FirstOfOf
    <3> QED BY <3>1
  <2>4. chosen \in Seq(D)
    BY <2>2, <2>3
  <2>5. ItemsOf(context, question, k) =
           [i \in DOMAIN chosen |-> Item(k, chosen[i], Score(question, chosen[i]))]
    BY <2>1 DEF ItemsOf
  <2> HIDE DEF chosen
  <2>6. DOMAIN chosen = 1 .. Len(chosen) /\ Len(chosen) \in Nat
    BY <2>4, LenProperties
  <2>7. \A i \in DOMAIN chosen : Item(k, chosen[i], Score(question, chosen[i])) \in T
    <3>1. \A i \in DOMAIN chosen : chosen[i] \in D
      BY <2>4
    <3> QED BY <3>1 DEF ItemsFor
  <2> HIDE DEF T
  <2>8. PICK n \in Nat : n = Len(chosen)
    BY <2>6
  <2>9. ItemsOf(context, question, k) \in [1 .. n -> T]
    BY <2>5, <2>6, <2>7, <2>8
  <2> QED BY <2>9
<1> DEFINE ss == [i \in DOMAIN Categories |->
                     IF Categories[i] \in Select(question).categories
                     THEN ItemsOf(context, question, Categories[i]) ELSE <<>>]
<1>2. DOMAIN Categories = 1 .. 7
  BY DEF Categories
<1>3. ASSUME NEW i \in 1 .. 7
      PROVE  ItemsOf(context, question, Categories[i]) \in Seq(T)
  <2>1. Categories[i] \in ToSet(Categories)
    BY <1>2 DEF ToSet
  <2> QED BY <1>1, <1>2, <2>1
<1> HIDE DEF T
<1>4. ss \in [1 .. 7 -> Seq(T)]
  <2>1. <<>> \in Seq(T)
    OBVIOUS
  <2> QED BY <1>2, <1>3, <2>1
<1>5. ss \in Seq(Seq(T))
  <2>1. PICK n \in Nat : n = 7
    OBVIOUS
  <2> HIDE DEF ss
  <2>2. ss \in [1 .. n -> Seq(T)]
    BY <1>4, <2>1
  <2> QED BY <2>2
<1>6. Retrieve(context, question) = FlattenSeq(ss)
  BY DEF Retrieve
<1> HIDE DEF ss
<1> QED BY <1>5, <1>6, FlattenOf DEF T

\* Ranking, deduplicating and truncating only leave items out.
LEMMA AssembleOf ==
    ASSUME NEW T, \A t \in T : t.score \in Nat, NEW items \in Seq(T)
    PROVE  Assemble(items) \in Seq(T)
<1>1. PICK ranked : ranked = Rank(items)
  OBVIOUS
<1>2. ranked \in Seq(T)
  <2> DEFINE better == {p \in (DOMAIN items) \X (DOMAIN items) :
                           items[p[1]].score > items[p[2]].score}
  <2>1. \A i \in DOMAIN items : items[i] \in T /\ items[i].score \in Nat
    OBVIOUS
  <2>2. WeakOrder(DOMAIN items, better)
    BY <2>1 DEF WeakOrder
  <2>3. ranked = Sorted(items, DOMAIN items, better)
    BY <1>1 DEF Rank
  <2> HIDE DEF better
  <2>4. Sorted(items, DOMAIN items, better) \in Seq(T)
    BY <2>1, <2>2, SortedOf
  <2> QED BY <2>3, <2>4
<1>3. PICK different : different = Deduplicate(ranked)
  OBVIOUS
<1>4. different \in Seq(T)
  <2>1. PICK S \in SUBSET DOMAIN ranked : different = Those(ranked, S)
    BY <1>3 DEF Deduplicate
  <2>2. \A i \in S : ranked[i] \in T
    BY <1>2
  <2> QED BY <1>2, <2>1, <2>2, ThoseOf
<1>5. TruncateToBudget(different) \in Seq(T)
  <2>1. PICK S \in SUBSET DOMAIN different : TruncateToBudget(different) = Those(different, S)
    BY DEF TruncateToBudget
  <2>2. \A i \in S : different[i] \in T
    BY <1>4
  <2> QED BY <1>4, <2>1, <2>2, ThoseOf
<1> QED BY <1>1, <1>3, <1>5 DEF Assemble

\* An answer that says something rests on something it was given.
Grounded(reply, c) ==
    /\ reply.confidence > 0 \/ ~reply.degraded => reply.citations # {}
    /\ reply.citations \subseteq Sources(c)

\* What an answer cites is among the items it was given.
LEMMA AnswerGrounded ==
    ASSUME NEW c, NEW T, \A t \in T : t.id \in Sources(c), NEW items \in Seq(T),
           NEW context, NEW question, NEW used, NEW failed
    PROVE  Grounded(Answer(context, question, items, used, failed), c)
<1>1. PICK reply : reply = Answer(context, question, items, used, failed)
  OBVIOUS
<1>2. /\ reply.citations = Cite(used, items)
      /\ reply.confidence = Confidence(used, items)
      /\ reply.degraded = (\/ items = <<>> \/ CaseRecords(context) = 0
                           \/ ~Valid(used, items) \/ failed)
  BY <1>1 DEF Answer
<1>3. Cite(used, items) \subseteq Sources(c)
  <2>1. \A i \in ToSet(items) : i \in T
    BY DEF ToSet
  <2> QED BY <2>1 DEF Cite, Ids
<1>4. Valid(used, items) /\ items # <<>> => Cite(used, items) # {}
  BY DEF Valid
<1>5. items = <<>> \/ ~Valid(used, items) => ~ (reply.confidence > 0)
  BY <1>2 DEF Confidence
<1>6. ~reply.degraded => items # <<>> /\ Valid(used, items)
  BY <1>2, Zenon
<1> QED BY <1>1, <1>2, <1>3, <1>4, <1>5, <1>6 DEF Grounded

\* Every answer that may be given on what was read is grounded.
LEMMA AnswersGrounded ==
    ASSUME NEW c, NEW question, IsFiniteSet(question.words), NEW provider,
           NEW D, \A d \in D : d.id \in Sources(c), NEW context,
           \A i \in DOMAIN Categories : context[Categories[i]] \in Seq(D),
           NEW reply \in Answers(context, question, provider)
    PROVE  Grounded(reply, c)
<1>1. PICK items : items = Assemble(Retrieve(context, question))
  OBVIOUS
<1>2. PICK T : T = ItemsFor(question, D)
  OBVIOUS
<1>3. \A t \in T : t.score \in Nat /\ \E d \in D : t.id = d.id
  BY <1>2, ItemsForOf
<1>4. \A t \in T : t.id \in Sources(c)
  BY <1>3
<1>5. Retrieve(context, question) \in Seq(T)
  BY <1>2, RetrieveOf
<1>6. items \in Seq(T)
  BY <1>1, <1>3, <1>5, AssembleOf
<1>7. \E used : \/ reply = Answer(context, question, items, used, FALSE)
                \/ reply = Answer(context, question, items, used, TRUE)
  BY <1>1, Zenon DEF Answers
<1> QED BY <1>4, <1>6, <1>7, AnswerGrounded

\* The documents a request may be answered from.
Readable(c) ==
    LET e == Evidence[c]
    IN  ToSet(e.findings) \cup ToSet(e.iocs) \cup ToSet(e.reports) \cup ToSet(e.timeline)
        \cup ToSet(Documents) \cup UNION {ToSet(f.mappings) : f \in ToSet(e.findings)}

\* They are sources of an answer.
LEMMA ReadableIsSource == ASSUME NEW c, NEW d \in Readable(c) PROVE d.id \in Sources(c)
<1> DEFINE e == Evidence[c]
           P == ToSet(e.findings) \cup ToSet(e.iocs) \cup ToSet(e.reports)
                \cup ToSet(e.timeline) \cup ToSet(Documents)
           M == UNION {ToSet(f.mappings) : f \in ToSet(e.findings)}
<1>1. d \in P \/ d \in M
  BY DEF Readable
<1>2. Sources(c) = {x.id : x \in P} \cup {m.id : m \in M}
                   \cup ({e2.case : e2 \in ToSet(Store)} \ {c})
  BY DEF Sources
<1> HIDE DEF P, M
<1> QED BY <1>1, <1>2

\* What a memory has of other cases is a source too.
LEMMA SimilarIsSource ==
    ASSUME NEW r, ask[r].case \in Cases, IsFiniteSet(ask[r].question.words)
    PROVE  \E D : /\ Similar(r) \in Seq(D)
                  /\ \A d \in D : d.id \in Sources(ask[r].case)
<1>1. PICK c : c = ask[r].case
  OBVIOUS
<1>2. PICK question : question = ask[r].question
  OBVIOUS
<1> DEFINE T == {e \in ToSet(Store) : e.case # c}
           Read(e) == [id |-> e.case, words |-> e.words, text |-> e.id,
                       size |-> 1, quotes |-> {}, starts |-> {}]
           D == {Read(e) : e \in T}
<1>3. PICK found : found = Memory!FindSimilarExcludingCase(Store, question, c, MaxSimilar,
                               ToSet(Memory!RecordCategories))
  OBVIOUS
<1>4. found \in Seq(T)
  <2>1. \A e \in ToSet(Store) : e.case # c => e \in T
    OBVIOUS
  <2> HIDE DEF T
  <2> QED BY <1>2, <1>3, <2>1, SimilarOf
<1>5. Similar(r) = [i \in DOMAIN found |-> Read(found[i])]
  BY <1>1, <1>2, <1>3 DEF Similar
<1>6. PICK n \in Nat : n = Len(found) /\ DOMAIN found = 1 .. n
  BY <1>4, LenProperties
<1>7. \A i \in 1 .. n : Read(found[i]) \in D
  <2>1. \A i \in 1 .. n : found[i] \in T
    <3> HIDE DEF T
    <3> QED BY <1>4, <1>6
  <2>2. \A e \in T : Read(e) \in D
    OBVIOUS
  <2> HIDE DEF T, D, Read
  <2> QED BY <2>1, <2>2
<1>8. \A d \in D : d.id \in Sources(c)
  BY DEF Sources
<1> HIDE DEF D, Read
<1>9. Similar(r) \in [1 .. n -> D]
  BY <1>5, <1>6, <1>7
<1> QED BY <1>1, <1>8, <1>9

\* Each answer a request may be given is grounded in its case.
LEMMA GenerateGrounds ==
    ASSUME NEW r, ask[r].case \in Cases, IsFiniteSet(ask[r].question.words),
           Generate(r), DOMAIN answer = Requests, r \in Requests
    PROVE  Grounded(answer'[r].reply, ask[r].case)
<1>1. PICK c \in Cases : c = ask[r].case
  OBVIOUS
<1>2. PICK question : question = ask[r].question
  OBVIOUS
<1>3. PICK remembers, documents, similar, context, reply :
        /\ documents = Memory!RetrieveKnowledge(Documents, question, MaxDocuments)
        /\ similar = IF remembers THEN Similar(r) ELSE <<>>
        /\ context = Hydrate(Evidence[c], question, documents, similar)
        /\ reply \in Answers(context, question, setup.provider)
        /\ answer' = [answer EXCEPT ![r] =
              [history |-> BoundedHistory(seen[r].summary, seen[r].recent), reply |-> reply]]
  BY <1>1, <1>2 DEF Generate
<1>4. PICK S : Similar(r) \in Seq(S) /\ \A d \in S : d.id \in Sources(c)
  BY <1>1, SimilarIsSource
<1>5. PICK D : D = Readable(c) \cup S
  OBVIOUS
<1>6. \A d \in D : d.id \in Sources(c)
  BY <1>4, <1>5, ReadableIsSource
<1>7. documents \in Seq(D)
  <2>1. documents \in Seq(ToSet(Documents))
    BY <1>2, <1>3, KnowledgeOf
  <2>2. ToSet(Documents) \subseteq D
    BY <1>5 DEF Readable
  <2> QED BY <2>1, <2>2
<1>8. similar \in Seq(D)
  <2>1. Similar(r) \in Seq(D)
    BY <1>4, <1>5
  <2>2. <<>> \in Seq(D)
    OBVIOUS
  <2> QED BY <1>3, <2>1, <2>2
<1>9. \A part \in {"findings", "iocs", "reports", "timeline"} :
         ToSet(Evidence[c][part]) \subseteq D
  BY <1>5 DEF Readable
<1>10. \A f \in ToSet(Evidence[c].findings) : ToSet(f.mappings) \subseteq D
  BY <1>5 DEF Readable
<1>11. \A i \in DOMAIN Categories : context[Categories[i]] \in Seq(D)
  BY <1>3, <1>7, <1>8, <1>9, <1>10, HydrateOf
<1>12. Grounded(reply, c)
  BY <1>2, <1>3, <1>6, <1>11, AnswersGrounded
<1>13. answer'[r].reply = reply
  BY <1>3
<1> QED BY <1>1, <1>12, <1>13

\* What a request asks has finitely many words, and what it answers is grounded.
AskedPlainly(r) == pc[r] \in Running => IsFiniteSet(ask[r].question.words)
AnsweredWell(r) == answer[r] # None => Grounded(answer[r].reply, ask[r].case)
GInv == \A r \in Requests : AskedPlainly(r) /\ AnsweredWell(r)

\* A request that goes on without asking or answering anew stays grounded.
LEMMA GoesOn ==
    ASSUME Functional, GInv, NEW r \in Requests, NEW place \in Running,
           pc[r] \in Running, pc' = [pc EXCEPT ![r] = place], ask' = ask, answer' = answer
    PROVE  GInv'
<1>1. \A q \in Requests : pc'[q] \in Running => pc[q] \in Running
  BY DEF Functional
<1> QED BY <1>1 DEF GInv, AskedPlainly, AnsweredWell

\* The other steps.
LEMMA OthersGrounded ==
    ASSUME GInv, NEW r \in Requests, AskedPlainly(r)', AnsweredWell(r)',
           \A q \in Requests \ {r} : pc'[q] = pc[q] /\ ask'[q] = ask[q] /\ answer'[q] = answer[q]
    PROVE  GInv'
<1>1. ASSUME NEW q \in Requests \ {r} PROVE AskedPlainly(q)' /\ AnsweredWell(q)'
  BY <1>1 DEF GInv, AskedPlainly, AnsweredWell
<1> QED BY <1>1 DEF GInv

\* What is asked is of the workload.
LEMMA AskGrounded == ASSUME CInv, HInv, GInv, NEW r \in Requests, Ask(r) PROVE GInv'
<1>1. Functional /\ Shaped /\ answer[r] = None /\ answer' = answer
  BY DEF CInv, HInv, RequestTold, Prompted, Ask
<1>2. PICK w, used :
        /\ w \in Workload
        /\ ask' = [ask EXCEPT ![r] = [case |-> w.case, question |-> w.question, session |-> used]]
  BY DEF Ask
<1>3. ask'[r].question = w.question /\ \A q \in Requests \ {r} : ask'[q] = ask[q]
  BY <1>1, <1>2 DEF Functional
<1>4. \A q \in Requests \ {r} : pc'[q] = pc[q]
  BY <1>1 DEF Ask, Functional
<1>5. AskedPlainly(r)'
  BY <1>2, <1>3, WorkloadAssumption DEF AskedPlainly
<1>6. AnsweredWell(r)'
  BY <1>1 DEF AnsweredWell
<1> QED BY <1>1, <1>3, <1>4, <1>5, <1>6, OthersGrounded

\* A request that is over answers nothing any more.
LEMMA EndGrounded ==
    ASSUME CInv, HInv, GInv, NEW r \in Requests, Refuse(r) \/ Commit(r) \/ Fail(r)
    PROVE  GInv'
<1>1. Functional /\ Shaped
  BY DEF CInv, HInv
<1>2. pc'[r] \in Ended /\ \A q \in Requests \ {r} : pc'[q] = pc[q]
  BY <1>1 DEF Refuse, Commit, Fail, Functional
<1>3. \A q \in Requests \ {r} : ask'[q] = ask[q] /\ answer'[q] = answer[q]
  BY <1>1 DEF Refuse, Commit, Fail, Forget, Functional, Shaped
<1>4. answer'[r] = None
  BY <1>1 DEF HInv, RequestTold, Prompted, Refuse, Commit, Fail, Forget, Shaped
<1>5. AskedPlainly(r)' /\ AnsweredWell(r)'
  BY <1>2, <1>4 DEF AskedPlainly, AnsweredWell
<1> QED BY <1>2, <1>3, <1>5, OthersGrounded

\* The one step that answers.
LEMMA GenerateGrounded == ASSUME CInv, HInv, GInv, NEW r \in Requests, Generate(r) PROVE GInv'
<1>1. Functional /\ Shaped /\ RequestOK(r) /\ pc[r] = "generate" /\ AskedPlainly(r)
  BY DEF CInv, HInv, GInv, Generate
<1>2. ask[r].case \in Cases /\ IsFiniteSet(ask[r].question.words)
  BY <1>1 DEF RequestOK, AskOK, AskedPlainly
<1>3. Grounded(answer'[r].reply, ask[r].case)
  BY <1>1, <1>2, GenerateGrounds DEF Shaped
<1>4. /\ ask' = ask
      /\ \A q \in Requests \ {r} : pc'[q] = pc[q] /\ answer'[q] = answer[q]
  BY <1>1 DEF Generate, Functional, Shaped
<1>5. AskedPlainly(r)' /\ AnsweredWell(r)'
  BY <1>2, <1>3, <1>4 DEF AskedPlainly, AnsweredWell
<1> QED BY <1>4, <1>5, OthersGrounded

\* The steps that neither ask nor answer.
LEMMA ReadWriteGrounded ==
    ASSUME CInv, GInv, NEW r \in Requests,
           \/ OpenRow(r) \/ InsertRow(r) \/ ReadWindow(r) \/ CountTurns(r) \/ Summarise(r)
           \/ Upsert(r) \/ Remember(r) \/ ReadIndex(r) \/ AppendQuestion(r) \/ AppendAnswer(r)
           \/ ReadTurns(r) \/ Touch(r)
    PROVE  GInv'
<1>1. Functional /\ pc[r] \in Running /\ ask' = ask /\ answer' = answer
  BY DEF CInv, OpenRow, InsertRow, ReadWindow, CountTurns, Summarise, Upsert, Remember,
         ReadIndex, AppendQuestion, AppendAnswer, ReadTurns, Touch
<1>2. \E place \in Running : pc' = [pc EXCEPT ![r] = place]
  <2>1. CASE OpenRow(r)
    BY <2>1 DEF OpenRow
  <2>2. CASE InsertRow(r)
    BY <2>2 DEF InsertRow
  <2>3. CASE ReadWindow(r)
    BY <2>3 DEF ReadWindow
  <2>4. CASE CountTurns(r)
    BY <2>4 DEF CountTurns
  <2>5. CASE Summarise(r)
    BY <2>5 DEF Summarise
  <2>6. CASE Upsert(r) \/ Remember(r) \/ ReadIndex(r)
    BY <2>6 DEF Upsert, Remember, ReadIndex
  <2>7. CASE AppendQuestion(r) \/ AppendAnswer(r) \/ ReadTurns(r) \/ Touch(r)
    BY <2>7 DEF AppendQuestion, AppendAnswer, ReadTurns, Touch
  <2> QED BY <2>1, <2>2, <2>3, <2>4, <2>5, <2>6, <2>7
<1> QED BY <1>1, <1>2, GoesOn

\* GInv holds in every reachable state.
LEMMA GroundedInductive == Spec => []GInv
<1>1. Init => GInv
  BY DEF Init, GInv, AskedPlainly, AnsweredWell
<1>2. CInv /\ HInv /\ GInv /\ [Next]_vars => GInv'
  <2> SUFFICES ASSUME CInv, HInv, GInv, [Next]_vars PROVE GInv'
    OBVIOUS
  <2>1. ASSUME NEW r \in Requests, Serve(r) PROVE GInv'
    BY <2>1, AskGrounded, EndGrounded, GenerateGrounded, ReadWriteGrounded DEF Serve
  <2>2. CASE UNCHANGED vars
    BY <2>2 DEF vars, GInv, AskedPlainly, AnsweredWell
  <2> QED BY <2>1, <2>2 DEF Next, Rest
<1> QED BY <1>1, <1>2, ConversationInductive, HistoryInductive, PTL DEF Spec

\* Whatever a model claims to rest on and whatever looks like a tag in the
\* evidence, an answer cites only what the case, the knowledge base or other
\* cases have, and one that claims confidence cites something.
THEOREM ChatsGrounded == Spec => []AnswersAreGrounded
<1>1. GInv => AnswersAreGrounded
  BY DEF GInv, AnsweredWell, Grounded, AnswersAreGrounded
<1> QED BY <1>1, GroundedInductive, PTL
=============================================================================
