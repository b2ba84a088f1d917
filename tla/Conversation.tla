---------------------------- MODULE Conversation ----------------------------
(***************************************************************************)
(* Chats about cases (core/services/conversation_service.py), as           *)
(* concurrent requests read and write them.                                *)
(*                                                                         *)
(* A chat session is remembered twice: by the process, which forgets the   *)
(* least recently used one at its cap, and as rows: the session, its       *)
(* messages, numbered by the requests that append them, and the summary    *)
(* of the older ones.  Every request has a database session of its own     *)
(* (see CaseRequests); with the backend "memory" nothing is stored and     *)
(* the turns of a case are kept in the process.                            *)
(*                                                                         *)
(* A turn stands for its text; it costs one token of the prompt, and a     *)
(* summary one for each message it tells.  A session's id is the request   *)
(* that started it.                                                        *)
(***************************************************************************)
EXTENDS ChatAnswer

CONSTANTS
    Requests,
    Cases,
    Evidence,        \* the rows each case has to answer from
    Documents,       \* the knowledge base
    Store,           \* the long-term memory
    TopK, Overfetch, MinSimilarity, MaxTotalItems,
    Workload,        \* what may be asked of which case: [case, question]
    LlmSettings,
    Databases,       \* of "SQLite" and "PostgreSQL"
    Backends,        \* of "database" and "memory"
    Window,          \* conversation_history_turn_limit
    Trigger,         \* conversation_compression_trigger_turns
    Keep,            \* conversation_summary_keep_recent_turns
    MaxTokens,       \* conversation_max_prompt_history_tokens
    MaxSessions,     \* MAX_TRACKED_SESSIONS
    MaxTurns,        \* max_turns_per_case
    Seed             \* the exchanges of the chat there is at the start

\* What there is comes in lists, and every text has finitely many words.
ASSUME WorkloadAssumption ==
    \A w \in Workload : w.case \in Cases /\ IsFiniteSet(w.question.words)
ASSUME EvidenceAssumption ==
    \A c \in Cases :
        /\ \A part \in {"findings", "iocs", "reports", "timeline"} :
              Evidence[c][part] \in Seq(ToSet(Evidence[c][part]))
        /\ \A f \in ToSet(Evidence[c].findings) : f.mappings \in Seq(ToSet(f.mappings))
ASSUME DocumentAssumption == Documents \in Seq(ToSet(Documents))
ASSUME StoreAssumption ==
    /\ Store \in Seq(ToSet(Store))
    /\ \A e \in ToSet(Store) : IsFiniteSet(e.words) /\ e.words # {}
ASSUME HistoryAssumption == Window \in Nat \ {0} /\ Keep \in Nat \ {0} /\ MaxTokens \in Nat \ {0}
ASSUME SeedAssumption == /\ Seed \in Nat /\ Requests \cap (1 .. Seed) = {}
                         /\ "c1" \in Cases

VARIABLES
    setup,       \* [database, backend, provider]
    sessions,    \* of the process, the least recently active first
    chat,        \* the turns of each case in the process
    rows,        \* conversation_sessions: [case, turns]
    messages,    \* conversation_messages of each session, as committed
    summaries,   \* conversation_summaries: [told, covers, count]
    pc,
    ask,         \* what each request asks: [case, question, session]
    seen,        \* what it has read: [turns, recent, total, summary, index]
    mine,        \* what it has written, uncommitted: [row, messages, summary]
    answer,      \* what it answers: [history, reply], the prompt's and the answer
    raced        \* sessions two requests have had in use at once

process == <<sessions, chat>>
stored == <<rows, messages, summaries>>
vars == <<setup, process, stored, pc, ask, seen, mine, answer, raced>>

Memory == INSTANCE CaseMemory

-----------------------------------------------------------------------------
Sessions == Requests \cup {"seed"}

Message(index, case, role, by) == [index |-> index, case |-> case, role |-> role, by |-> by]

Unasked == [case |-> None, question |-> None, session |-> None]
Unseen == [turns |-> 0, recent |-> <<>>, total |-> 0, summary |-> None, index |-> 0]
Unwritten == [row |-> None, messages |-> <<>>, summary |-> None]

Running == {"open", "insert", "window", "count", "summarise", "upsert", "generate",
            "number", "question", "answer", "turns", "touch", "commit"}
Ended == {"answered", "refused", "failed"}

Goto(r, place) == pc' = [pc EXCEPT ![r] = place]
SessionOf(r) == ask[r].session

\* Its own flushes, after what is committed.
Visible(r) == messages[SessionOf(r)] \o mine[r].messages

\* Messages are read in the order of their numbers.
Earlier(turns) ==
    {p \in (DOMAIN turns) \X (DOMAIN turns) : turns[p[1]].index < turns[p[2]].index}
InOrder(turns) == Sorted(turns, DOMAIN turns, Earlier(turns))

\* next_sequence_index.
NextIndex(turns) == IF turns = <<>> THEN 0 ELSE Max({m.index : m \in ToSet(turns)}) + 1

LastOf(s, n) == SubSeq(s, Max({1, Len(s) - n + 1}), Len(s))

\* The lock a write of this part of r's session needs is free, or its own.
MayWrite(r, part) ==
    \A q \in Requests \ {r} :
        IF setup.database = "SQLite" THEN mine[q] = Unwritten
        ELSE part = "messages" \/ SessionOf(q) # SessionOf(r) \/ mine[q][part] = None

-----------------------------------------------------------------------------
(* The chat sessions of the process. *)

\* start_session: one too many, and the least recently active is forgotten.
StartSession(id) ==
    sessions' = Append(IF Len(sessions) >= MaxSessions THEN Tail(sessions) ELSE sessions, id)

\* record_turn, which knows nothing of a session forgotten meanwhile.
RecordTurn(r) ==
    sessions' = IF SessionOf(r) \in ToSet(sessions)
                THEN Append(SelectSeq(sessions, LAMBDA s : s # SessionOf(r)), SessionOf(r))
                ELSE sessions

\* A client knows a session by an answer, which may be sent before the commit.
Known == {"seed"} \cup {ask[r].session : r \in {q \in Requests : pc[q] \in {"commit", "answered"}}}

\* The question, its case, and the session: one that is not known any more,
\* or none, is a new one; its case is not compared.
Ask(r) ==
    /\ pc[r] = "idle"
    /\ \E w \in Workload, s \in Known \cup {None} :
        LET resumed == s # None /\ s \in ToSet(sessions)
            used == IF resumed THEN s ELSE r
        IN  /\ ask' = [ask EXCEPT ![r] = [case |-> w.case, question |-> w.question,
                                          session |-> used]]
            /\ IF resumed THEN UNCHANGED sessions ELSE StartSession(r)
            /\ raced' = IF \E q \in Requests : pc[q] \in Running /\ SessionOf(q) = used
                        THEN raced \cup {used} ELSE raced
    /\ Goto(r, IF setup.backend = "database" THEN "open" ELSE "window")
    /\ UNCHANGED <<setup, chat, stored, seen, mine, answer>>

\* An empty question, or no such case.
Refuse(r) ==
    /\ pc[r] = "idle"
    /\ Goto(r, "refused")
    /\ UNCHANGED <<setup, process, stored, ask, seen, mine, answer, raced>>

-----------------------------------------------------------------------------
(* ConversationSessionRepository.get_or_create. *)

OpenRow(r) ==
    /\ pc[r] = "open"
    /\ Goto(r, IF rows[SessionOf(r)] = None THEN "insert" ELSE "window")
    /\ UNCHANGED <<setup, process, stored, ask, seen, mine, answer, raced>>

\* Of two requests that insert the row the second is refused it (see Fail).
InsertRow(r) ==
    /\ pc[r] = "insert"
    /\ MayWrite(r, "row") /\ rows[SessionOf(r)] = None
    /\ mine' = [mine EXCEPT ![r].row = [case |-> ask[r].case, turns |-> 0]]
    /\ Goto(r, "window")
    /\ UNCHANGED <<setup, process, stored, ask, seen, answer, raced>>

-----------------------------------------------------------------------------
(* _hydrate_bounded_history. *)

ReadWindow(r) ==
    /\ pc[r] = "window"
    /\ seen' = [seen EXCEPT ![r].recent =
                   IF setup.backend = "memory" THEN LastOf(chat[ask[r].case], Window)
                   ELSE LastOf(InOrder(Visible(r)), Window)]
    /\ Goto(r, IF setup.backend = "memory" THEN "generate" ELSE "count")
    /\ UNCHANGED <<setup, process, stored, ask, mine, answer, raced>>

CountTurns(r) ==
    /\ pc[r] = "count"
    /\ seen' = [seen EXCEPT ![r].total = Len(Visible(r))]
    /\ Goto(r, IF Len(Visible(r)) > Trigger THEN "summarise" ELSE "generate")
    /\ UNCHANGED <<setup, process, stored, ask, mine, answer, raced>>

NoSummary == [told |-> <<>>, covers |-> -1]

\* A slip: the message the summary ends with is taken again.
SummarizedAgain(turns, existing, cutoff) ==
    LET after == {i \in DOMAIN turns : turns[i].index \in existing.covers .. cutoff}
        rest == Sorted(turns, after, Earlier(turns))
    IN  IF rest = <<>> THEN existing
        ELSE [told |-> existing.told \o rest, covers |-> Last(rest).index]

\* What the messages after the summary, up to the cutoff, add to it.
Summarized(turns, existing, cutoff) ==
    LET after == {i \in DOMAIN turns : turns[i].index \in existing.covers + 1 .. cutoff}
        rest == Sorted(turns, after, Earlier(turns))
    IN  IF rest = <<>> THEN existing
        ELSE [told |-> existing.told \o rest, covers |-> Last(rest).index]

Summarise(r) ==
    /\ pc[r] = "summarise"
    /\ LET existing == IF summaries[SessionOf(r)] = None THEN NoSummary
                       ELSE summaries[SessionOf(r)]
           combined == Summarized(Visible(r), existing, seen[r].total - 1 - Keep)
       IN  /\ seen' = [seen EXCEPT ![r].summary = combined]
           /\ Goto(r, IF combined = existing THEN "generate" ELSE "upsert")
    /\ UNCHANGED <<setup, process, stored, ask, mine, answer, raced>>

\* ConversationSummaryRepository.upsert: whatever is there is overwritten; a
\* first row that another request inserts at the same time fails this one.
Upsert(r) ==
    /\ pc[r] = "upsert"
    /\ MayWrite(r, "summary")
    /\ mine' = [mine EXCEPT ![r].summary = seen[r].summary]
    /\ Goto(r, "generate")
    /\ UNCHANGED <<setup, process, stored, ask, seen, answer, raced>>

\* build_bounded_history: the summary, and the newest turns the budget still
\* allows, the newest in any case.
BoundedHistory(summary, recent) ==
    LET told == IF summary = None THEN <<>> ELSE summary.told
    IN  [told |-> told, turns |-> LastOf(recent, Max({1, MaxTokens - Len(told)}))]

-----------------------------------------------------------------------------
(* Retrieval and generation, which only read. *)

Similar(r) ==
    LET found == Memory!FindSimilarExcludingCase(Store, ask[r].question, ask[r].case,
                     MaxSimilar, ToSet(Memory!RecordCategories))
    IN  [i \in DOMAIN found |->
            [id |-> found[i].case, words |-> found[i].words, text |-> found[i].id,
             size |-> 1, quotes |-> {}, starts |-> {}]]

\* A memory that fails is one without similar cases.
Generate(r) ==
    /\ pc[r] = "generate"
    /\ \E remembers \in BOOLEAN :
        LET question == ask[r].question
            documents == Memory!RetrieveKnowledge(Documents, question, MaxDocuments)
            context == Hydrate(Evidence[ask[r].case], question, documents,
                               IF remembers THEN Similar(r) ELSE <<>>)
        IN  /\ ~Oversized(context, question)
            /\ \E a \in Answers(context, question, setup.provider) :
                answer' = [answer EXCEPT ![r] =
                    [history |-> BoundedHistory(seen[r].summary, seen[r].recent), reply |-> a]]
    /\ Goto(r, IF setup.backend = "memory" THEN "answer" ELSE "number")
    /\ UNCHANGED <<setup, process, stored, ask, seen, mine, raced>>

-----------------------------------------------------------------------------
(* Writing the exchange. *)

\* add_turn of the process, twice: nothing comes between.
Remember(r) ==
    /\ pc[r] = "answer" /\ setup.backend = "memory"
    /\ chat' = [chat EXCEPT ![ask[r].case] =
                   LastOf(@ \o <<Message(0, ask[r].case, "user", r),
                                 Message(0, ask[r].case, "assistant", r)>>, MaxTurns)]
    /\ RecordTurn(r)
    /\ Goto(r, "commit")
    /\ UNCHANGED <<setup, stored, ask, seen, mine, answer, raced>>

\* The number is read first, and the insert may have to wait for its lock.
ReadIndex(r) ==
    /\ pc[r] = "number"
    /\ seen' = [seen EXCEPT ![r].index = NextIndex(Visible(r))]
    /\ Goto(r, "question")
    /\ UNCHANGED <<setup, process, stored, ask, mine, answer, raced>>

AppendQuestion(r) ==
    /\ pc[r] = "question"
    /\ MayWrite(r, "messages")
    /\ mine' = [mine EXCEPT ![r].messages =
                   Append(@, Message(seen[r].index, ask[r].case, "user", r))]
    /\ Goto(r, "answer")
    /\ UNCHANGED <<setup, process, stored, ask, seen, answer, raced>>

\* A slip: the answer is given the number after the question's, as read then.
AppendAnswerStale(r) ==
    /\ pc[r] = "answer" /\ setup.backend = "database"
    /\ mine' = [mine EXCEPT ![r].messages =
                   Append(@, Message(NextIndex(messages[SessionOf(r)]), ask[r].case,
                                     "assistant", r))]
    /\ Goto(r, "turns")
    /\ UNCHANGED <<setup, process, stored, ask, seen, answer, raced>>

AppendAnswer(r) ==
    /\ pc[r] = "answer" /\ setup.backend = "database"
    /\ mine' = [mine EXCEPT ![r].messages =
                   Append(@, Message(NextIndex(Visible(r)), ask[r].case, "assistant", r))]
    /\ Goto(r, "turns")
    /\ UNCHANGED <<setup, process, stored, ask, seen, answer, raced>>

\* touch reads the row again, the one that was opened being let go of; one of
\* its own counts nothing yet.
ReadTurns(r) ==
    /\ pc[r] = "turns"
    /\ seen' = [seen EXCEPT ![r].turns =
                   IF rows[SessionOf(r)] = None THEN 0 ELSE rows[SessionOf(r)].turns]
    /\ Goto(r, "touch")
    /\ UNCHANGED <<setup, process, stored, ask, mine, answer, raced>>

\* It counts on from what was read, though the update may have to wait.
Touch(r) ==
    /\ pc[r] = "touch"
    /\ MayWrite(r, "row")
    /\ mine' = [mine EXCEPT ![r].row =
                   [case |-> IF rows[SessionOf(r)] = None THEN ask[r].case
                             ELSE rows[SessionOf(r)].case,
                    turns |-> seen[r].turns + 1]]
    /\ RecordTurn(r)
    /\ Goto(r, "commit")
    /\ UNCHANGED <<setup, chat, stored, ask, seen, answer, raced>>

\* What is left of a request that is over: the session it was in.
Forget(r) ==
    /\ ask' = [ask EXCEPT ![r] = [Unasked EXCEPT !.session = SessionOf(r)]]
    /\ seen' = [seen EXCEPT ![r] = Unseen]
    /\ mine' = [mine EXCEPT ![r] = Unwritten]
    /\ answer' = [answer EXCEPT ![r] = None]

Commit(r) ==
    LET s == SessionOf(r)
        Written(old, new) == IF new = None THEN old ELSE new
    IN  /\ pc[r] = "commit"
        /\ rows' = [rows EXCEPT ![s] = Written(@, mine[r].row)]
        /\ messages' = [messages EXCEPT ![s] = @ \o mine[r].messages]
        /\ summaries' = [summaries EXCEPT ![s] = Written(@, mine[r].summary)]
        /\ Goto(r, "answered")
        /\ Forget(r)
        /\ UNCHANGED <<setup, process, raced>>

\* A statement fails or is refused, a category is oversized, the process is
\* out of patience with a lock: all is rolled back but what the process keeps.
Fail(r) ==
    /\ pc[r] \in Running
    /\ Goto(r, "failed")
    /\ Forget(r)
    /\ UNCHANGED <<setup, process, stored, raced>>

\* All requests are served.
Rest ==
    /\ \A r \in Requests : pc[r] \in Ended
    /\ UNCHANGED vars

-----------------------------------------------------------------------------
SeedMessages ==
    [i \in 1 .. 2 * Seed |->
        Message(i - 1, "c1", IF i % 2 = 1 THEN "user" ELSE "assistant", (i + 1) \div 2)]

Init ==
    /\ \E database \in Databases, backend \in Backends, llm \in LlmSettings :
          setup = [database |-> database, backend |-> backend,
                   provider |-> ChatModelProvider(llm)]
    /\ sessions = <<"seed">>
    /\ LET InRows(s) == s = "seed" /\ setup.backend = "database"
       IN  /\ chat = [c \in Cases |-> IF c = "c1" /\ ~InRows("seed") THEN SeedMessages ELSE <<>>]
           /\ rows = [s \in Sessions |->
                         IF InRows(s) THEN [case |-> "c1", turns |-> Seed] ELSE None]
           /\ messages = [s \in Sessions |-> IF InRows(s) THEN SeedMessages ELSE <<>>]
    /\ summaries = [s \in Sessions |-> None]
    /\ pc = [r \in Requests |-> "idle"]
    /\ ask = [r \in Requests |-> Unasked]
    /\ seen = [r \in Requests |-> Unseen]
    /\ mine = [r \in Requests |-> Unwritten]
    /\ answer = [r \in Requests |-> None]
    /\ raced = {}

Serve(r) ==
    \/ Ask(r) \/ Refuse(r) \/ OpenRow(r) \/ InsertRow(r) \/ ReadWindow(r) \/ CountTurns(r)
    \/ Summarise(r) \/ Upsert(r) \/ Generate(r) \/ Remember(r) \/ ReadIndex(r)
    \/ AppendQuestion(r) \/ AppendAnswer(r) \/ ReadTurns(r) \/ Touch(r) \/ Commit(r) \/ Fail(r)

Next == (\E r \in Requests : Serve(r)) \/ Rest

Spec == Init /\ [][Next]_vars

-----------------------------------------------------------------------------
(* What a reader of the case sees. *)

\* get_conversation_history, and the export: where among the messages of a
\* session those of a case are; their numbers order them.
Transcript(s, c) == {i \in DOMAIN messages[s] : messages[s][i].case = c}

\* get_conversation_analytics.
Analytics(c) ==
    LET all == UNION {{s} \X Transcript(s, c) : s \in Sessions}
    IN  [total   |-> Cardinality(all),
         answers |-> Cardinality({m \in all : messages[m[1]][m[2]].role = "assistant"})]

By(s, c, role, r) ==
    {i \in Transcript(s, c) : messages[s][i].role = role /\ messages[s][i].by = r}

(***************************************************************************)
(* However requests interleave and fail, a transcript is made of pairs:    *)
(* each question a request asked has exactly one answer of this request,   *)
(* behind it in the order of the numbers, which two requests may both have *)
(* given; no answer stands without its question; and a session never       *)
(* counts more turns than it has answers.                                  *)
(***************************************************************************)
TranscriptPaired ==
    /\ \A s \in Sessions, c \in Cases, r \in Requests \cup 1 .. Seed :
          LET questions == By(s, c, "user", r)
              answers == By(s, c, "assistant", r)
          IN  /\ Cardinality(questions) = Cardinality(answers)
              /\ Cardinality(answers) <= 1
              /\ \A i \in questions, j \in answers :
                    messages[s][i].index < messages[s][j].index
    /\ \A c \in Cases : Analytics(c).total = 2 * Analytics(c).answers
    /\ \A s \in Sessions : rows[s] # None => 2 * rows[s].turns <= Len(messages[s])

\* No message is told twice, and none that is not there.
SummariesTellOnce ==
    \A s \in Sessions : summaries[s] # None =>
        LET told == summaries[s].told
            upTo == {m \in ToSet(messages[s]) : m.index <= summaries[s].covers}
        IN  /\ Cardinality(ToSet(told)) = Len(told)
            /\ ToSet(told) \subseteq upTo
            /\ s \notin raced => ToSet(told) = upTo

\* The turns a prompt has are the latest of the session, summary or not.
PromptsEndWithTheLatest ==
    \A r \in Requests :
        /\ answer[r] # None /\ SessionOf(r) \notin raced
        /\ setup.backend = "database" /\ messages[SessionOf(r)] # <<>>
        => LET turns == answer[r].history.turns
           IN  turns # <<>> /\ IsSuffix(turns, messages[SessionOf(r)])

(***************************************************************************)
(* A stored summary is made of messages that are there, none of them       *)
(* twice, though requests overwrite each other's summaries and number      *)
(* their messages alike; as long as no two requests were in the session at *)
(* once it leaves none out that it covers, and a prompt ends with the      *)
(* latest messages.  Nothing is said of a prompt that has a message both   *)
(* in its summary and verbatim (CoveredNotResent).                         *)
(***************************************************************************)
HistoryCovered == SummariesTellOnce /\ PromptsEndWithTheLatest

(***************************************************************************)
(* Messages a summary accounts for are represented only by the summary,    *)
(* never sent again verbatim in the same prompt.                           *)
(***************************************************************************)
CoveredNotResent ==
    \A r \in Requests : answer[r] # None =>
        ToSet(answer[r].history.told) \cap ToSet(answer[r].history.turns) = {}

\* What an answer about a case may rest on; of other cases, their ids.
Sources(c) ==
    LET e == Evidence[c]
    IN  {d.id : d \in ToSet(e.findings) \cup ToSet(e.iocs) \cup ToSet(e.reports)
                      \cup ToSet(e.timeline) \cup ToSet(Documents)}
        \cup {m.id : m \in UNION {ToSet(f.mappings) : f \in ToSet(e.findings)}}
        \cup ({e2.case : e2 \in ToSet(Store)} \ {c})

(***************************************************************************)
(* An answer that is confident, or is not marked as degraded, cites        *)
(* something, and whatever an answer cites is of the case that was asked   *)
(* about, of the knowledge base, or another case: whatever the model       *)
(* claims to rest on, and whatever looks like a tag in the evidence.       *)
(***************************************************************************)
AnswersAreGrounded ==
    \A r \in Requests : answer[r] # None =>
        LET reply == answer[r].reply
        IN  /\ reply.confidence > 0 \/ ~reply.degraded => reply.citations # {}
            /\ reply.citations \subseteq Sources(ask[r].case)
=============================================================================
