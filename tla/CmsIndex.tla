------------------------------- MODULE CmsIndex -------------------------------
(***************************************************************************)
(* One CMS page of a tenant and its rows in rag_chunks, edited by          *)
(* concurrent admin requests.  Each request is one transaction             *)
(* (get_session): write the page, audit, then replace the page's chunks    *)
(* inside a SAVEPOINT whose failure is logged and otherwise ignored.       *)
(*                                                                         *)
(* Postgres runs READ COMMITTED.  An UPDATE locks the page's row until the *)
(* transaction ends; SQLAlchemy sends one only if a value differs from the *)
(* one it loaded.  A DELETE takes the rows committed when it starts and    *)
(* waits for other transactions that deleted one of them.  An INSERT that  *)
(* meets a row with its (page, chunk_index) waits for the transaction that *)
(* wrote or deleted it, and its foreign key waits for a changed slug,      *)
(* which is part of a unique key of cms_pages.                             *)
(***************************************************************************)
EXTENDS Naturals, FiniteSets, Relation

CONSTANTS
    Request,    \* admin requests that edit the page
    Text,       \* bodies the page may have
    Chunks,     \* number of chunks each body is cut into; 0 if blank
    Change,     \* bound: the bodies of PUT and PATCH requests
    None        \* no page, no new value

Status == {"draft", "published", "archived"}
Page == [body : Text, status : Status]

ASSUME CmsIndexAssumption ==
    /\ None \notin Text /\ None \notin Page
    /\ Chunks \in [Text -> Nat]
    /\ Change \subseteq [body : Text \cup {None},
                         status : Status \cup {"none"},
                         slug : BOOLEAN]

VARIABLES
    pc,         \* the statement each request is about to run
    change,     \* the new values each request carries
    deletes,    \* whether it is a DELETE /cms/pages/{id}
    loaded,     \* the page as each request first read it
    draft,      \* the page as each open transaction has written it
    locked,     \* its lock on the page: "none", "update", "key"
    seen,       \* the page each request hands to the index
    target,     \* the chunks its DELETE statement has found
    removed,    \* the chunks its open transaction has deleted
    added,      \* the chunks its open transaction has inserted
    page,       \* the committed page
    index,      \* the committed chunks of the page
    published,  \* history: bodies the page has been published with
    alone,      \* history: no other request was open with this one
    synced      \* history: its index writes have not been given up

request == <<change, deletes, loaded, seen, target>>
committed == <<page, index, published>>
vars == <<pc, request, draft, locked, removed, added, committed, alone, synced>>

\* A chunk row is named after the request that inserted it.
Chunk == [by : Request, pos : Nat, text : Text]

Pages == Page \cup {None}
NoChange == [body |-> None, status |-> "none", slug |-> FALSE]
Archive == [body |-> None, status |-> "archived", slug |-> FALSE]

Syncing == {"delete_chunks", "deleting", "insert_chunk", "check_page"}
Open == {"flush", "commit"} \cup Syncing

Init ==
    /\ pc = [r \in Request |-> "idle"]
    /\ change = [r \in Request |-> NoChange]
    /\ deletes = [r \in Request |-> FALSE]
    /\ loaded = [r \in Request |-> None]
    /\ draft = [r \in Request |-> None]
    /\ locked = [r \in Request |-> "none"]
    /\ seen = [r \in Request |-> None]
    /\ target = [r \in Request |-> {}]
    /\ removed = [r \in Request |-> {}]
    /\ added = [r \in Request |-> {}]
    /\ page = None
    /\ index = {}
    /\ published = {}
    /\ alone = [r \in Request |-> FALSE]
    /\ synced = [r \in Request |-> TRUE]

Goto(r, label) == pc' = [pc EXCEPT ![r] = label]

OpenRequests == {r \in Request : pc[r] \in Open}

\* A request starts; from now on none of the open ones is alone.
Start(r) ==
    /\ pc[r] = "idle"
    /\ alone' = [u \in Request |->
                    IF u = r THEN OpenRequests = {}
                    ELSE alone[u] /\ u \notin OpenRequests]

----------------------------------------------------------------------------
(* Writing the page *)

\* POST /cms/pages.  Another creation with the same slug would wait for this
\* one to end, and be refused by uq_cms_pages_tenant_slug if it committed.
Create(r) ==
    /\ Start(r)
    /\ page = None
    /\ \A u \in OpenRequests : draft[u] = None
    /\ \E b \in Text, s \in Status :
          LET new == [body |-> b, status |-> s]
          IN  /\ draft' = [draft EXCEPT ![r] = new]
              /\ seen' = [seen EXCEPT ![r] = new]
    /\ locked' = [locked EXCEPT ![r] = "key"]
    /\ Goto(r, "delete_chunks")
    /\ UNCHANGED <<change, deletes, loaded, target, removed, added, committed,
                   synced>>

\* The SELECT of PUT, PATCH and DELETE: the values later compared with.
Load(r, c, isDelete) ==
    /\ Start(r)
    /\ page # None
    /\ change' = [change EXCEPT ![r] = c]
    /\ deletes' = [deletes EXCEPT ![r] = isDelete]
    /\ loaded' = [loaded EXCEPT ![r] = page]
    /\ Goto(r, "flush")
    /\ UNCHANGED <<seen, target, draft, locked, removed, added, committed,
                   synced>>

LoadForUpdate(r) == \E c \in Change : Load(r, c, FALSE)
LoadForDelete(r) == Load(r, Archive, TRUE)

NewBody(r) == change[r].body \notin {None, loaded[r].body}
NewStatus(r) == change[r].status \notin {"none", loaded[r].status}

\* An UPDATE is sent for the columns that differ from the loaded ones.
Dirty(r) == NewBody(r) \/ NewStatus(r) \/ change[r].slug

\* The columns the request does not carry are written too.
Written_everyColumn(r) == [body |-> change[r].body, status |-> change[r].status]

Written(r) ==
    [body |-> IF NewBody(r) THEN change[r].body ELSE page.body,
     status |-> IF NewStatus(r) THEN change[r].status ELSE page.status]

\* Inserting a chunk locks the page against a new slug.
Shares(r) ==
    /\ added[r] # {}
    /\ pc[r] = "check_page" => Cardinality(added[r]) > 1

Blockers(r) ==
    CASE pc[r] = "flush" ->
            {u \in OpenRequests \ {r} :
                /\ Dirty(r)
                /\ \/ locked[u] # "none"
                   \/ change[r].slug /\ Shares(u)}
      [] pc[r] = "deleting" ->
            {u \in OpenRequests \ {r} : removed[u] \cap target[r] # {}}
      [] pc[r] = "insert_chunk" ->
            {u \in OpenRequests \ {r} :
                \E c \in added[u] \cup (removed[u] \cap index) :
                    c.pos = Cardinality(added[r])}
      [] pc[r] = "check_page" ->
            {u \in OpenRequests \ {r} : locked[u] = "key" /\ ~Shares(r)}
      [] OTHER -> {}

\* The flush, and for PUT and PATCH the refresh that reads the row back.
Flush(r) ==
    /\ pc[r] = "flush"
    /\ Blockers(r) = {}
    /\ IF Dirty(r)
       THEN /\ draft' = [draft EXCEPT ![r] = Written(r)]
            /\ locked' = [locked EXCEPT
                            ![r] = IF change[r].slug THEN "key" ELSE "update"]
            /\ seen' = [seen EXCEPT ![r] = Written(r)]
       ELSE /\ seen' = [seen EXCEPT ![r] = page]
            /\ UNCHANGED <<draft, locked>>
    /\ Goto(r, "delete_chunks")
    /\ UNCHANGED <<change, deletes, loaded, target, removed, added, committed,
                   alone, synced>>

----------------------------------------------------------------------------
(* Replacing the chunks *)

Indexed_everyPage(r) == ~deletes[r]

\* sync_cms_page_index inserts chunks for published pages only.
Indexed(r) == ~deletes[r] /\ seen[r].status = "published"

\* Pages that are not published are left alone.
DeleteChunks_publishedOnly(r) ==
    /\ pc[r] = "delete_chunks"
    /\ target' = [target EXCEPT ![r] = IF Indexed(r) THEN index ELSE {}]
    /\ Goto(r, "deleting")
    /\ UNCHANGED <<change, deletes, loaded, seen, draft, locked, removed, added,
                   committed, alone, synced>>

DeleteChunks(r) ==
    /\ pc[r] = "delete_chunks"
    /\ target' = [target EXCEPT ![r] = index]
    /\ Goto(r, "deleting")
    /\ UNCHANGED <<change, deletes, loaded, seen, draft, locked, removed, added,
                   committed, alone, synced>>

\* The next position to insert, or the end of the SAVEPOINT.
AfterChunks(r, n) ==
    Goto(r, IF Indexed(r) /\ n < Chunks[seen[r].body] THEN "insert_chunk"
                                                      ELSE "commit")

\* The DELETE ends: rows that are gone by now are skipped.
ChunksDeleted(r) ==
    /\ pc[r] = "deleting"
    /\ Blockers(r) = {}
    /\ removed' = [removed EXCEPT ![r] = target[r] \cap index]
    /\ AfterChunks(r, 0)
    /\ UNCHANGED <<request, draft, locked, added, committed, alone, synced>>

\* uq_rag_chunks_tenant_page_idx.
PositionTaken_never(r) == FALSE

PositionTaken(r) ==
    \E c \in index \ removed[r] : c.pos = Cardinality(added[r])

InsertChunk(r) ==
    /\ pc[r] = "insert_chunk"
    /\ Blockers(r) = {}
    /\ ~PositionTaken(r)
    /\ added' = [added EXCEPT
                   ![r] = @ \cup {[by |-> r, pos |-> Cardinality(@),
                                   text |-> seen[r].body]}]
    /\ Goto(r, "check_page")
    /\ UNCHANGED <<request, draft, locked, removed, committed, alone, synced>>

\* The foreign key of the inserted row.
CheckPage(r) ==
    /\ pc[r] = "check_page"
    /\ Blockers(r) = {}
    /\ AfterChunks(r, Cardinality(added[r]))
    /\ UNCHANGED <<request, draft, locked, removed, added, committed, alone,
                   synced>>

\* The SAVEPOINT is rolled back, and the error logged.
SkipSync(r) ==
    /\ removed' = [removed EXCEPT ![r] = {}]
    /\ added' = [added EXCEPT ![r] = {}]
    /\ synced' = [synced EXCEPT ![r] = FALSE]
    /\ Goto(r, "commit")
    /\ UNCHANGED <<request, draft, locked, committed, alone>>

\* The position is taken by a chunk another request has committed since.
UniqueViolation(r) ==
    /\ pc[r] = "insert_chunk"
    /\ Blockers(r) = {}
    /\ PositionTaken(r)
    /\ SkipSync(r)

Deadlocked_never(r) == FALSE

Deadlocked(r) ==
    TransitiveClosure([x, y \in Request |-> y \in Blockers(x)], Request)[r, r]

\* Postgres ends a deadlock by failing a statement of one of the requests.
DeadlockDetected(r) ==
    /\ pc[r] \in Syncing
    /\ Deadlocked(r)
    /\ SkipSync(r)

\* Any other error of the index writes.
SyncFails(r) ==
    /\ pc[r] \in Syncing
    /\ SkipSync(r)

----------------------------------------------------------------------------
(* End of the request *)

\* The transaction, its locks and the request's own values are gone.
Release(r) ==
    /\ draft' = [draft EXCEPT ![r] = None]
    /\ locked' = [locked EXCEPT ![r] = "none"]
    /\ removed' = [removed EXCEPT ![r] = {}]
    /\ added' = [added EXCEPT ![r] = {}]
    /\ change' = [change EXCEPT ![r] = NoChange]
    /\ deletes' = [deletes EXCEPT ![r] = FALSE]
    /\ loaded' = [loaded EXCEPT ![r] = None]
    /\ seen' = [seen EXCEPT ![r] = None]
    /\ target' = [target EXCEPT ![r] = {}]
    /\ UNCHANGED <<alone, synced>>

Commit(r) ==
    /\ pc[r] = "commit"
    /\ LET new == IF draft[r] = None THEN page ELSE draft[r]
       IN  /\ page' = new
           /\ published' = published \cup
                 (IF new.status = "published" THEN {new.body} ELSE {})
    /\ index' = (index \ removed[r]) \cup added[r]
    /\ Goto(r, "answered")
    /\ Release(r)

\* A statement outside the SAVEPOINT fails, or the request is cancelled.
DatabaseError(r) ==
    /\ pc[r] \in Open
    /\ Goto(r, "failed")
    /\ Release(r)
    /\ UNCHANGED committed

RequestStep(r) ==
    \/ Flush(r) \/ DeleteChunks(r) \/ ChunksDeleted(r) \/ InsertChunk(r)
    \/ CheckPage(r) \/ UniqueViolation(r) \/ DeadlockDetected(r) \/ Commit(r)

Next ==
    \E r \in Request :
        \/ Create(r) \/ LoadForUpdate(r) \/ LoadForDelete(r)
        \/ RequestStep(r) \/ SyncFails(r) \/ DatabaseError(r)

\* Statements run and Postgres grants a free lock and detects deadlocks;
\* requests need not arrive and statements need not fail.
Fairness == \A r \in Request : WF_vars(RequestStep(r))

Spec == Init /\ [][Next]_vars /\ Fairness

----------------------------------------------------------------------------
(* Retrieval *)

\* _INDEXED_CHUNKS_SQL: the texts retrieval finds in the index.
IndexedTexts ==
    IF page # None /\ page.status = "published" THEN {c.text : c \in index}
                                                ELSE {}

\* The texts a visitor can be answered from: the index, or the page itself
\* when nothing in the index matches.
ServedTexts ==
    IndexedTexts \cup
        (IF page # None /\ page.status = "published" THEN {page.body} ELSE {})

----------------------------------------------------------------------------
(* Properties *)

States == Open \cup {"idle", "answered", "failed"}

\* Every variable has its type.
TypeOK ==
    /\ pc \in [Request -> States]
    /\ change \in [Request -> Change \cup {NoChange, Archive}]
    /\ deletes \in [Request -> BOOLEAN]
    /\ loaded \in [Request -> Pages]
    /\ draft \in [Request -> Pages]
    /\ locked \in [Request -> {"none", "update", "key"}]
    /\ seen \in [Request -> Pages]
    /\ target \in [Request -> SUBSET Chunk]
    /\ removed \in [Request -> SUBSET Chunk]
    /\ added \in [Request -> SUBSET Chunk]
    /\ page \in Pages
    /\ index \in SUBSET Chunk
    /\ published \in SUBSET Text
    /\ alone \in [Request -> BOOLEAN]
    /\ synced \in [Request -> BOOLEAN]

Positions(rows) == {c.pos : c \in rows}

\* The rows are the chunks of one body, all of them and once each.
WholeText(rows) ==
    \E t \in Text :
        /\ \A c \in rows : c.text = t
        /\ Positions(rows) = {n \in 0..Chunks[t] : n < Chunks[t]}
        /\ Cardinality(rows) = Chunks[t]

\* ingest.py:148: however edits of a page interleave and fail, its chunks are
\* those of one body, never of two bodies nor of half a body.
IndexIsOneText == index = {} \/ WholeText(index)

\* ingest.py:150-151: a visitor is never answered from a text the page was
\* never published with, a draft for instance, however stale the index is.
OnlyPublishedServed == ServedTexts \subseteq published

InSync ==
    IF page.status = "published" /\ Chunks[page.body] > 0
    THEN WholeText(index) /\ \A c \in index : c.text = page.body
    ELSE index = {}

\* cms_pages.py:3: an edit that no other edit overlaps, and whose index writes
\* succeed, leaves the index in step with the page, whatever happened before.
LoneEditRepairs ==
    [][\A r \in Request :
          (pc[r] = "commit" /\ pc'[r] = "answered" /\ alone[r] /\ synced[r])
              => InSync']_vars

\* Every edit ends, although edits wait for one another in two orders: of
\* finitely many edits, none is left open.
EveryEditEnds == OpenRequests # {} ~> OpenRequests = {}

\* Claimed by cms_pages.py:3-4, "Each successful mutation keeps the tenant RAG
\* index in sync": once every edit has been answered, none having given up its
\* index writes, a published page is indexed with its own body.
AnsweredEditsAreIndexed ==
    ( /\ page # None /\ page.status = "published"
      /\ \A r \in Request : pc[r] \in {"idle", "answered"} /\ synced[r] )
        => InSync
=============================================================================
