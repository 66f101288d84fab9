-------------------------- MODULE TenantContentProofs --------------------------
(***************************************************************************)
(* Proofs about CmsIndex: the committed chunks are always those of one     *)
(* body, only published bodies are served, and an edit that nothing        *)
(* overlaps repairs the index; about TenantLifecycle: what an erasure      *)
(* leaves; about Chunking: the chunks of a text leave no gap; and the      *)
(* types of what a tenant has.                                             *)
(*                                                                         *)
(* The index is whole because a request that deletes chunks has all of     *)
(* them and has them alone (DeletedAll), one that inserts has deleted all  *)
(* there were (InsertsAlone) and has inserted an initial part of its own   *)
(* body's chunks (Inserted).  That a DELETE which had to wait removes      *)
(* nothing or everything is FoundOrGone.                                   *)
(***************************************************************************)
EXTENDS MCTenantContent, FiniteSetTheorems, SequenceTheorems, TLAPS

(* The page and its index *)

Places == {"insert_chunk", "check_page", "commit"}

\* The rows a request has inserted are the first of its body's chunks: all of
\* them, or none, when it is about to commit.
Inserted(r) ==
    /\ IsFiniteSet(added[r])
    /\ \A c \in added[r] : c.by = r /\ c.text = seen[r].body
    /\ Positions(added[r]) = {n \in Nat : n < Cardinality(added[r])}
    /\ added[r] \cup removed[r] # {} => pc[r] \in Places
    /\ added[r] # {} => Indexed(r) /\ Cardinality(added[r]) <= Chunks[seen[r].body]
    /\ pc[r] = "insert_chunk" =>
          Indexed(r) /\ Cardinality(added[r]) < Chunks[seen[r].body]
    /\ pc[r] = "commit" /\ added[r] # {} =>
          Cardinality(added[r]) = Chunks[seen[r].body]

\* What a request hands to the index is its own draft, or a page that was
\* committed.
SeenPage(r) ==
    /\ pc[r] \notin Open \ {"flush"} => draft[r] = None
    /\ pc[r] \in Open /\ draft[r] = None => page # None
    /\ pc[r] \in Open \ {"flush"} =>
          /\ seen[r] \in Page
          /\ draft[r] \in {None, seen[r]}
          /\ draft[r] = None /\ seen[r].status = "published" => seen[r].body \in published

\* The published bodies are those the page and its chunks tell.
PublishedTold ==
    /\ page # None /\ page.status = "published" => page.body \in published
    /\ \A c \in index : c.text \in published

\* Committed rows are of requests that ended.
RowsAnswered ==
    \A c \in index \cup UNION {target[r] : r \in Request} : pc[c.by] = "answered"

\* What a DELETE found is by now all that is there, or gone.
FoundOrGone == \A r \in Request : target[r] \cap index \in {{}, index}

\* Who deleted chunks deleted all there are, alone.
DeletedAll ==
    \A r \in Request : removed[r] # {} =>
        /\ removed[r] = index
        /\ \A u \in Request \ {r} : removed[u] = {}

\* Who inserts chunks has deleted all there were, and is alone in it.
InsertsAlone ==
    \A r \in Request : added[r] # {} =>
        /\ removed[r] = index
        /\ \A u \in Request \ {r} : added[u] = {}

CmsIInv ==
    /\ TypeOK
    /\ \A r \in Request : Inserted(r) /\ SeenPage(r)
    /\ PublishedTold
    /\ RowsAnswered
    /\ FoundOrGone
    /\ DeletedAll
    /\ InsertsAlone
    /\ IsFiniteSet(index) /\ IndexIsOneText

----------------------------------------------------------------------------
(* The page and its index: what the steps have in common. *)

\* An index that is not empty has a first chunk; so has what a request has
\* inserted.
LEMMA FirstChunk ==
  ASSUME TypeOK, IsFiniteSet(index), IndexIsOneText, index # {}
  PROVE  \E c \in index : c.pos = 0
<1>1. PICK t \in Text :
        /\ Positions(index) = {n \in 0..Chunks[t] : n < Chunks[t]}
        /\ Cardinality(index) = Chunks[t]
  BY DEF IndexIsOneText, WholeText
<1>2. Chunks[t] \in Nat /\ Chunks[t] # 0
  BY <1>1, FS_EmptySet, CmsIndexAssumption
<1>3. 0 \in Positions(index)
  BY <1>1, <1>2
<1> QED
  BY <1>3 DEF Positions

LEMMA FirstInserted ==
  ASSUME NEW r \in Request, Inserted(r), added[r] # {}
  PROVE  \E c \in added[r] : c.pos = 0
<1>1. Cardinality(added[r]) \in Nat /\ Cardinality(added[r]) # 0
  BY FS_EmptySet, FS_CardinalityType DEF Inserted
<1>2. 0 \in Positions(added[r])
  BY <1>1 DEF Inserted
<1> QED
  BY <1>2 DEF Positions

\* A request's own facts stay while its own variables do.
LEMMA OwnFrame ==
  ASSUME NEW u \in Request, Inserted(u), SeenPage(u),
         pc'[u] = pc[u], seen'[u] = seen[u], deletes'[u] = deletes[u],
         added'[u] = added[u], removed'[u] = removed[u], draft'[u] = draft[u],
         published \subseteq published', page # None => page' # None
  PROVE  Inserted(u)' /\ SeenPage(u)'
<1>1. Indexed(u)' <=> Indexed(u)
  BY DEF Indexed
<1>2. Positions(added[u])' = Positions(added[u])
  BY DEF Positions
<1>3. Inserted(u)'
  BY <1>1, <1>2 DEF Inserted
<1>4. SeenPage(u)'
  BY DEF SeenPage
<1> QED
  BY <1>3, <1>4

\* The variables of the other requests.
Untouched(u) ==
    /\ pc'[u] = pc[u] /\ seen'[u] = seen[u] /\ deletes'[u] = deletes[u]
    /\ target'[u] = target[u] /\ draft'[u] = draft[u]
    /\ removed'[u] = removed[u] /\ added'[u] = added[u]

\* A step that writes nothing to the chunks, or drops what a request wrote.
LEMMA QuietStep ==
  ASSUME CmsIInv, TypeOK', NEW r \in Request,
         UNCHANGED <<page, index, published>>,
         \A u \in Request \ {r} : Untouched(u),
         target'[r] \in {target[r], index, {}},
         \/ removed'[r] = removed[r] /\ added'[r] = added[r]
         \/ removed'[r] = {} /\ added'[r] = {},
         pc[r] # "answered",
         Inserted(r)', SeenPage(r)'
  PROVE  CmsIInv'
<1> USE DEF CmsIInv
<1>1. \A u \in Request : Inserted(u)' /\ SeenPage(u)'
  BY OwnFrame DEF Untouched
<1>2. PublishedTold'
  BY DEF PublishedTold
<1>3. RowsAnswered'
  <2> SUFFICES ASSUME NEW c \in index \cup UNION {target'[u] : u \in Request}
               PROVE  pc'[c.by] = "answered"
    BY DEF RowsAnswered
  <2>1. c \in index \cup UNION {target[u] : u \in Request}
    BY DEF Untouched
  <2>2. pc[c.by] = "answered" /\ c.by \in Request
    BY <2>1 DEF RowsAnswered, TypeOK, Chunk
  <2> QED
    BY <2>2 DEF Untouched
<1>4. FoundOrGone'
  BY DEF FoundOrGone, Untouched
<1>5. DeletedAll'
  BY DEF DeletedAll, Untouched
<1>6. InsertsAlone'
  BY DEF InsertsAlone, Untouched
<1>7. IsFiniteSet(index)' /\ IndexIsOneText'
  BY DEF IndexIsOneText, WholeText, Positions
<1> QED
  BY <1>1, <1>2, <1>3, <1>4, <1>5, <1>6, <1>7

\* The invariant of the initial states: there is no page.
LEMMA InitCms == Init => CmsIInv
<1> SUFFICES ASSUME Init PROVE CmsIInv
  OBVIOUS
<1>1. TypeOK
  BY DEF Init, TypeOK, States, Open, Pages
<1>2. \A r \in Request : Inserted(r) /\ SeenPage(r)
  <2> SUFFICES ASSUME NEW r \in Request PROVE Inserted(r) /\ SeenPage(r)
    OBVIOUS
  <2>1. added[r] = {} /\ removed[r] = {} /\ pc[r] = "idle" /\ draft[r] = None
    BY DEF Init
  <2>2. Positions({}) = {n \in Nat : n < Cardinality({})}
    BY FS_EmptySet DEF Positions
  <2> QED
    BY <2>1, <2>2, FS_EmptySet DEF Inserted, SeenPage, Open, Syncing
<1>3. PublishedTold /\ RowsAnswered /\ FoundOrGone /\ DeletedAll /\ InsertsAlone
  BY DEF Init, PublishedTold, RowsAnswered, FoundOrGone, DeletedAll, InsertsAlone
<1>4. IsFiniteSet(index) /\ IndexIsOneText
  BY FS_EmptySet DEF Init, IndexIsOneText
<1> QED
  BY <1>1, <1>2, <1>3, <1>4 DEF CmsIInv

\* A request that has not reached its DELETE has written no chunks.
LEMMA NothingWritten ==
  ASSUME NEW r \in Request, Inserted(r), pc[r] \notin Places
  PROVE  added[r] = {} /\ removed[r] = {}
BY DEF Inserted

\* And it has still not once it has moved on, short of the INSERTs.
LEMMA NoChunks ==
  ASSUME NEW r \in Request, added'[r] = {}, removed'[r] = {} \/ pc'[r] = "commit",
         pc'[r] # "insert_chunk"
  PROVE  Inserted(r)'
<1>1. Positions({}) = {n \in Nat : n < Cardinality({})}
  BY FS_EmptySet DEF Positions
<1> QED
  BY <1>1, FS_EmptySet DEF Inserted, Places

(* Types. *)

LEMMA PageIsNone == \A p \in Page : p # None
BY CmsIndexAssumption

LEMMA StartTypes ==
  ASSUME TypeOK, NEW r \in Request, Start(r)
  PROVE  alone' \in [Request -> BOOLEAN]
BY DEF Start, TypeOK

LEMMA CreateTypes ==
  ASSUME TypeOK, NEW r \in Request, Create(r)
  PROVE  TypeOK'
<1>1. alone' \in [Request -> BOOLEAN]
  BY StartTypes DEF Create
<1>2. draft' \in [Request -> Pages] /\ seen' \in [Request -> Pages]
  BY DEF Create, TypeOK, Pages, Page
<1> QED
  BY <1>1, <1>2 DEF Create, TypeOK, Goto, States, Open, Syncing, committed

LEMMA LoadTypes ==
  ASSUME TypeOK, NEW r \in Request, NEW c \in Change \cup {NoChange, Archive},
         NEW d \in BOOLEAN, Load(r, c, d)
  PROVE  TypeOK'
<1>1. alone' \in [Request -> BOOLEAN]
  BY StartTypes DEF Load
<1> QED
  BY <1>1 DEF Load, TypeOK, Goto, States, Open, Syncing, committed

\* What an UPDATE writes is a page.
LEMMA WrittenPage ==
  ASSUME TypeOK, NEW r \in Request, page \in Page
  PROVE  Written(r) \in Page
<1>1. change[r] \in [body : Text \cup {None}, status : Status \cup {"none"}, slug : BOOLEAN]
  <2>1. change[r] \in Change \cup {NoChange, Archive}
    BY DEF TypeOK
  <2>2. CASE change[r] \in Change
    BY <2>2, CmsIndexAssumption
  <2>3. /\ NoChange \in [body : Text \cup {None}, status : Status \cup {"none"}, slug : BOOLEAN]
        /\ Archive \in [body : Text \cup {None}, status : Status \cup {"none"}, slug : BOOLEAN]
    BY DEF NoChange, Archive, Status
  <2> QED
    BY <2>1, <2>2, <2>3
<1> QED
  BY <1>1 DEF Written, NewBody, NewStatus, Page, Status

LEMMA FlushTypes ==
  ASSUME TypeOK, NEW r \in Request, page \in Page, Flush(r)
  PROVE  TypeOK'
<1>1. draft' \in [Request -> Pages] /\ seen' \in [Request -> Pages]
  BY WrittenPage DEF Flush, TypeOK, Pages
<1>2. locked' \in [Request -> {"none", "update", "key"}]
  BY DEF Flush, TypeOK
<1> QED
  BY <1>1, <1>2 DEF Flush, TypeOK, Goto, States, Open, Syncing, committed

LEMMA DeleteTypes ==
  ASSUME TypeOK, NEW r \in Request, DeleteChunks(r)
  PROVE  TypeOK'
BY DEF DeleteChunks, TypeOK, Goto, States, Open, Syncing, committed

LEMMA ChunksDeletedTypes ==
  ASSUME TypeOK, NEW r \in Request, ChunksDeleted(r)
  PROVE  TypeOK'
<1>1. removed' \in [Request -> SUBSET Chunk]
  BY DEF ChunksDeleted, TypeOK
<1>2. pc' \in [Request -> States]
  BY DEF ChunksDeleted, AfterChunks, TypeOK, Goto, States, Open, Syncing
<1> QED
  BY <1>1, <1>2 DEF ChunksDeleted, TypeOK, request, committed

LEMMA CheckTypes ==
  ASSUME TypeOK, NEW r \in Request, CheckPage(r)
  PROVE  TypeOK'
<1>1. pc' \in [Request -> States]
  BY DEF CheckPage, AfterChunks, TypeOK, Goto, States, Open, Syncing
<1> QED
  BY <1>1 DEF CheckPage, TypeOK, request, committed

LEMMA InsertTypes ==
  ASSUME TypeOK, NEW r \in Request, IsFiniteSet(added[r]), seen[r] \in Page, InsertChunk(r)
  PROVE  TypeOK'
<1> DEFINE c == [by |-> r, pos |-> Cardinality(added[r]), text |-> seen[r].body]
<1>1. c \in Chunk
  BY FS_CardinalityType DEF Chunk, Page
<1>2. added' = [added EXCEPT ![r] = added[r] \cup {c}]
  BY DEF InsertChunk, TypeOK
<1> HIDE DEF c
<1>3. added' \in [Request -> SUBSET Chunk]
  BY <1>1, <1>2 DEF TypeOK
<1>4. pc' \in [Request -> States]
  BY DEF InsertChunk, TypeOK, Goto, States, Open, Syncing
<1> QED
  BY <1>3, <1>4 DEF InsertChunk, TypeOK, request, committed

LEMMA SkipTypes ==
  ASSUME TypeOK, NEW r \in Request, SkipSync(r)
  PROVE  TypeOK'
<1>1. pc' \in [Request -> States] /\ removed' \in [Request -> SUBSET Chunk]
      /\ added' \in [Request -> SUBSET Chunk] /\ synced' \in [Request -> BOOLEAN]
  BY DEF SkipSync, TypeOK, Goto, States, Open, Syncing
<1> QED
  BY <1>1 DEF SkipSync, TypeOK, request, committed

LEMMA ReleaseTypes ==
  ASSUME TypeOK, NEW r \in Request, NEW how \in {"answered", "failed"}, Goto(r, how),
         Release(r), page' \in Pages, index' \in SUBSET Chunk, published' \in SUBSET Text
  PROVE  TypeOK'
<1>1. pc' \in [Request -> States]
  BY DEF TypeOK, Goto, States
<1>2. /\ draft' \in [Request -> Pages] /\ locked' \in [Request -> {"none", "update", "key"}]
      /\ removed' \in [Request -> SUBSET Chunk] /\ added' \in [Request -> SUBSET Chunk]
      /\ change' \in [Request -> Change \cup {NoChange, Archive}]
      /\ deletes' \in [Request -> BOOLEAN]
  BY DEF Release, TypeOK, Pages
<1>3. /\ loaded' \in [Request -> Pages] /\ seen' \in [Request -> Pages]
      /\ target' \in [Request -> SUBSET Chunk]
      /\ alone' \in [Request -> BOOLEAN] /\ synced' \in [Request -> BOOLEAN]
  BY DEF Release, TypeOK, Pages
<1> QED
  BY <1>1, <1>2, <1>3 DEF TypeOK

(* The page. *)

LEMMA CreateStep ==
  ASSUME CmsIInv, NEW r \in Request, Create(r)
  PROVE  CmsIInv'
<1> USE DEF CmsIInv
<1>1. PICK p \in Page : draft' = [draft EXCEPT ![r] = p] /\ seen' = [seen EXCEPT ![r] = p]
  BY DEF Create, Page
<1>2. /\ pc[r] = "idle" /\ pc' = [pc EXCEPT ![r] = "delete_chunks"]
      /\ UNCHANGED <<deletes, target, removed, added, page, index, published>>
  BY DEF Create, Start, Goto, committed
<1>3. TypeOK'
  BY CreateTypes
<1>4. /\ \A u \in Request \ {r} : Untouched(u)
      /\ pc'[r] = "delete_chunks" /\ draft'[r] = p /\ seen'[r] = p
      /\ added'[r] = added[r] /\ removed'[r] = removed[r] /\ target'[r] = target[r]
  BY <1>1, <1>2 DEF TypeOK, Untouched
<1>5. added[r] = {} /\ removed[r] = {}
  BY <1>2, NothingWritten DEF Places
<1>6. Inserted(r)'
  BY <1>4, <1>5, NoChunks
<1>7. SeenPage(r)'
  BY <1>4, PageIsNone DEF SeenPage, Open, Syncing
<1> QED
  BY <1>2, <1>3, <1>4, <1>6, <1>7, QuietStep

LEMMA LoadStep ==
  ASSUME CmsIInv, NEW r \in Request, NEW c \in Change \cup {NoChange, Archive},
         NEW d \in BOOLEAN, Load(r, c, d)
  PROVE  CmsIInv'
<1> USE DEF CmsIInv
<1>1. /\ pc[r] = "idle" /\ pc' = [pc EXCEPT ![r] = "flush"] /\ page # None
      /\ deletes' = [deletes EXCEPT ![r] = d]
      /\ UNCHANGED <<seen, target, draft, removed, added, page, index, published>>
  BY DEF Load, Start, Goto, committed
<1>2. TypeOK'
  BY LoadTypes
<1>3. /\ \A u \in Request \ {r} : Untouched(u)
      /\ pc'[r] = "flush" /\ draft'[r] = draft[r]
      /\ added'[r] = added[r] /\ removed'[r] = removed[r] /\ target'[r] = target[r]
  BY <1>1 DEF TypeOK, Untouched
<1>4. added[r] = {} /\ removed[r] = {}
  BY <1>1, NothingWritten DEF Places
<1>5. Inserted(r)'
  BY <1>3, <1>4, NoChunks
<1>6. SeenPage(r)'
  BY <1>1, <1>3 DEF SeenPage, Open, Syncing
<1> QED
  BY <1>1, <1>2, <1>3, <1>5, <1>6, QuietStep

LEMMA FlushStep ==
  ASSUME CmsIInv, NEW r \in Request, Flush(r)
  PROVE  CmsIInv'
<1> USE DEF CmsIInv
<1>1. /\ pc[r] = "flush" /\ pc' = [pc EXCEPT ![r] = "delete_chunks"]
      /\ UNCHANGED <<deletes, target, removed, added, page, index, published>>
  BY DEF Flush, Goto, committed
<1>2. draft[r] = None /\ page \in Page
  BY <1>1 DEF SeenPage, Open, TypeOK, Pages
<1>3. TypeOK'
  BY <1>2, FlushTypes
<1>4. /\ \A u \in Request \ {r} : Untouched(u)
      /\ pc'[r] = "delete_chunks"
      /\ added'[r] = added[r] /\ removed'[r] = removed[r] /\ target'[r] = target[r]
  BY <1>1 DEF TypeOK, Untouched, Flush
<1>5. Inserted(r)'
  BY <1>1, <1>4, NothingWritten, NoChunks DEF Places
<1>6. /\ seen'[r] \in Page /\ draft'[r] \in {None, seen'[r]}
      /\ draft'[r] = None => seen'[r] = page
  BY <1>2, WrittenPage, PageIsNone DEF Flush, TypeOK
<1>7. SeenPage(r)'
  BY <1>1, <1>2, <1>4, <1>6, PageIsNone DEF SeenPage, Open, Syncing, PublishedTold
<1> QED
  BY <1>1, <1>3, <1>4, <1>5, <1>7, QuietStep

(* Replacing the chunks. *)

LEMMA DeleteStep ==
  ASSUME CmsIInv, NEW r \in Request, DeleteChunks(r)
  PROVE  CmsIInv'
<1> USE DEF CmsIInv
<1>1. /\ pc[r] = "delete_chunks" /\ pc' = [pc EXCEPT ![r] = "deleting"]
      /\ target' = [target EXCEPT ![r] = index]
      /\ UNCHANGED <<deletes, seen, draft, removed, added, page, index, published>>
  BY DEF DeleteChunks, Goto, committed
<1>2. TypeOK'
  BY DeleteTypes
<1>3. /\ \A u \in Request \ {r} : Untouched(u)
      /\ pc'[r] = "deleting" /\ target'[r] = index
      /\ added'[r] = added[r] /\ removed'[r] = removed[r]
  BY <1>1 DEF TypeOK, Untouched
<1>4. Inserted(r)'
  BY <1>1, <1>3, NothingWritten, NoChunks DEF Places
<1>5. SeenPage(r)'
  BY <1>1, <1>3 DEF SeenPage, Open, Syncing
<1> QED
  BY <1>1, <1>2, <1>3, <1>4, <1>5, QuietStep

\* Where AfterChunks goes.
LEMMA After ==
  ASSUME NEW r \in Request, NEW n, TypeOK, AfterChunks(r, n), seen[r] \in Page, n \in Nat
  PROVE  \/ Indexed(r) /\ n < Chunks[seen[r].body] /\ pc' = [pc EXCEPT ![r] = "insert_chunk"]
         \/ Indexed(r) /\ n >= Chunks[seen[r].body] /\ pc' = [pc EXCEPT ![r] = "commit"]
         \/ ~Indexed(r) /\ pc' = [pc EXCEPT ![r] = "commit"]
<1>1. Chunks[seen[r].body] \in Nat
  BY CmsIndexAssumption DEF Page
<1>2. CASE Indexed(r) /\ n < Chunks[seen[r].body]
  BY <1>2 DEF AfterChunks, Goto
<1>3. CASE ~(Indexed(r) /\ n < Chunks[seen[r].body])
  <2>1. pc' = [pc EXCEPT ![r] = "commit"]
    BY <1>3 DEF AfterChunks, Goto
  <2>2. ~Indexed(r) \/ n >= Chunks[seen[r].body]
    BY <1>1, <1>3
  <2> QED
    BY <2>1, <2>2
<1> QED
  BY <1>2, <1>3

\* The DELETE ends when nobody else has deleted what it found: by then that is
\* all there is, or gone.
LEMMA ChunksDeletedStep ==
  ASSUME CmsIInv, NEW r \in Request, ChunksDeleted(r)
  PROVE  CmsIInv'
<1> USE DEF CmsIInv
<1>1. /\ pc[r] = "deleting" /\ AfterChunks(r, 0)
      /\ removed' = [removed EXCEPT ![r] = target[r] \cap index]
      /\ UNCHANGED <<deletes, seen, target, draft, added, page, index, published>>
  BY DEF ChunksDeleted, request, committed
<1>2. TypeOK'
  BY ChunksDeletedTypes
<1>3. seen[r] \in Page
  BY <1>1 DEF SeenPage, Open, Syncing
<1>4. \/ Indexed(r) /\ 0 < Chunks[seen[r].body] /\ pc' = [pc EXCEPT ![r] = "insert_chunk"]
      \/ pc' = [pc EXCEPT ![r] = "commit"]
  BY <1>1, <1>3, After
<1>5. /\ \A u \in Request \ {r} : Untouched(u)
      /\ removed'[r] = target[r] \cap index /\ added'[r] = added[r]
      /\ target'[r] = target[r] /\ seen'[r] = seen[r] /\ deletes'[r] = deletes[r]
      /\ draft'[r] = draft[r]
  BY <1>1, <1>4 DEF TypeOK, Untouched
<1>6. /\ pc'[r] \in {"insert_chunk", "commit"}
      /\ pc'[r] = "insert_chunk" => Indexed(r) /\ 0 < Chunks[seen[r].body]
  BY <1>4 DEF TypeOK
<1>7. added[r] = {} /\ removed[r] = {}
  BY <1>1, NothingWritten DEF Places
<1>8. Inserted(r)'
  <2>1. Positions(added[r])' = {n \in Nat : n < Cardinality(added'[r])}
    BY <1>5, <1>7, FS_EmptySet DEF Positions
  <2>2. IsFiniteSet(added'[r]) /\ Cardinality(added'[r]) = 0
    BY <1>5, <1>7, FS_EmptySet
  <2>3. Indexed(r)' <=> Indexed(r)
    BY <1>5 DEF Indexed
  <2> QED
    BY <1>5, <1>6, <1>7, <2>1, <2>2, <2>3 DEF Inserted, Places
<1>9. SeenPage(r)'
  BY <1>1, <1>5, <1>6 DEF SeenPage, Open, Syncing
<1>10. \A u \in Request : Inserted(u)' /\ SeenPage(u)'
  BY <1>1, <1>5, <1>8, <1>9, OwnFrame DEF Untouched
<1>11. PublishedTold' /\ IsFiniteSet(index)' /\ IndexIsOneText'
  BY <1>1 DEF PublishedTold, IndexIsOneText, WholeText, Positions
<1>12. RowsAnswered'
  <2>1. \A c \in index \cup UNION {target[u] : u \in Request} :
           pc[c.by] = "answered" /\ c.by \in Request
    BY DEF RowsAnswered, TypeOK, Chunk
  <2> QED
    BY <1>1, <1>5, <2>1 DEF RowsAnswered, Untouched
<1>13. FoundOrGone'
  BY <1>1 DEF FoundOrGone
<1>14. \A u \in Request \ {r} : removed[u] \cap target[r] = {}
  <2> SUFFICES ASSUME NEW u \in Request \ {r}, removed[u] # {}
               PROVE  removed[u] \cap target[r] = {}
    OBVIOUS
  <2>1. pc[u] \in Places
    BY DEF Inserted
  <2>2. u \in OpenRequests \ {r}
    BY <2>1 DEF OpenRequests, Places, Open, Syncing
  <2> QED
    BY <1>1, <2>2 DEF ChunksDeleted, Blockers
<1>15. DeletedAll'
  <2>1. removed'[r] # {} =>
          /\ removed'[r] = index
          /\ \A u \in Request \ {r} : removed[u] = {}
    BY <1>5, <1>14 DEF FoundOrGone, DeletedAll
  <2> QED
    BY <1>1, <1>5, <2>1 DEF DeletedAll, Untouched
<1>16. InsertsAlone'
  BY <1>1, <1>5, <1>7 DEF InsertsAlone, Untouched
<1> QED
  BY <1>2, <1>10, <1>11, <1>12, <1>13, <1>15, <1>16

LEMMA CheckStep ==
  ASSUME CmsIInv, NEW r \in Request, CheckPage(r)
  PROVE  CmsIInv'
<1> USE DEF CmsIInv
<1>1. /\ pc[r] = "check_page" /\ AfterChunks(r, Cardinality(added[r]))
      /\ UNCHANGED <<deletes, seen, target, draft, removed, added, page, index, published>>
  BY DEF CheckPage, request, committed
<1>2. TypeOK'
  BY CheckTypes
<1>3. seen[r] \in Page /\ Cardinality(added[r]) \in Nat
      /\ Chunks[seen[r].body] \in Nat
  BY <1>1, FS_CardinalityType, CmsIndexAssumption DEF SeenPage, Open, Syncing, Inserted, Page
<1>4. \/ /\ Indexed(r) /\ Cardinality(added[r]) < Chunks[seen[r].body]
         /\ pc' = [pc EXCEPT ![r] = "insert_chunk"]
      \/ /\ Indexed(r) => Cardinality(added[r]) >= Chunks[seen[r].body]
         /\ pc' = [pc EXCEPT ![r] = "commit"]
  BY <1>1, <1>3, After
<1>5. /\ \A u \in Request \ {r} : Untouched(u)
      /\ pc'[r] \in {"insert_chunk", "commit"}
      /\ pc'[r] = "insert_chunk" => Indexed(r) /\ Cardinality(added[r]) < Chunks[seen[r].body]
      /\ pc'[r] = "commit" => (Indexed(r) => Cardinality(added[r]) >= Chunks[seen[r].body])
      /\ added'[r] = added[r] /\ removed'[r] = removed[r] /\ target'[r] = target[r]
      /\ seen'[r] = seen[r] /\ deletes'[r] = deletes[r] /\ draft'[r] = draft[r]
  BY <1>1, <1>4 DEF TypeOK, Untouched
<1>6. Inserted(r)'
  <2>1. Positions(added[r])' = Positions(added[r]) /\ (Indexed(r)' <=> Indexed(r))
    BY <1>5 DEF Positions, Indexed
  <2> QED
    BY <1>3, <1>5, <2>1 DEF Inserted, Places
<1>7. SeenPage(r)'
  BY <1>1, <1>5 DEF SeenPage, Open, Syncing
<1> QED
  BY <1>1, <1>2, <1>5, <1>6, <1>7, QuietStep

\* The index writes are given up.
LEMMA SkipStep ==
  ASSUME CmsIInv, NEW r \in Request, pc[r] \in Syncing, SkipSync(r)
  PROVE  CmsIInv'
<1> USE DEF CmsIInv
<1>1. /\ pc' = [pc EXCEPT ![r] = "commit"]
      /\ removed' = [removed EXCEPT ![r] = {}] /\ added' = [added EXCEPT ![r] = {}]
      /\ UNCHANGED <<deletes, seen, target, draft, page, index, published>>
  BY DEF SkipSync, Goto, request, committed
<1>2. TypeOK'
  BY SkipTypes
<1>3. /\ \A u \in Request \ {r} : Untouched(u)
      /\ pc'[r] = "commit" /\ added'[r] = {} /\ removed'[r] = {} /\ target'[r] = target[r]
      /\ seen'[r] = seen[r] /\ draft'[r] = draft[r]
  BY <1>1 DEF TypeOK, Untouched
<1>4. Inserted(r)'
  BY <1>3, NoChunks
<1>5. SeenPage(r)'
  BY <1>1, <1>3 DEF SeenPage, Open, Syncing
<1> QED
  BY <1>1, <1>2, <1>3, <1>4, <1>5, QuietStep DEF Syncing

\* The first INSERT goes on only once nothing is left of the index but what the
\* request itself has deleted, and nobody else is inserting.
LEMMA PlaceIsFree ==
  ASSUME CmsIInv, NEW r \in Request, InsertChunk(r)
  PROVE  /\ removed[r] = index
         /\ \A u \in Request \ {r} : added[u] = {}
<1> USE DEF CmsIInv
<1>1. CASE added[r] # {}
  BY <1>1 DEF InsertsAlone
<1>2. CASE added[r] = {}
  <2>1. Cardinality(added[r]) = 0 /\ pc[r] = "insert_chunk"
    BY <1>2, FS_EmptySet DEF InsertChunk
  <2>2. \A u \in OpenRequests \ {r} : \A c \in added[u] \cup (removed[u] \cap index) : c.pos # 0
    BY <2>1 DEF InsertChunk, Blockers
  <2>3. \A c \in index \ removed[r] : c.pos # 0
    BY <2>1 DEF InsertChunk, PositionTaken
  <2>4. \A u \in Request : added[u] \cup removed[u] # {} => u \in OpenRequests
    BY DEF Inserted, Places, OpenRequests, Open, Syncing
  <2>5. \A u \in Request \ {r} : added[u] = {}
    BY <2>2, <2>4, FirstInserted
  <2>6. removed[r] = index
    <3>1. CASE removed[r] # {}
      BY <3>1 DEF DeletedAll
    <3>2. CASE removed[r] = {}
      <4>1. index = {}
        BY <2>3, <3>2, FirstChunk
      <4> QED
        BY <3>2, <4>1
    <3> QED
      BY <3>1, <3>2
  <2> QED
    BY <2>5, <2>6
<1> QED
  BY <1>1, <1>2

LEMMA InsertStep ==
  ASSUME CmsIInv, NEW r \in Request, InsertChunk(r)
  PROVE  CmsIInv'
<1> USE DEF CmsIInv
<1> DEFINE n == Cardinality(added[r])
           c == [by |-> r, pos |-> n, text |-> seen[r].body]
<1>1. /\ pc[r] = "insert_chunk" /\ pc' = [pc EXCEPT ![r] = "check_page"]
      /\ added' = [added EXCEPT ![r] = added[r] \cup {c}]
      /\ UNCHANGED <<deletes, seen, target, draft, removed, page, index, published>>
  BY DEF InsertChunk, Goto, request, committed, TypeOK
<1>2. seen[r] \in Page
  BY <1>1 DEF SeenPage, Open, Syncing
<1>3. TypeOK'
  BY <1>2, InsertTypes DEF Inserted
<1>4. c.by = r /\ c.pos = n /\ c.text = seen[r].body /\ n \in Nat /\ IsFiniteSet(added[r])
  BY FS_CardinalityType DEF Inserted
<1>5. c \notin added[r]
  <2>1. n \notin Positions(added[r])
    BY <1>4 DEF Inserted
  <2> QED
    BY <1>4, <2>1 DEF Positions
<1> HIDE DEF c
<1>6. /\ \A u \in Request \ {r} : Untouched(u)
      /\ pc'[r] = "check_page" /\ added'[r] = added[r] \cup {c} /\ removed'[r] = removed[r]
      /\ target'[r] = target[r] /\ seen'[r] = seen[r] /\ deletes'[r] = deletes[r]
      /\ draft'[r] = draft[r]
  BY <1>1 DEF TypeOK, Untouched
<1>7. IsFiniteSet(added'[r]) /\ Cardinality(added'[r]) = n + 1
  <2>1. IsFiniteSet(added[r])
    BY <1>4
  <2>2. /\ IsFiniteSet(added[r] \cup {c})
        /\ Cardinality(added[r] \cup {c}) = Cardinality(added[r]) + 1
    BY <1>5, <2>1, FS_AddElement
  <2> QED
    BY <1>6, <2>2
<1>8. Inserted(r)'
  <2>1. Positions(added[r])' = Positions(added[r]) \cup {n}
    BY <1>4, <1>6 DEF Positions
  <2>2. Positions(added[r]) = {k \in Nat : k < n}
    BY DEF Inserted
  <2>3. {k \in Nat : k < n} \cup {n} = {k \in Nat : k < n + 1}
    BY <1>4
  <2>4. Positions(added[r])' = {k \in Nat : k < Cardinality(added'[r])}
    BY <1>7, <2>1, <2>2, <2>3
  <2>5. Indexed(r) /\ (Indexed(r)' <=> Indexed(r)) /\ n < Chunks[seen[r].body]
    BY <1>1, <1>6 DEF Indexed, Inserted
  <2>6. Chunks[seen[r].body] \in Nat
    BY <1>2, CmsIndexAssumption DEF Page
  <2>7. n + 1 <= Chunks[seen[r].body]
    BY <1>4, <2>5, <2>6
  <2>8. \A d \in added'[r] : d.by = r /\ d.text = seen'[r].body
    BY <1>4, <1>6 DEF Inserted
  <2> HIDE DEF n
  <2> QED
    BY <1>6, <1>7, <2>4, <2>5, <2>7, <2>8 DEF Inserted, Places
<1>9. SeenPage(r)'
  BY <1>1, <1>6 DEF SeenPage, Open, Syncing
<1>10. \A u \in Request : Inserted(u)' /\ SeenPage(u)'
  BY <1>1, <1>6, <1>8, <1>9, OwnFrame DEF Untouched
<1>11. PublishedTold' /\ IsFiniteSet(index)' /\ IndexIsOneText'
  BY <1>1 DEF PublishedTold, IndexIsOneText, WholeText, Positions
<1>12. RowsAnswered'
  <2>1. \A d \in index \cup UNION {target[u] : u \in Request} :
           pc[d.by] = "answered" /\ d.by \in Request
    BY DEF RowsAnswered, TypeOK, Chunk
  <2> QED
    BY <1>1, <1>6, <2>1 DEF RowsAnswered, Untouched
<1>13. FoundOrGone' /\ DeletedAll'
  BY <1>1 DEF FoundOrGone, DeletedAll
<1>14. InsertsAlone'
  BY <1>1, <1>6, PlaceIsFree DEF InsertsAlone, Untouched
<1> QED
  BY <1>3, <1>10, <1>11, <1>12, <1>13, <1>14

(* The end of a request. *)

LEMMA FailStep ==
  ASSUME CmsIInv, NEW r \in Request, DatabaseError(r)
  PROVE  CmsIInv'
<1> USE DEF CmsIInv
<1>1. /\ pc[r] \in Open /\ pc' = [pc EXCEPT ![r] = "failed"]
      /\ removed' = [removed EXCEPT ![r] = {}] /\ added' = [added EXCEPT ![r] = {}]
      /\ target' = [target EXCEPT ![r] = {}] /\ draft' = [draft EXCEPT ![r] = None]
      /\ seen' = [seen EXCEPT ![r] = None] /\ deletes' = [deletes EXCEPT ![r] = FALSE]
      /\ UNCHANGED <<page, index, published>>
  BY DEF DatabaseError, Release, Goto, committed
<1>2. TypeOK'
  BY ReleaseTypes DEF DatabaseError, committed, TypeOK
<1>3. /\ \A u \in Request \ {r} : Untouched(u)
      /\ pc'[r] = "failed" /\ added'[r] = {} /\ removed'[r] = {} /\ target'[r] = {}
      /\ draft'[r] = None
  BY <1>1 DEF TypeOK, Untouched
<1>4. Inserted(r)'
  BY <1>3, NoChunks
<1>5. SeenPage(r)'
  BY <1>3 DEF SeenPage, Open, Syncing
<1> QED
  BY <1>1, <1>2, <1>3, <1>4, <1>5, QuietStep DEF Open, Syncing

\* A commit leaves the index as it was, or empty, or with its own chunks only:
\* all of its body's.
LEMMA CommittedIndex ==
  ASSUME CmsIInv, NEW r \in Request, Commit(r)
  PROVE  /\ index' = (index \ removed[r]) \cup added[r]
         /\ \/ added[r] = {} /\ index' \in {index, {}}
            \/ added[r] # {} /\ index' = added[r] /\ WholeText(added[r])
         /\ IsFiniteSet(index')
<1> USE DEF CmsIInv
<1>1. pc[r] = "commit" /\ index' = (index \ removed[r]) \cup added[r]
  BY DEF Commit
<1>2. IsFiniteSet(added[r])
  BY DEF Inserted
<1>3. CASE added[r] = {}
  BY <1>1, <1>3, FS_EmptySet DEF DeletedAll
<1>4. CASE added[r] # {}
  <2>1. index' = added[r]
    BY <1>1, <1>4 DEF InsertsAlone
  <2>2. seen[r].body \in Text /\ Chunks[seen[r].body] \in Nat
    BY <1>1, CmsIndexAssumption DEF SeenPage, Open, Syncing, Page
  <2>3. Cardinality(added[r]) = Chunks[seen[r].body]
    BY <1>1, <1>4 DEF Inserted
  <2>4. {k \in Nat : k < Chunks[seen[r].body]}
          = {k \in 0..Chunks[seen[r].body] : k < Chunks[seen[r].body]}
    BY <2>2
  <2>5. Positions(added[r]) = {k \in 0..Chunks[seen[r].body] : k < Chunks[seen[r].body]}
    BY <2>3, <2>4 DEF Inserted
  <2>6. \A c \in added[r] : c.text = seen[r].body
    BY DEF Inserted
  <2>7. WholeText(added[r])
    BY <2>2, <2>3, <2>5, <2>6 DEF WholeText
  <2> QED
    BY <1>1, <1>2, <1>4, <2>1, <2>7
<1> QED
  BY <1>3, <1>4

LEMMA CommitStep ==
  ASSUME CmsIInv, NEW r \in Request, Commit(r)
  PROVE  CmsIInv'
<1> USE DEF CmsIInv
<1> DEFINE new == IF draft[r] = None THEN page ELSE draft[r]
<1>1. /\ pc[r] = "commit" /\ pc' = [pc EXCEPT ![r] = "answered"]
      /\ removed' = [removed EXCEPT ![r] = {}] /\ added' = [added EXCEPT ![r] = {}]
      /\ target' = [target EXCEPT ![r] = {}] /\ draft' = [draft EXCEPT ![r] = None]
      /\ seen' = [seen EXCEPT ![r] = None] /\ deletes' = [deletes EXCEPT ![r] = FALSE]
      /\ page' = new
      /\ published' = published \cup (IF new.status = "published" THEN {new.body} ELSE {})
  BY DEF Commit, Release, Goto
<1>2. /\ index' = (index \ removed[r]) \cup added[r]
      /\ \/ added[r] = {} /\ index' \in {index, {}}
         \/ added[r] # {} /\ index' = added[r] /\ WholeText(added[r])
      /\ IsFiniteSet(index')
  BY CommittedIndex
<1>3. /\ new \in Page /\ seen[r] \in Page
      /\ Indexed(r) => seen[r].body \in published'
  <2>1. /\ draft[r] = None => page # None /\ (seen[r].status = "published" => seen[r].body \in published)
        /\ seen[r] \in Page /\ draft[r] \in {None, seen[r]}
    BY <1>1 DEF SeenPage, Open, Syncing
  <2> QED
    BY <1>1, <2>1 DEF TypeOK, Pages, Indexed
<1>4. page' # None /\ published \subseteq published'
  BY <1>1, <1>3, PageIsNone
<1>5. TypeOK'
  <2>1. page' \in Pages /\ published' \in SUBSET Text
    BY <1>1, <1>3 DEF TypeOK, Pages, Page
  <2>2. index' \in SUBSET Chunk
    BY <1>2 DEF TypeOK
  <2> QED
    BY <2>1, <2>2, ReleaseTypes DEF Commit
<1> HIDE DEF new
<1>6. /\ \A u \in Request \ {r} : Untouched(u)
      /\ pc'[r] = "answered" /\ added'[r] = {} /\ removed'[r] = {} /\ target'[r] = {}
      /\ draft'[r] = None
  BY <1>1 DEF TypeOK, Untouched
<1>7. Inserted(r)' /\ SeenPage(r)'
  BY <1>6, NoChunks DEF SeenPage, Open, Syncing
<1>8. \A u \in Request : Inserted(u)' /\ SeenPage(u)'
  BY <1>4, <1>6, <1>7, OwnFrame DEF Untouched
<1>9. PublishedTold'
  <2>1. page'.status = "published" => page'.body \in published'
    BY <1>1
  <2>2. \A c \in added[r] : c.text \in published'
    BY <1>3 DEF Inserted
  <2> QED
    BY <1>2, <1>4, <2>1, <2>2 DEF PublishedTold
<1>10. \A c \in index \cup UNION {target[u] : u \in Request} :
          pc[c.by] = "answered" /\ c.by \in Request
  BY DEF RowsAnswered, TypeOK, Chunk
<1>11. RowsAnswered'
  <2> SUFFICES ASSUME NEW c \in index' \cup UNION {target'[u] : u \in Request}
               PROVE  pc'[c.by] = "answered"
    BY DEF RowsAnswered
  <2>1. c \in index \cup UNION {target[u] : u \in Request} \/ c \in added[r]
    BY <1>2, <1>6 DEF Untouched
  <2>2. c \in added[r] => c.by = r
    BY DEF Inserted
  <2> QED
    BY <1>6, <1>10, <2>1, <2>2 DEF Untouched
<1>12. FoundOrGone'
  <2> SUFFICES ASSUME NEW u \in Request \ {r}
               PROVE  target[u] \cap index' \in {{}, index'}
    BY <1>6 DEF FoundOrGone, Untouched
  <2>1. CASE added[r] = {}
    BY <1>2, <2>1 DEF FoundOrGone
  <2>2. CASE added[r] # {}
    <3>1. \A c \in added[r] : c \notin target[u]
      BY <1>1, <1>10 DEF Inserted
    <3> QED
      BY <1>2, <2>2, <3>1
  <2> QED
    BY <2>1, <2>2
<1>13. DeletedAll'
  <2> SUFFICES ASSUME NEW u \in Request \ {r}, removed[u] # {}
               PROVE  index' = index /\ removed[u] = index
                      /\ \A z \in Request \ {u} : removed'[z] = {}
    BY <1>6 DEF DeletedAll, Untouched
  <2>1. removed[u] = index /\ \A z \in Request \ {u} : removed[z] = {}
    BY DEF DeletedAll
  <2>2. added[r] = {}
    BY <2>1 DEF InsertsAlone
  <2> QED
    BY <1>1, <1>2, <1>6, <2>1, <2>2 DEF Untouched
<1>14. InsertsAlone'
  <2> SUFFICES ASSUME NEW u \in Request \ {r}, added[u] # {}
               PROVE  removed[u] = index' /\ \A z \in Request \ {u} : added'[z] = {}
    BY <1>6 DEF InsertsAlone, Untouched
  <2>1. removed[u] = index /\ \A z \in Request \ {u} : added[z] = {}
    BY DEF InsertsAlone
  <2>2. removed[r] = {} \/ index = {}
    BY <2>1 DEF DeletedAll
  <2>3. index' = index
    BY <1>2, <2>1, <2>2
  <2> QED
    BY <1>6, <2>1, <2>3 DEF Untouched
<1>15. IndexIsOneText'
  BY <1>2 DEF IndexIsOneText, WholeText, Positions
<1> QED
  BY <1>2, <1>5, <1>8, <1>9, <1>11, <1>12, <1>13, <1>14, <1>15

\* The inductive step.
LEMMA StepCms == CmsIInv /\ [Next]_vars => CmsIInv'
<1> SUFFICES ASSUME CmsIInv, [Next]_vars PROVE CmsIInv'
  OBVIOUS
<1>1. CASE Next
  <2>1. PICK r \in Request : \/ Create(r) \/ LoadForUpdate(r) \/ LoadForDelete(r)
                             \/ RequestStep(r) \/ SyncFails(r) \/ DatabaseError(r)
    BY <1>1 DEF Next
  <2>2. CASE Create(r)
    BY <2>2, CreateStep
  <2>3. CASE LoadForUpdate(r) \/ LoadForDelete(r)
    BY <2>3, LoadStep DEF LoadForUpdate, LoadForDelete
  <2>4. CASE RequestStep(r)
    <3>1. CASE Flush(r) \/ DeleteChunks(r) \/ ChunksDeleted(r)
      BY <3>1, FlushStep, DeleteStep, ChunksDeletedStep
    <3>2. CASE InsertChunk(r) \/ CheckPage(r) \/ Commit(r)
      BY <3>2, InsertStep, CheckStep, CommitStep
    <3>3. CASE UniqueViolation(r) \/ DeadlockDetected(r)
      BY <3>3, SkipStep DEF UniqueViolation, DeadlockDetected, Syncing
    <3> QED
      BY <2>4, <3>1, <3>2, <3>3 DEF RequestStep
  <2>5. CASE SyncFails(r)
    BY <2>5, SkipStep DEF SyncFails
  <2>6. CASE DatabaseError(r)
    BY <2>6, FailStep
  <2> QED
    BY <2>1, <2>2, <2>3, <2>4, <2>5, <2>6
<1>2. CASE UNCHANGED vars
  <2>1. UNCHANGED <<pc, change, deletes, loaded, seen, target, draft, locked, removed, added,
                    page, index, published, alone, synced>>
    BY <1>2 DEF vars, request, committed
  <2>2. TypeOK'
    BY <2>1 DEF CmsIInv, TypeOK
  <2>3. \A u \in Request : Inserted(u)' /\ SeenPage(u)'
    BY <2>1, OwnFrame DEF CmsIInv
  <2>4. PublishedTold' /\ RowsAnswered' /\ FoundOrGone' /\ DeletedAll' /\ InsertsAlone'
    BY <2>1 DEF CmsIInv, PublishedTold, RowsAnswered, FoundOrGone, DeletedAll, InsertsAlone
  <2>5. IsFiniteSet(index)' /\ IndexIsOneText'
    BY <2>1 DEF CmsIInv, IndexIsOneText, WholeText, Positions
  <2> QED
    BY <2>2, <2>3, <2>4, <2>5 DEF CmsIInv
<1> QED
  BY <1>1, <1>2

LEMMA CmsInvariance == Spec => []CmsIInv
BY InitCms, StepCms, PTL DEF Spec

----------------------------------------------------------------------------
(* Theorems *)

\* However edits interleave, wait, deadlock, fail or give up their index writes,
\* the committed chunks are all the chunks of one body, or there are none.
THEOREM IndexWhole == Spec => []IndexIsOneText
<1>1. CmsIInv => IndexIsOneText
  BY DEF CmsIInv
<1> QED
  BY <1>1, CmsInvariance, PTL

\* However stale the index is, a visitor is answered from texts the page has been
\* published with.
THEOREM ServedWasPublished == Spec => []OnlyPublishedServed
<1>1. CmsIInv => OnlyPublishedServed
  BY DEF CmsIInv, PublishedTold, OnlyPublishedServed, ServedTexts, IndexedTexts
<1> QED
  BY <1>1, CmsInvariance, PTL

----------------------------------------------------------------------------
(* An edit that no other one overlaps. *)

\* Alone, a request has the page as it is and deletes the chunks as they are.
Lone(r) ==
    /\ pc[r] = "idle" => ~deletes[r]
    /\ pc[r] \in Open /\ alone[r] =>
        /\ OpenRequests = {r}
        /\ pc[r] = "flush" => loaded[r] = page /\ (deletes[r] => change[r] = Archive)
        /\ pc[r] # "flush" => /\ draft[r] = None => seen[r] = page
                              /\ deletes[r] => seen[r].status # "published"
        /\ pc[r] = "deleting" => target[r] = index
        /\ synced[r] /\ pc[r] \in Places => removed[r] = index
        /\ synced[r] /\ pc[r] = "commit" /\ Indexed(r) =>
              Cardinality(added[r]) = Chunks[seen[r].body]

LoneIInv == CmsIInv /\ \A r \in Request : Lone(r)

\* A step of one request is none of another one that is alone.
LEMMA OthersLone ==
  ASSUME TypeOK, \A u \in Request : Lone(u), NEW r \in Request,
         \A u \in Request \ {r} : pc'[u] = pc[u] /\ deletes'[u] = deletes[u],
         \/ Start(r)
         \/ pc[r] \in Open /\ alone' = alone
  PROVE  \A u \in Request \ {r} : Lone(u)'
<1> SUFFICES ASSUME NEW u \in Request \ {r} PROVE Lone(u)'
  OBVIOUS
<1>1. pc'[u] = "idle" => ~deletes'[u]
  BY DEF Lone
<1>2. ~(pc'[u] \in Open /\ alone'[u])
  <2> SUFFICES ASSUME pc[u] \in Open, alone'[u] PROVE FALSE
    OBVIOUS
  <2>1. CASE Start(r)
    BY <2>1 DEF Start, OpenRequests
  <2>2. CASE pc[r] \in Open /\ alone' = alone
    <3>1. OpenRequests = {u}
      BY <2>2 DEF Lone
    <3> QED
      BY <2>2, <3>1 DEF OpenRequests
  <2> QED
    BY <2>1, <2>2
<1> QED
  BY <1>1, <1>2 DEF Lone

\* The requests in service stay those of before, or one that starts alone.
LEMMA StillAlone ==
  ASSUME TypeOK, \A u \in Request : Lone(u), NEW r \in Request,
         \A u \in Request \ {r} : pc'[u] = pc[u], pc'[r] \in Open, alone'[r],
         \/ Start(r)
         \/ pc[r] \in Open /\ alone' = alone
  PROVE  OpenRequests' = {r}
<1>1. CASE Start(r)
  BY <1>1 DEF Start, OpenRequests, TypeOK
<1>2. CASE pc[r] \in Open /\ alone' = alone
  BY <1>2 DEF Lone, OpenRequests
<1> QED
  BY <1>1, <1>2

LEMMA StepLone == LoneIInv /\ [Next]_vars => LoneIInv'
<1> SUFFICES ASSUME LoneIInv, [Next]_vars PROVE LoneIInv'
  OBVIOUS
<1> USE DEF LoneIInv
<1>1. CmsIInv' /\ TypeOK /\ \A u \in Request : Inserted(u) /\ SeenPage(u)
  BY StepCms DEF CmsIInv
<1>2. ASSUME NEW r \in Request, Create(r)
      PROVE  \A u \in Request : Lone(u)'
  <2>1. /\ Start(r) /\ pc'[r] = "delete_chunks" /\ seen'[r] = draft'[r]
        /\ draft'[r] \in Page
        /\ deletes' = deletes /\ \A u \in Request \ {r} : pc'[u] = pc[u]
    BY <1>1, <1>2 DEF Create, Goto, TypeOK, Page
  <2>2. ~deletes[r] /\ \A u \in Request \ {r} : Lone(u)'
    BY <1>1, <2>1, OthersLone DEF Start, Lone
  <2>3. Lone(r)'
    BY <1>1, <2>1, <2>2, StillAlone, PageIsNone DEF Lone, Places, Open, Syncing
  <2> QED
    BY <2>2, <2>3
<1>3. ASSUME NEW r \in Request, LoadForUpdate(r) \/ LoadForDelete(r)
      PROVE  \A u \in Request : Lone(u)'
  <2>1. /\ Start(r) /\ pc'[r] = "flush" /\ loaded'[r] = page /\ page' = page
        /\ deletes'[r] => change'[r] = Archive
        /\ \A u \in Request \ {r} : pc'[u] = pc[u] /\ deletes'[u] = deletes[u]
    <3>1. CASE LoadForUpdate(r)
      BY <1>1, <3>1 DEF LoadForUpdate, Load, Goto, TypeOK, committed
    <3>2. CASE LoadForDelete(r)
      BY <1>1, <3>2 DEF LoadForDelete, Load, Goto, TypeOK, committed
    <3> QED
      BY <1>3, <3>1, <3>2
  <2>2. \A u \in Request \ {r} : Lone(u)'
    BY <1>1, <2>1, OthersLone
  <2>3. Lone(r)'
    BY <1>1, <2>1, StillAlone DEF Lone, Places, Open, Syncing
  <2> QED
    BY <2>2, <2>3
<1>4. ASSUME NEW r \in Request, Flush(r)
      PROVE  \A u \in Request : Lone(u)'
  <2>1. /\ pc[r] = "flush" /\ pc[r] \in Open /\ pc'[r] = "delete_chunks" /\ alone' = alone
        /\ deletes' = deletes /\ page' = page /\ \A u \in Request \ {r} : pc'[u] = pc[u]
    BY <1>1, <1>4 DEF Flush, Goto, TypeOK, committed, Open
  <2>2. \A u \in Request \ {r} : Lone(u)'
    BY <1>1, <2>1, OthersLone
  <2>3. draft[r] = None /\ page \in Page
    BY <1>1, <2>1 DEF SeenPage, Open, TypeOK, Pages
  <2>4. \/ Dirty(r) /\ draft'[r] = Written(r) /\ seen'[r] = Written(r)
        \/ ~Dirty(r) /\ draft'[r] = None /\ seen'[r] = page
    BY <1>1, <1>4, <2>3 DEF Flush, TypeOK
  <2>5. draft'[r] = None => seen'[r] = page
    BY <1>1, <2>3, <2>4, WrittenPage, PageIsNone
  <2>6. ASSUME deletes[r], alone[r] PROVE seen'[r].status # "published"
    <3>1. change[r] = Archive /\ loaded[r] = page
      BY <2>1, <2>6 DEF Lone
    <3>2. /\ ~NewBody(r) /\ ~change[r].slug
          /\ NewStatus(r) <=> page.status # "archived"
      BY <3>1 DEF Archive, NewBody, NewStatus
    <3>3. CASE page.status = "archived"
      BY <2>4, <3>2, <3>3 DEF Dirty
    <3>4. CASE page.status # "archived"
      BY <2>4, <3>1, <3>2, <3>4 DEF Dirty, Written, Archive
    <3> QED
      BY <3>3, <3>4
  <2>7. Lone(r)'
    BY <1>1, <2>1, <2>5, <2>6, StillAlone DEF Lone, Places, Open, Syncing
  <2> QED
    BY <2>2, <2>7
<1>5. ASSUME NEW r \in Request, DeleteChunks(r) \/ ChunksDeleted(r)
      PROVE  \A u \in Request : Lone(u)'
  <2>1. /\ pc[r] \in {"delete_chunks", "deleting"} /\ pc[r] \in Open
        /\ UNCHANGED <<alone, deletes, page, index, seen, draft, synced>>
        /\ \A u \in Request \ {r} : pc'[u] = pc[u]
    BY <1>1, <1>5 DEF DeleteChunks, ChunksDeleted, AfterChunks, Goto, TypeOK, request,
                      committed, Open, Syncing
  <2>2. \A u \in Request \ {r} : Lone(u)'
    BY <1>1, <2>1, OthersLone
  <2>3. CASE DeleteChunks(r)
    <3>1. pc'[r] = "deleting" /\ target'[r] = index /\ pc[r] = "delete_chunks"
      BY <1>1, <2>3 DEF DeleteChunks, Goto, TypeOK
    <3> QED
      BY <1>1, <2>1, <2>2, <3>1, StillAlone DEF Lone, Places, Open, Syncing
  <2>4. CASE ChunksDeleted(r)
    <3>1. /\ pc[r] = "deleting" /\ removed'[r] = target[r] \cap index /\ added' = added
          /\ AfterChunks(r, 0)
      BY <1>1, <2>4 DEF ChunksDeleted, TypeOK, request, committed
    <3>2. seen[r] \in Page /\ added[r] = {} /\ Chunks[seen[r].body] \in Nat
      BY <1>1, <3>1, NothingWritten, CmsIndexAssumption
      DEF SeenPage, Open, Syncing, Places, Page
    <3>3. /\ pc'[r] \in {"insert_chunk", "commit"}
          /\ pc'[r] = "commit" /\ Indexed(r) => 0 >= Chunks[seen[r].body]
      BY <1>1, <3>1, <3>2, After DEF TypeOK
    <3>4. Cardinality(added'[r]) = 0 /\ (Indexed(r)' <=> Indexed(r))
      BY <2>1, <3>1, <3>2, FS_EmptySet DEF Indexed
    <3>5. pc'[r] = "commit" /\ Indexed(r)' => Cardinality(added'[r]) = Chunks[seen'[r].body]
      BY <2>1, <3>2, <3>3, <3>4
    <3>6. alone[r] => removed'[r] = index
      BY <2>1, <3>1 DEF Lone
    <3>7. Lone(r)'
      BY <1>1, <2>1, <3>1, <3>3, <3>5, <3>6, StillAlone DEF Lone, Places, Open, Syncing
    <3> QED
      BY <2>2, <3>7
  <2> QED
    BY <1>5, <2>3, <2>4
<1>6. ASSUME NEW r \in Request, InsertChunk(r) \/ CheckPage(r)
      PROVE  \A u \in Request : Lone(u)'
  <2>1. /\ pc[r] \in {"insert_chunk", "check_page"} /\ pc[r] \in Open
        /\ UNCHANGED <<alone, deletes, page, index, seen, draft, synced, removed>>
        /\ \A u \in Request \ {r} : pc'[u] = pc[u]
    BY <1>1, <1>6 DEF InsertChunk, CheckPage, AfterChunks, Goto, TypeOK, request, committed,
                      Open, Syncing
  <2>2. \A u \in Request \ {r} : Lone(u)'
    BY <1>1, <2>1, OthersLone
  <2>3. pc'[r] \in Places
    BY <1>1, <1>6 DEF InsertChunk, CheckPage, AfterChunks, Goto, TypeOK, Places
  <2>4. pc'[r] = "commit" /\ Indexed(r)' => Cardinality(added'[r]) = Chunks[seen'[r].body]
    <3>1. CASE InsertChunk(r)
      BY <1>1, <3>1 DEF InsertChunk, Goto, TypeOK
    <3>2. CASE CheckPage(r)
      <4>1. /\ pc[r] = "check_page" /\ added' = added
            /\ AfterChunks(r, Cardinality(added[r]))
        BY <3>2 DEF CheckPage
      <4>2. seen[r] \in Page /\ Cardinality(added[r]) \in Nat /\ Chunks[seen[r].body] \in Nat
        BY <1>1, <4>1, FS_CardinalityType, CmsIndexAssumption
        DEF SeenPage, Open, Syncing, Inserted, Page
      <4>3. pc'[r] = "commit" /\ Indexed(r) => Cardinality(added[r]) >= Chunks[seen[r].body]
        BY <1>1, <4>1, <4>2, After DEF TypeOK
      <4>4. Inserted(r)' /\ (Indexed(r)' <=> Indexed(r))
        BY <1>1, <2>1 DEF CmsIInv, Indexed
      <4>5. added[r] = {} => Cardinality(added[r]) = 0
        BY FS_EmptySet
      <4> QED
        BY <2>1, <4>1, <4>2, <4>3, <4>4, <4>5 DEF Inserted
    <3> QED
      BY <1>6, <3>1, <3>2
  <2>5. pc'[r] \in Open /\ pc'[r] \notin {"flush", "deleting", "idle"}
    BY <2>3 DEF Places, Open, Syncing
  <2>6. Lone(r)'
    BY <1>1, <2>1, <2>3, <2>4, <2>5, StillAlone DEF Lone, Places
  <2> QED
    BY <2>2, <2>6
<1>7. ASSUME NEW r \in Request, pc[r] \in Syncing, SkipSync(r)
      PROVE  \A u \in Request : Lone(u)'
  <2>1. /\ pc[r] \in Open /\ pc[r] # "flush" /\ pc'[r] = "commit" /\ ~synced'[r]
        /\ UNCHANGED <<alone, deletes, page, index, seen, draft>>
        /\ \A u \in Request \ {r} : pc'[u] = pc[u]
    BY <1>1, <1>7 DEF SkipSync, Goto, TypeOK, request, committed, Open, Syncing
  <2>2. \A u \in Request \ {r} : Lone(u)'
    BY <1>1, <2>1, OthersLone
  <2>3. Lone(r)'
    BY <1>1, <2>1, StillAlone DEF Lone, Places, Open, Syncing
  <2> QED
    BY <2>2, <2>3
<1>8. ASSUME NEW r \in Request, Commit(r) \/ DatabaseError(r)
      PROVE  \A u \in Request : Lone(u)'
  <2>1. /\ pc[r] \in Open /\ pc'[r] \in {"answered", "failed"} /\ alone' = alone
        /\ \A u \in Request \ {r} : pc'[u] = pc[u] /\ deletes'[u] = deletes[u]
    BY <1>1, <1>8 DEF Commit, DatabaseError, Release, Goto, TypeOK, Open, Syncing
  <2>2. \A u \in Request \ {r} : Lone(u)'
    BY <1>1, <2>1, OthersLone
  <2>3. Lone(r)'
    BY <2>1 DEF Lone, Open, Syncing
  <2> QED
    BY <2>2, <2>3
<1>9. CASE Next
  <2>1. PICK r \in Request : \/ Create(r) \/ LoadForUpdate(r) \/ LoadForDelete(r)
                             \/ RequestStep(r) \/ SyncFails(r) \/ DatabaseError(r)
    BY <1>9 DEF Next
  <2>2. CASE Create(r) \/ LoadForUpdate(r) \/ LoadForDelete(r)
    BY <1>1, <1>2, <1>3, <2>2
  <2>3. CASE Flush(r) \/ DeleteChunks(r) \/ ChunksDeleted(r) \/ InsertChunk(r) \/ CheckPage(r)
    BY <1>1, <1>4, <1>5, <1>6, <2>3
  <2>4. CASE UniqueViolation(r) \/ DeadlockDetected(r) \/ SyncFails(r)
    BY <1>1, <1>7, <2>4 DEF UniqueViolation, DeadlockDetected, SyncFails, Syncing
  <2>5. CASE Commit(r) \/ DatabaseError(r)
    BY <1>1, <1>8, <2>5
  <2> QED
    BY <2>1, <2>2, <2>3, <2>4, <2>5 DEF RequestStep
<1>10. CASE UNCHANGED vars
  <2>1. UNCHANGED <<pc, change, deletes, loaded, seen, target, draft, removed, added,
                    page, index, alone, synced>>
    BY <1>10 DEF vars, request, committed
  <2> QED
    BY <1>1, <2>1 DEF Lone, OpenRequests, Indexed
<1> QED
  BY <1>9, <1>10

LEMMA LoneInvariance == Spec => []LoneIInv
<1>1. Init => LoneIInv
  <2> SUFFICES ASSUME Init PROVE LoneIInv
    OBVIOUS
  <2>1. \A r \in Request : Lone(r)
    BY DEF Init, Lone, Open, Syncing
  <2> QED
    BY <2>1, InitCms DEF LoneIInv
<1> QED
  BY <1>1, StepLone, PTL DEF Spec

\* Only a commit answers.
LEMMA AnswersByCommit ==
  ASSUME TypeOK, Next, NEW r \in Request, pc[r] = "commit", pc'[r] = "answered"
  PROVE  Commit(r)
<1>1. PICK z \in Request : \/ Create(z) \/ LoadForUpdate(z) \/ LoadForDelete(z)
                           \/ RequestStep(z) \/ SyncFails(z) \/ DatabaseError(z)
  BY DEF Next
<1>2. CASE Create(z) \/ LoadForUpdate(z) \/ LoadForDelete(z)
  BY <1>2 DEF Create, LoadForUpdate, LoadForDelete, Load, Goto, TypeOK
<1>3. CASE Flush(z) \/ DeleteChunks(z) \/ ChunksDeleted(z) \/ InsertChunk(z) \/ CheckPage(z)
  BY <1>3 DEF Flush, DeleteChunks, ChunksDeleted, InsertChunk, CheckPage, AfterChunks, Goto,
              TypeOK
<1>4. CASE UniqueViolation(z) \/ DeadlockDetected(z) \/ SyncFails(z)
  BY <1>4 DEF UniqueViolation, DeadlockDetected, SyncFails, SkipSync, Goto, TypeOK
<1>5. CASE Commit(z) \/ DatabaseError(z)
  BY <1>5 DEF Commit, DatabaseError, Goto, TypeOK
<1> QED
  BY <1>1, <1>2, <1>3, <1>4, <1>5 DEF RequestStep

\* An edit that no other one overlaps, and whose index writes succeed, leaves the
\* index in step with the page, whatever was there before.
THEOREM LoneRepairs == Spec => LoneEditRepairs
<1>1. ASSUME LoneIInv, Next, NEW r \in Request,
             pc[r] = "commit", pc'[r] = "answered", alone[r], synced[r]
      PROVE  InSync'
  <2> USE DEF LoneIInv
  <2>1. Commit(r) /\ CmsIInv /\ TypeOK /\ Inserted(r)
    BY <1>1, AnswersByCommit DEF CmsIInv
  <2>2. /\ seen[r] \in Page /\ draft[r] \in {None, seen[r]}
        /\ draft[r] = None => seen[r] = page
        /\ deletes[r] => seen[r].status # "published"
        /\ removed[r] = index
        /\ Indexed(r) => Cardinality(added[r]) = Chunks[seen[r].body]
    BY <1>1 DEF Lone, SeenPage, CmsIInv, Open, Syncing, Places
  <2>3. page' = seen[r]
    BY <2>1, <2>2 DEF Commit
  <2>4. index' = added[r] /\ (added[r] # {} => WholeText(added[r]))
    BY <2>1, <2>2, CommittedIndex
  <2>5. Chunks[seen[r].body] \in Nat
    BY <2>2, CmsIndexAssumption DEF Page
  <2>6. Indexed(r) <=> page'.status = "published"
    BY <2>2, <2>3 DEF Indexed
  <2>7. added[r] = {} => Cardinality(added[r]) = 0
    BY FS_EmptySet
  <2>8. CASE page'.status = "published" /\ Chunks[page'.body] > 0
    <3>1. added[r] # {} /\ \A c \in added[r] : c.text = page'.body
      BY <2>1, <2>2, <2>3, <2>5, <2>6, <2>7, <2>8 DEF Inserted
    <3>2. WholeText(index)'
      BY <2>4, <3>1 DEF WholeText, Positions
    <3> QED
      BY <2>4, <2>8, <3>1, <3>2 DEF InSync
  <2>9. CASE ~(page'.status = "published" /\ Chunks[page'.body] > 0)
    <3>1. added[r] = {}
      <4>1. CASE ~Indexed(r)
        BY <2>1, <4>1 DEF Inserted
      <4>2. CASE Indexed(r)
        <5>1. Chunks[seen[r].body] = 0
          BY <2>3, <2>5, <2>6, <2>9, <4>2
        <5>2. Cardinality(added[r]) = 0 /\ IsFiniteSet(added[r])
          BY <2>1, <2>2, <4>2, <5>1 DEF Inserted
        <5> QED
          BY <5>2, FS_EmptySet
      <4> QED
        BY <4>1, <4>2
    <3> QED
      BY <2>4, <2>9, <3>1 DEF InSync
  <2> QED
    BY <2>8, <2>9
<1>2. LoneIInv /\ [Next]_vars =>
        [\A r \in Request : (pc[r] = "commit" /\ pc'[r] = "answered" /\ alone[r] /\ synced[r])
             => InSync']_vars
  BY <1>1
<1> QED
  BY <1>2, LoneInvariance, PTL DEF Spec, LoneEditRepairs

----------------------------------------------------------------------------
(***************************************************************************)
(* What erasures leave of a tenant, for any number of manager requests,    *)
(* visitors and admins.                                                    *)
(*                                                                         *)
(* Nothing is deleted twice because an erasure always takes the lock of    *)
(* the tenant's row: what it first writes, "erasing", is never committed,  *)
(* so it never finds it already there.  Nothing comes back because rows    *)
(* are new when written, and no chat row comes after a settled erasure     *)
(* because a token is minted only for a tenant read as active.             *)
(***************************************************************************)

Erasing == {"delete_leads", "delete_conversations", "delete_pages", "finish"}

\* What an open transaction has written when its request is at a statement.
WrittenBy(m) ==
    CASE mpc[m] \in Erasing -> op[m] = "erase" /\ written[m] = "erasing"
      [] mpc[m] = "commit"  -> written[m] \in (IF op[m] = "erase" THEN {"erased"}
                                               ELSE {"none", "suspended"})
      [] OTHER              -> written[m] = "none"

\* The lock of the tenant's row, and what its holder has deleted.
OneLock ==
    /\ \A m \in Manager : WrittenBy(m)
    /\ \A m, n \in Manager :
          written[m] # "none" /\ written[n] # "none" => m = n
    /\ \A m \in Manager :
          /\ deleted[m] \subseteq rows
          /\ deleted[m] # {} => mpc[m] \in Erasing \cup {"commit"} /\ op[m] = "erase"

\* An open transaction's rows are its own and new.
NewRows ==
    /\ \A v \in Visitor :
          /\ pending[v] \subseteq {Lead(v), Conversation(v)}
          /\ vpc[v] # "chatting" => pending[v] = {}
    /\ \A a \in Admin :
          /\ pending[a] \subseteq {CmsPage(a, b) : b \in BOOLEAN}
          /\ apc[a] # "creating" => pending[a] = {}
    /\ \A r \in ever :
          IF r.kind = "page" THEN apc[r.by] = "done" ELSE vpc[r.by] = "gone"

\* Nobody can chat, and nobody will be given a token.
Quiet ==
    /\ status # "active"
    /\ \A v \in Visitor :
          /\ token[v] # "valid"
          /\ vpc[v] # "chatting"
          /\ vpc[v] = "asked" => tenantRead[v] # "active"

\* The rows of one kind that m would leave.
Left(m, kind) == {r \in rows \ deleted[m] : r.kind = kind}

\* What an erasure that began when nobody could chat has deleted.
CalmErasure(m) ==
    calm[m] =>
        /\ Quiet
        /\ mpc[m] \notin {"idle", "flush", "delete_leads"}
        /\ mpc[m] \in {"delete_conversations", "delete_pages", "finish", "commit"}
              => Left(m, "lead") = {}
        /\ mpc[m] \in {"delete_pages", "finish", "commit"}
              => Left(m, "conversation") = {}

Settled ==
    /\ \A m \in Manager : CalmErasure(m)
    /\ settled => Quiet /\ ChatRows = {}

TenantIInv ==
    /\ TenantTypeOK
    /\ OneLock
    /\ NewRows
    /\ RowsAreAccounted
    /\ Settled

LEMMA InitTenantIInv == TenantInit => TenantIInv
<1> SUFFICES ASSUME TenantInit PROVE TenantIInv
  OBVIOUS
<1>1. TenantTypeOK
  BY DEF TenantInit, TenantTypeOK
<1>2. OneLock /\ RowsAreAccounted
  BY DEF TenantInit, OneLock, WrittenBy, Erasing, RowsAreAccounted
<1>3. NewRows /\ Settled
  BY DEF TenantInit, NewRows, Actor, Settled, CalmErasure
<1> QED
  BY <1>1, <1>2, <1>3 DEF TenantIInv

----------------------------------------------------------------------------
(* A step that leaves alone what a part of the invariant speaks of *)

LEMMA LockFrame ==
    ASSUME OneLock, UNCHANGED <<rows, mpc, op, written, deleted>>
    PROVE  OneLock'
BY DEF OneLock, WrittenBy

LEMMA NewRowsFrame ==
    ASSUME NewRows, UNCHANGED <<pending, vpc, apc, ever>>
    PROVE  NewRows'
BY DEF NewRows

LEMMA RowsFrame ==
    ASSUME RowsAreAccounted, UNCHANGED <<ever, rows, jobs>>
    PROVE  RowsAreAccounted'
BY DEF RowsAreAccounted

LEMMA SettledFrame ==
    ASSUME Settled,
           UNCHANGED <<status, rows, mpc, deleted, calm, token, tenantRead, vpc, settled>>
    PROVE  Settled'
BY DEF Settled, CalmErasure, Quiet, Left, ChatRows

----------------------------------------------------------------------------
LEMMA StepTenantIInv == TenantIInv /\ [TenantNext]_tenantVars => TenantIInv'
<1> SUFFICES ASSUME TenantIInv, [TenantNext]_tenantVars PROVE TenantIInv'
  OBVIOUS
<1> USE TenantLifecycleAssumption DEF TenantIInv
<1>1. ASSUME NEW m \in Manager, LoadTenant(m) PROVE TenantIInv'
  <2>1. TenantTypeOK'
    BY <1>1 DEF TenantTypeOK, Running, LoadTenant, Advance, others, visitorVars,
       adminVars, history
  <2>2. OneLock'
    BY <1>1 DEF OneLock, WrittenBy, Erasing, TenantTypeOK, LoadTenant, Advance,
       others, visitorVars, adminVars, history
  <2>3. Settled'
    BY <1>1 DEF Settled, CalmErasure, Quiet, Left, TenantTypeOK, ChatRows,
       LoadTenant, Advance, others, visitorVars, adminVars, history
  <2> QED
    BY <1>1, <2>1, <2>2, <2>3, NewRowsFrame, RowsFrame DEF LoadTenant, Advance,
       others, visitorVars, adminVars, history
<1>2. ASSUME NEW m \in Manager, FlushStatus(m) PROVE TenantIInv'
  <2>1. TenantTypeOK'
    BY <1>2 DEF TenantTypeOK, Running, FlushStatus, FirstStatus, RowLocked, Advance,
       others, visitorVars, adminVars, history
  <2>2. OneLock'
    BY <1>2 DEF OneLock, WrittenBy, Erasing, TenantTypeOK, FlushStatus, FirstStatus,
       RowLocked, Advance, others, visitorVars, adminVars, history
  <2>3. Settled'
    BY <1>2 DEF Settled, CalmErasure, Quiet, Left, TenantTypeOK, ChatRows,
       FlushStatus, FirstStatus, RowLocked, Advance, others, visitorVars, adminVars,
       history
  <2> QED
    BY <1>2, <2>1, <2>2, <2>3, NewRowsFrame, RowsFrame DEF FlushStatus, FirstStatus,
       RowLocked, Advance, others, visitorVars, adminVars, history
<1>3. ASSUME NEW m \in Manager, EraseRows(m) PROVE TenantIInv'
  <2>1. TenantTypeOK'
    <3>1. deleted' \in [Manager -> SUBSET Row]
      BY <1>3 DEF EraseRows, Delete, Visible, Rollback, TenantTypeOK
    <3>2. mpc' \in [Manager -> Running \cup {"idle", "done", "failed"}]
      BY <1>3 DEF EraseRows, Delete, Rollback, Advance, Running, TenantTypeOK
    <3>3. calm' \in [Manager -> BOOLEAN]
      <4>1. \/ calm' = calm
            \/ calm' = [calm EXCEPT ![m] = status # "active" /\ NobodyChats]
        BY <1>3 DEF EraseRows
      <4>2. (status # "active" /\ NobodyChats) \in BOOLEAN
        BY DEF NobodyChats
      <4>3. calm \in [Manager -> BOOLEAN]
        BY DEF TenantTypeOK
      <4> QED
        BY <4>1, <4>2, <4>3
    <3>4. /\ written' \in [Manager -> {"none", "suspended", "erasing", "erased"}]
          /\ cause' \in [Manager -> {"none", "database", "foreign_key"}]
      BY <1>3 DEF EraseRows, Delete, Rollback, TenantTypeOK
    <3>5. UNCHANGED <<status, rows, jobs, op, firstRead, others, history>>
      BY <1>3 DEF EraseRows, Delete, Rollback
    <3> QED
      BY <3>1, <3>2, <3>3, <3>4, <3>5
         DEF TenantTypeOK, others, visitorVars, adminVars, history
  <2>2. OneLock'
    <3>1. mpc[m] \in Erasing \ {"finish"} /\ rows' = rows /\ op' = op
      BY <1>3 DEF EraseRows, Delete, Rollback, Erasing
    <3>2. CASE /\ mpc' = [mpc EXCEPT ![m] = "failed"]
               /\ written' = [written EXCEPT ![m] = "none"]
               /\ deleted' = [deleted EXCEPT ![m] = {}]
      BY <3>1, <3>2 DEF OneLock, WrittenBy, Erasing, TenantTypeOK
    <3>3. CASE /\ \E l \in Erasing : mpc' = [mpc EXCEPT ![m] = l]
               /\ written' = written
               /\ \E D \in SUBSET rows : deleted' = [deleted EXCEPT ![m] = @ \cup D]
      <4>1. \A n \in Manager : WrittenBy(n)'
        BY <3>1, <3>3 DEF OneLock, WrittenBy, Erasing, TenantTypeOK
      <4>2. \A n \in Manager : /\ deleted'[n] \subseteq rows'
                               /\ deleted'[n] # {} => /\ mpc'[n] \in Erasing \cup {"commit"}
                                                      /\ op'[n] = "erase"
        BY <3>1, <3>3 DEF OneLock, WrittenBy, Erasing, TenantTypeOK
      <4> QED
        BY <3>3, <4>1, <4>2 DEF OneLock
    <3>4. \A kind : Visible(m, kind) \in SUBSET rows
      BY DEF Visible
    <3> QED
      BY <1>3, <3>2, <3>3, <3>4 DEF EraseRows, Delete, Rollback, Advance, Erasing
  <2>3. Settled'
    <3>1. UNCHANGED <<status, rows, others, settled>>
      BY <1>3 DEF EraseRows, Delete, Rollback, history
    <3>2. Quiet => Quiet'
      BY <3>1 DEF Quiet, others, visitorVars
    <3>3. CalmErasure(m)'
      <4>1. calm'[m] => Quiet'
        BY <1>3, <3>1, <3>2 DEF EraseRows, NobodyChats, Quiet, Settled, CalmErasure,
           TenantTypeOK, others, visitorVars
      <4>2. CASE mpc'[m] = "failed"
        BY <4>1, <4>2 DEF CalmErasure
      <4>3. CASE mpc[m] = "delete_leads" /\ mpc'[m] # "failed"
        <5>1. /\ mpc'[m] = "delete_conversations"
              /\ deleted'[m] = deleted[m] \cup Visible(m, "lead")
          BY <1>3, <4>3 DEF EraseRows, Delete, Rollback, Advance, TenantTypeOK
        <5> QED
          BY <3>1, <4>1, <5>1 DEF CalmErasure, Left, Visible
      <4>4. CASE mpc[m] = "delete_conversations" /\ mpc'[m] # "failed"
        <5>1. /\ mpc'[m] = "delete_pages" /\ calm'[m] = calm[m]
              /\ deleted'[m] = deleted[m] \cup Visible(m, "conversation")
          BY <1>3, <4>4 DEF EraseRows, Delete, Rollback, Advance, TenantTypeOK
        <5> QED
          BY <3>1, <4>1, <4>4, <5>1 DEF Settled, CalmErasure, Left, Visible
      <4>5. CASE mpc[m] = "delete_pages" /\ mpc'[m] # "failed"
        <5>1. /\ mpc'[m] = "finish" /\ calm'[m] = calm[m]
              /\ deleted[m] \subseteq deleted'[m]
          BY <1>3, <4>5 DEF EraseRows, Delete, Rollback, Advance, TenantTypeOK
        <5> QED
          BY <3>1, <4>1, <4>5, <5>1 DEF Settled, CalmErasure, Left
      <4> QED
        BY <1>3, <4>2, <4>3, <4>4, <4>5 DEF EraseRows
    <3>4. ASSUME NEW n \in Manager \ {m} PROVE CalmErasure(n)'
      <4>1. mpc'[n] = mpc[n] /\ deleted'[n] = deleted[n] /\ calm'[n] = calm[n]
        BY <1>3 DEF EraseRows, Delete, Rollback, Advance, TenantTypeOK
      <4> QED
        BY <3>1, <3>2, <4>1 DEF Settled, CalmErasure, Left
    <3> QED
      BY <3>1, <3>2, <3>3, <3>4 DEF Settled, ChatRows
  <2> QED
    BY <1>3, <2>1, <2>2, <2>3, NewRowsFrame, RowsFrame DEF EraseRows, Delete,
       Visible, Rollback, Advance, others, visitorVars, adminVars, history
<1>4. ASSUME NEW m \in Manager, Finish(m) PROVE TenantIInv'
  <2>1. TenantTypeOK'
    BY <1>4 DEF TenantTypeOK, Running, Finish, Advance, others, visitorVars,
       adminVars, history
  <2>2. OneLock'
    BY <1>4 DEF OneLock, WrittenBy, Erasing, TenantTypeOK, Finish, Advance, others,
       visitorVars, adminVars, history
  <2>3. Settled'
    BY <1>4 DEF Settled, CalmErasure, Quiet, Left, TenantTypeOK, ChatRows, Finish,
       Advance, others, visitorVars, adminVars, history
  <2> QED
    BY <1>4, <2>1, <2>2, <2>3, NewRowsFrame, RowsFrame DEF Finish, Advance, others,
       visitorVars, adminVars, history
<1>5. ASSUME NEW m \in Manager, CommitManager(m) PROVE TenantIInv'
  <2>1. TenantTypeOK'
    <3>1. written[m] # "erasing"
      BY <1>5 DEF CommitManager, OneLock, WrittenBy, Erasing
    <3>2. status' \in {"active", "suspended", "erased"}
      BY <1>5, <3>1 DEF CommitManager, TenantTypeOK
    <3>3. jobs' \in SUBSET [by : Manager, deleted : SUBSET Row]
      BY <1>5 DEF CommitManager, TenantTypeOK
    <3>4. /\ mpc' \in [Manager -> Running \cup {"idle", "done", "failed"}]
          /\ written' \in [Manager -> {"none", "suspended", "erasing", "erased"}]
          /\ deleted' \in [Manager -> SUBSET Row]
      BY <1>5 DEF CommitManager, Advance, TenantTypeOK
    <3>5. rows' \in SUBSET Row /\ settled' \in BOOLEAN
      BY <1>5 DEF CommitManager, TenantTypeOK
    <3> QED
      BY <1>5, <3>2, <3>3, <3>4, <3>5
         DEF CommitManager, TenantTypeOK, others, visitorVars, adminVars
  <2>2. OneLock'
    BY <1>5 DEF OneLock, WrittenBy, Erasing, TenantTypeOK, CommitManager, Advance,
       others, visitorVars, adminVars, history
  <2>3. RowsAreAccounted'
    <3>1. CASE op[m] = "erase"
      <4> DEFINE job == [by |-> m, deleted |-> deleted[m]]
      <4>1. jobs' = jobs \cup {job} /\ rows' = rows \ deleted[m] /\ ever' = ever
        BY <1>5, <3>1 DEF CommitManager
      <4>2. deleted[m] \subseteq rows /\ job.deleted = deleted[m]
        BY DEF OneLock
      <4>3. UNION {j.deleted : j \in jobs \cup {job}}
               = deleted[m] \cup UNION {j.deleted : j \in jobs}
        BY <4>2
      <4>4. ever' = rows' \cup UNION {j.deleted : j \in jobs'}
        BY <4>1, <4>2, <4>3 DEF RowsAreAccounted
      <4>5. \A j \in jobs' : j.deleted \cap rows' = {}
        BY <4>1, <4>2 DEF RowsAreAccounted
      <4>6. \A i, j \in jobs' : i # j => i.deleted \cap j.deleted = {}
        BY <4>1, <4>2 DEF RowsAreAccounted
      <4> QED
        BY <4>4, <4>5, <4>6 DEF RowsAreAccounted
    <3>2. CASE op[m] = "suspend"
      <4>1. deleted[m] = {}
        BY <3>2 DEF OneLock
      <4>2. UNCHANGED <<ever, rows, jobs>>
        BY <1>5, <3>2, <4>1 DEF CommitManager
      <4> QED
        BY <4>2, RowsFrame
    <3> QED
      BY <3>1, <3>2 DEF TenantTypeOK
  <2>4. Settled'
    <3>1. Quiet => Quiet'
      BY <1>5 DEF CommitManager, Quiet, TenantTypeOK, others, visitorVars
    <3>2. rows' = rows \ deleted[m]
      BY <1>5 DEF CommitManager
    <3>3. ASSUME NEW n \in Manager PROVE CalmErasure(n)'
      <4>1. CASE n = m
        BY <1>5, <3>1, <4>1 DEF CommitManager, Advance, Settled, CalmErasure, TenantTypeOK
      <4>2. CASE n # m
        <5>1. mpc'[n] = mpc[n] /\ deleted'[n] = deleted[n] /\ calm'[n] = calm[n]
          BY <1>5, <4>2 DEF CommitManager, Advance, TenantTypeOK
        <5> QED
          BY <3>1, <3>2, <5>1 DEF Settled, CalmErasure, Left
      <4> QED
        BY <4>1, <4>2
    <3>4. ASSUME settled' PROVE Quiet' /\ ChatRows' = {}
      <4>1. CASE settled
        BY <3>1, <3>2, <4>1 DEF Settled, ChatRows
      <4>2. CASE calm[m]
        <5>1. /\ Quiet
              /\ Left(m, "lead") = {} /\ Left(m, "conversation") = {}
          BY <1>5, <4>2 DEF CommitManager, Settled, CalmErasure
        <5>2. \A r \in rows : r.kind \in {"lead", "conversation", "page"}
          BY DEF TenantTypeOK, Row
        <5> QED
          BY <3>1, <3>2, <5>1, <5>2 DEF Left, ChatRows
      <4> QED
        BY <1>5, <3>4, <4>1, <4>2 DEF CommitManager
    <3> QED
      BY <3>3, <3>4 DEF Settled
  <2> QED
    BY <1>5, <2>1, <2>2, <2>3, <2>4, NewRowsFrame DEF CommitManager, Advance,
       others, visitorVars, adminVars, history
<1>6. ASSUME NEW m \in Manager, ManagerFails(m) PROVE TenantIInv'
  <2>1. TenantTypeOK'
    BY <1>6 DEF TenantTypeOK, Running, ManagerFails, Rollback, Running, Advance,
       others, visitorVars, adminVars, history
  <2>2. OneLock'
    BY <1>6 DEF OneLock, WrittenBy, Erasing, TenantTypeOK, ManagerFails, Rollback,
       Running, Advance, others, visitorVars, adminVars, history
  <2>3. Settled'
    BY <1>6 DEF Settled, CalmErasure, Quiet, Left, TenantTypeOK, ChatRows,
       ManagerFails, Rollback, Running, Advance, others, visitorVars, adminVars,
       history
  <2> QED
    BY <1>6, <2>1, <2>2, <2>3, NewRowsFrame, RowsFrame DEF ManagerFails, Rollback,
       Running, Advance, others, visitorVars, adminVars, history
<1>7. ASSUME NEW v \in Visitor, AskForToken(v) PROVE TenantIInv'
  <2>1. TenantTypeOK'
    BY <1>7 DEF TenantTypeOK, Running, Row, Actor, Lead, Conversation, CmsPage,
       AskForToken, VisitorAt, unmanaged, managerVars, adminVars, history
  <2>2. NewRows'
    BY <1>7 DEF NewRows, TenantTypeOK, Actor, Row, Lead, Conversation, CmsPage,
       AskForToken, VisitorAt, unmanaged, managerVars, adminVars, history
  <2>3. Settled'
    BY <1>7 DEF Settled, CalmErasure, Quiet, Left, TenantTypeOK, ChatRows,
       AskForToken, VisitorAt, unmanaged, managerVars, adminVars, history
  <2> QED
    BY <1>7, <2>1, <2>2, <2>3, LockFrame, RowsFrame DEF AskForToken, VisitorAt,
       unmanaged, managerVars, adminVars, history
<1>8. ASSUME NEW v \in Visitor, IssueToken(v) PROVE TenantIInv'
  <2>1. TenantTypeOK'
    BY <1>8 DEF TenantTypeOK, Running, Row, Actor, Lead, Conversation, CmsPage,
       IssueToken, VisitorAt, unmanaged, managerVars, adminVars, history
  <2>2. NewRows'
    BY <1>8 DEF NewRows, TenantTypeOK, Actor, Row, Lead, Conversation, CmsPage,
       IssueToken, VisitorAt, unmanaged, managerVars, adminVars, history
  <2>3. Settled'
    BY <1>8 DEF Settled, CalmErasure, Quiet, Left, TenantTypeOK, ChatRows,
       IssueToken, VisitorAt, unmanaged, managerVars, adminVars, history
  <2> QED
    BY <1>8, <2>1, <2>2, <2>3, LockFrame, RowsFrame DEF IssueToken, VisitorAt,
       unmanaged, managerVars, adminVars, history
<1>9. ASSUME NEW v \in Visitor, RefuseToken(v) PROVE TenantIInv'
  <2>1. TenantTypeOK'
    BY <1>9 DEF TenantTypeOK, Running, Row, Actor, Lead, Conversation, CmsPage,
       RefuseToken, VisitorAt, unmanaged, managerVars, adminVars, history
  <2>2. NewRows'
    BY <1>9 DEF NewRows, TenantTypeOK, Actor, Row, Lead, Conversation, CmsPage,
       RefuseToken, VisitorAt, unmanaged, managerVars, adminVars, history
  <2>3. Settled'
    BY <1>9 DEF Settled, CalmErasure, Quiet, Left, TenantTypeOK, ChatRows,
       RefuseToken, VisitorAt, unmanaged, managerVars, adminVars, history
  <2> QED
    BY <1>9, <2>1, <2>2, <2>3, LockFrame, RowsFrame DEF RefuseToken, VisitorAt,
       unmanaged, managerVars, adminVars, history
<1>10. ASSUME NEW v \in Visitor, TokenExpires(v) PROVE TenantIInv'
  <2>1. TenantTypeOK'
    BY <1>10 DEF TenantTypeOK, Running, TokenExpires, VisitorAt, unmanaged,
       managerVars, adminVars, history
  <2>2. Settled'
    BY <1>10 DEF Settled, CalmErasure, Quiet, Left, TenantTypeOK, ChatRows,
       TokenExpires, VisitorAt, unmanaged, managerVars, adminVars, history
  <2> QED
    BY <1>10, <2>1, <2>2, LockFrame, NewRowsFrame, RowsFrame DEF TokenExpires,
       VisitorAt, unmanaged, managerVars, adminVars, history
<1>11. ASSUME NEW v \in Visitor, BeginTurn(v) PROVE TenantIInv'
  <2>1. TenantTypeOK'
    BY <1>11 DEF TenantTypeOK, Running, Row, Actor, Lead, Conversation, CmsPage,
       BeginTurn, VisitorAt, unmanaged, managerVars, adminVars, history
  <2>2. NewRows'
    BY <1>11 DEF NewRows, TenantTypeOK, Actor, Row, Lead, Conversation, CmsPage,
       BeginTurn, VisitorAt, unmanaged, managerVars, adminVars, history
  <2>3. Settled'
    BY <1>11 DEF Settled, CalmErasure, Quiet, Left, TenantTypeOK, ChatRows,
       BeginTurn, VisitorAt, unmanaged, managerVars, adminVars, history
  <2> QED
    BY <1>11, <2>1, <2>2, <2>3, LockFrame, RowsFrame DEF BeginTurn, VisitorAt,
       unmanaged, managerVars, adminVars, history
<1>12. ASSUME NEW v \in Visitor, WriteRow(v) PROVE TenantIInv'
  <2>1. TenantTypeOK'
    <3>1. Lead(v) \in Row /\ Conversation(v) \in Row
      BY DEF Lead, Conversation, Row
    <3>2. pending' \in [Actor -> SUBSET Row]
      BY <1>12, <3>1 DEF WriteRow, TenantTypeOK, Actor
    <3> QED
      BY <1>12, <3>2 DEF WriteRow, TenantTypeOK, unmanaged, managerVars, visitorVars,
         adminVars, history
  <2>2. NewRows'
    BY <1>12 DEF NewRows, TenantTypeOK, Actor, Row, Lead, Conversation, CmsPage,
       WriteRow, VisitorAt, unmanaged, managerVars, adminVars, history, visitorVars
  <2> QED
    BY <1>12, <2>1, <2>2, LockFrame, RowsFrame, SettledFrame DEF WriteRow,
       VisitorAt, unmanaged, managerVars, adminVars, history, visitorVars
<1>13. ASSUME NEW v \in Visitor, CommitTurn(v) PROVE TenantIInv'
  <2>1. TenantTypeOK'
    BY <1>13 DEF TenantTypeOK, Running, Row, Actor, Lead, Conversation, CmsPage,
       CommitTurn, Publish, VisitorAt, managerVars, adminVars
  <2>2. OneLock'
    BY <1>13 DEF OneLock, WrittenBy, Erasing, TenantTypeOK, CommitTurn, Publish,
       VisitorAt, managerVars, adminVars
  <2>3. NewRows'
    BY <1>13 DEF NewRows, TenantTypeOK, Actor, Row, Lead, Conversation, CmsPage,
       CommitTurn, Publish, VisitorAt, managerVars, adminVars
  <2>4. RowsAreAccounted'
    <3>1. pending[v] \cap ever = {}
      BY <1>13 DEF CommitTurn, NewRows, Lead, Conversation, CmsPage, TenantTypeOK, Row
    <3>2. /\ rows' = rows \cup pending[v] /\ ever' = ever \cup pending[v]
          /\ jobs' = jobs
      BY <1>13 DEF CommitTurn, Publish
    <3> QED
      BY <3>1, <3>2 DEF RowsAreAccounted
  <2>5. Settled'
    BY <1>13 DEF Settled, CalmErasure, Quiet, Left, TenantTypeOK, NewRows, ChatRows,
       CmsPage, CommitTurn, Publish, VisitorAt, managerVars, adminVars
  <2> QED
    BY <2>1, <2>2, <2>3, <2>4, <2>5
<1>14. ASSUME NEW v \in Visitor, TurnFails(v) PROVE TenantIInv'
  <2>1. TenantTypeOK'
    BY <1>14 DEF TenantTypeOK, Running, Row, Actor, Lead, Conversation, CmsPage,
       TurnFails, VisitorAt, unmanaged, managerVars, adminVars, history
  <2>2. NewRows'
    BY <1>14 DEF NewRows, TenantTypeOK, Actor, Row, Lead, Conversation, CmsPage,
       TurnFails, VisitorAt, unmanaged, managerVars, adminVars, history
  <2>3. Settled'
    BY <1>14 DEF Settled, CalmErasure, Quiet, Left, TenantTypeOK, ChatRows,
       TurnFails, VisitorAt, unmanaged, managerVars, adminVars, history
  <2> QED
    BY <1>14, <2>1, <2>2, <2>3, LockFrame, RowsFrame DEF TurnFails, VisitorAt,
       unmanaged, managerVars, adminVars, history
<1>15. ASSUME NEW a \in Admin, Login(a) PROVE TenantIInv'
  <2>1. TenantTypeOK'
    BY <1>15 DEF TenantTypeOK, Running, Login, unmanaged, managerVars, visitorVars,
       history
  <2> QED
    BY <1>15, <2>1, LockFrame, NewRowsFrame, RowsFrame, SettledFrame DEF Login,
       unmanaged, managerVars, visitorVars, history
<1>16. ASSUME NEW a \in Admin, SessionExpires(a) PROVE TenantIInv'
  <2>1. TenantTypeOK'
    BY <1>16 DEF TenantTypeOK, Running, SessionExpires, unmanaged, managerVars,
       visitorVars, history
  <2> QED
    BY <1>16, <2>1, LockFrame, NewRowsFrame, RowsFrame, SettledFrame DEF
       SessionExpires, unmanaged, managerVars, visitorVars, history
<1>17. ASSUME NEW a \in Admin, CreatePage(a) PROVE TenantIInv'
  <2>1. TenantTypeOK'
    BY <1>17 DEF TenantTypeOK, Running, Row, Actor, Lead, Conversation, CmsPage,
       CreatePage, unmanaged, managerVars, visitorVars, history
  <2>2. NewRows'
    BY <1>17 DEF NewRows, TenantTypeOK, Actor, Row, Lead, Conversation, CmsPage,
       CreatePage, unmanaged, managerVars, visitorVars, history
  <2> QED
    BY <1>17, <2>1, <2>2, LockFrame, RowsFrame, SettledFrame DEF CreatePage,
       unmanaged, managerVars, visitorVars, history
<1>18. ASSUME NEW a \in Admin, CommitPage(a) PROVE TenantIInv'
  <2>1. TenantTypeOK'
    BY <1>18 DEF TenantTypeOK, Running, Row, Actor, Lead, Conversation, CmsPage,
       CommitPage, Publish, managerVars, visitorVars
  <2>2. OneLock'
    BY <1>18 DEF OneLock, WrittenBy, Erasing, TenantTypeOK, CommitPage, Publish,
       managerVars, visitorVars
  <2>3. NewRows'
    BY <1>18 DEF NewRows, TenantTypeOK, Actor, Row, Lead, Conversation, CmsPage,
       CommitPage, Publish, managerVars, visitorVars
  <2>4. RowsAreAccounted'
    <3>1. pending[a] \cap ever = {}
      BY <1>18 DEF CommitPage, NewRows, Lead, Conversation, CmsPage, TenantTypeOK, Row
    <3>2. /\ rows' = rows \cup pending[a] /\ ever' = ever \cup pending[a]
          /\ jobs' = jobs
      BY <1>18 DEF CommitPage, Publish
    <3> QED
      BY <3>1, <3>2 DEF RowsAreAccounted
  <2>5. Settled'
    BY <1>18 DEF Settled, CalmErasure, Quiet, Left, TenantTypeOK, NewRows, ChatRows,
       CmsPage, CommitPage, Publish, managerVars, visitorVars
  <2> QED
    BY <2>1, <2>2, <2>3, <2>4, <2>5
<1>19. ASSUME NEW a \in Admin, PageFails(a) PROVE TenantIInv'
  <2>1. TenantTypeOK'
    BY <1>19 DEF TenantTypeOK, Running, Row, Actor, Lead, Conversation, CmsPage,
       PageFails, unmanaged, managerVars, visitorVars, history
  <2>2. NewRows'
    BY <1>19 DEF NewRows, TenantTypeOK, Actor, Row, Lead, Conversation, CmsPage,
       PageFails, unmanaged, managerVars, visitorVars, history
  <2> QED
    BY <1>19, <2>1, <2>2, LockFrame, RowsFrame, SettledFrame DEF PageFails,
       unmanaged, managerVars, visitorVars, history
<1>20. CASE UNCHANGED tenantVars
  <2>1. TenantTypeOK'
    BY <1>20 DEF TenantTypeOK, tenantVars, managerVars, visitorVars, adminVars, history
  <2> QED
    BY <1>20, <2>1, LockFrame, NewRowsFrame, RowsFrame, SettledFrame
       DEF tenantVars, managerVars, visitorVars, adminVars, history
<1> QED
  BY <1>1, <1>2, <1>3, <1>4, <1>5, <1>6, <1>7, <1>8, <1>9, <1>10, <1>11, <1>12, <1>13,
     <1>14, <1>15, <1>16, <1>17, <1>18, <1>19, <1>20 DEF TenantNext, ManagerStep,
     VisitorStep, AdminStep

LEMMA TenantInvariance == TenantSpec => []TenantIInv
BY InitTenantIInv, StepTenantIInv, PTL DEF TenantSpec

----------------------------------------------------------------------------
(* Theorems *)

\* Type correctness; in particular no request ever reads "erasing", what an
\* erasure writes first (tenant_service.py:115).
THEOREM TenantTypeCorrect == TenantSpec => []TenantTypeOK
<1>1. TenantIInv => TenantTypeOK
  BY DEF TenantIInv
<1> QED
  BY <1>1, TenantInvariance, PTL

\* However many erasures, suspensions, chats and page edits run together and
\* fail half-way, every row the tenant ever had is still there or is counted in
\* exactly one erasure job.
THEOREM EveryRowAccounted == TenantSpec => []RowsAreAccounted
<1>1. TenantIInv => RowsAreAccounted
  BY DEF TenantIInv
<1> QED
  BY <1>1, TenantInvariance, PTL

\* An erasure that begins when nobody can chat leaves no lead and no
\* conversation, and none is written afterwards.
THEOREM SettledErasureStays == TenantSpec => []SettledErasureIsFinal
<1>1. TenantIInv => SettledErasureIsFinal
  BY DEF TenantIInv, Settled, SettledErasureIsFinal
<1> QED
  BY <1>1, TenantInvariance, PTL

----------------------------------------------------------------------------
(* chunk_text, for every text, chunk size and overlap *)

LastChunk == chunks[Len(chunks)]

\* Where the loop is: before the end of the text, one overlap back from the
\* end of the last chunk.
LoopPosition ==
    /\ length > 0
    /\ start < length
    /\ chunks = <<>> => start = 0
    /\ chunks # <<>> => LastChunk.to < length /\ start = LastChunk.to - overlap

\* ChunksCover as an inductive invariant.
ChunkIInv ==
    /\ ChunkTypeOK
    /\ overlap < size
    /\ ChunksCover
    /\ stage = "loop" => LoopPosition

\* A chunk is never empty, and is longer than what it shares with the next.
LEMMA SafeArguments ==
    ASSUME NEW s \in Int, NEW o \in Int
    PROVE  /\ SafeSize(s) \in Nat
           /\ SafeSize(s) >= MinSize
           /\ SafeOverlap(o, SafeSize(s)) \in Nat
           /\ SafeOverlap(o, SafeSize(s)) < SafeSize(s)
BY ChunkingAssumption DEF SafeSize, SafeOverlap, Larger, Smaller

LEMMA InitChunk == ChunkInit => ChunkIInv
<1> SUFFICES ASSUME ChunkInit PROVE ChunkIInv
  OBVIOUS
<1>1. PICK s \in Sizes, o \in Overlaps :
        size = SafeSize(s) /\ overlap = SafeOverlap(o, size)
  BY DEF ChunkInit
<1>2. s \in Int /\ o \in Int
  BY ChunkingAssumption
<1>3. /\ size \in Nat /\ size >= MinSize
      /\ overlap \in Nat /\ overlap < size
  BY <1>1, <1>2, SafeArguments
<1>4. length \in Nat
  BY ChunkingAssumption DEF ChunkInit
<1>5. /\ start = 0 /\ chunks = <<>>
      /\ stage = IF length = 0 THEN "done" ELSE "loop"
  BY DEF ChunkInit
<1>6. ChunkTypeOK
  BY <1>3, <1>4, <1>5 DEF ChunkTypeOK
<1>7. ChunksCover
  BY <1>4, <1>5 DEF ChunksCover
<1>8. stage = "loop" => LoopPosition
  BY <1>4, <1>5 DEF LoopPosition
<1> QED
  BY <1>3, <1>6, <1>7, <1>8 DEF ChunkIInv

\* A round appends one chunk, from start to the end of the slice.
LEMMA StepTakeChunk == ChunkIInv /\ TakeChunk => ChunkIInv' /\ (stage' = "loop" => start < start')
<1> SUFFICES ASSUME ChunkIInv, TakeChunk
             PROVE  ChunkIInv' /\ (stage' = "loop" => start < start')
  OBVIOUS
<1> DEFINE end == start + size
           new == [from |-> start, to |-> Smaller(end, length)]
<1>1. /\ length \in Nat /\ size \in Nat /\ overlap \in Nat /\ start \in Nat
      /\ MinSize \in Nat /\ MinSize > 0 /\ size >= MinSize /\ overlap < size
      /\ chunks \in Seq([from : Nat, to : Nat])
  BY ChunkingAssumption DEF ChunkIInv, ChunkTypeOK
<1>2. /\ stage = "loop" /\ LoopPosition
      /\ chunks' = Append(chunks, new)
      /\ start' = IF end >= length THEN start ELSE end - overlap
      /\ stage' = IF end >= length \/ start' >= length THEN "done" ELSE "loop"
      /\ UNCHANGED <<length, size, overlap>>
  BY DEF ChunkIInv, TakeChunk, ReachesEnd
<1>3. /\ start < length
      /\ length > 0
      /\ chunks = <<>> => start = 0
      /\ chunks # <<>> => LastChunk.to < length /\ start = LastChunk.to - overlap
  BY <1>2 DEF LoopPosition
<1>4. /\ new \in [from : Nat, to : Nat]
      /\ new.from = start
      /\ start < new.to /\ new.to <= length
      /\ end >= length => new.to = length
      /\ end < length => new.to = end
  BY <1>1, <1>3 DEF Smaller
<1>5. /\ chunks' \in Seq([from : Nat, to : Nat])
      /\ Len(chunks') = Len(chunks) + 1
      /\ chunks' # <<>>
      /\ chunks'[Len(chunks')] = new
      /\ \A k \in 1..Len(chunks) : chunks'[k] = chunks[k]
  BY <1>1, <1>2, <1>4
<1>6. ASSUME chunks # <<>>
      PROVE  Len(chunks) \in 1..Len(chunks) /\ LastChunk.to \in Nat
  <2>1. Len(chunks) \in Nat /\ Len(chunks) # 0
    BY <1>1, <1>6
  <2>2. Len(chunks) \in 1..Len(chunks)
    BY <2>1
  <2>3. chunks \in Seq([from : Nat, to : Nat])
    BY <1>1
  <2>4. \A k \in 1..Len(chunks) : chunks[k] \in [from : Nat, to : Nat]
    BY <2>3, ElementOfSeq
  <2>5. LastChunk \in [from : Nat, to : Nat]
    BY <2>2, <2>4 DEF LastChunk
  <2> QED
    BY <2>2, <2>5
<1>7. start' \in Nat /\ (end < length => start < start')
  BY <1>1, <1>2
<1>8. stage' = "loop" => start < start' /\ start' < length
  BY <1>1, <1>2, <1>7
<1>9. end < length /\ start' >= length => FALSE
  BY <1>1, <1>2
<1>10. stage' = "done" => new.to = length
  BY <1>1, <1>2, <1>4, <1>9
<1>11. ChunkTypeOK'
  BY <1>1, <1>2, <1>5, <1>7 DEF ChunkTypeOK
<1>12. chunks'[1].from = 0
  <2>1. CASE chunks = <<>>
    <3>1. Len(chunks) = 0
      BY <2>1
    <3>2. chunks'[1] = new
      BY <3>1, <1>5
    <3> QED
      BY <2>1, <3>2, <1>3, <1>4
  <2>2. CASE chunks # <<>>
    <3>1. chunks[1].from = 0
      BY <2>2 DEF ChunkIInv, ChunksCover
    <3>2. 1 \in 1..Len(chunks)
      BY <2>2, <1>1
    <3> QED
      BY <3>1, <3>2, <1>5
  <2> QED
    BY <2>1, <2>2
<1>13. ASSUME NEW k \in 1..(Len(chunks') - 1)
       PROVE  /\ chunks'[k + 1].from <= chunks'[k].to
              /\ chunks'[k].to < chunks'[k + 1].to
  <2>1. /\ Len(chunks) \in Nat /\ k \in 1..Len(chunks)
        /\ chunks'[k] = chunks[k]
    BY <1>1, <1>5
  <2>2. CASE k = Len(chunks)
    <3>1. chunks # <<>> /\ chunks[k] = LastChunk /\ chunks'[k + 1] = new
      BY <2>1, <2>2, <1>5 DEF LastChunk
    <3>2. start = LastChunk.to - overlap /\ LastChunk.to < length
      BY <3>1, <1>3
    <3>3. LastChunk.to \in Nat
      BY <3>1, <1>6
    <3>4. end >= length => LastChunk.to < new.to
      BY <3>2, <1>4
    <3>5. end < length => LastChunk.to < new.to
      BY <3>2, <3>3, <1>1, <1>4
    <3>6. end \in Nat
      BY <1>1
    <3>7. end >= length \/ end < length
      BY <3>6, <1>1
    <3>8. new.from <= LastChunk.to /\ LastChunk.to < new.to
      BY <3>2, <3>3, <3>4, <3>5, <3>7, <1>1, <1>4
    <3> QED
      BY <2>1, <3>1, <3>8
  <2>3. CASE k # Len(chunks)
    <3>1. k \in 1..(Len(chunks) - 1) /\ k + 1 \in 1..Len(chunks)
      BY <2>1, <2>3
    <3>2. chunks'[k + 1] = chunks[k + 1]
      BY <3>1, <1>5
    <3>3. /\ chunks[k + 1].from <= chunks[k].to
          /\ chunks[k].to < chunks[k + 1].to
      BY <3>1 DEF ChunkIInv, ChunksCover
    <3> QED
      BY <2>1, <3>2, <3>3
  <2> QED
    BY <2>2, <2>3
<1>14. ChunksCover'
  <2>1. stage' = "done" => length' # 0 /\ chunks'[Len(chunks')].to = length'
    BY <1>1, <1>2, <1>3, <1>5, <1>10
  <2>2. \A k \in 1..(Len(chunks') - 1) :
           /\ chunks'[k + 1].from <= chunks'[k].to
           /\ chunks'[k].to < chunks'[k + 1].to
    BY <1>13
  <2> QED
    BY <2>1, <2>2, <1>5, <1>12 DEF ChunksCover
<1>15. stage' = "loop" => LoopPosition'
  <2> SUFFICES ASSUME stage' = "loop" PROVE LoopPosition'
    OBVIOUS
  <2>1. end < length /\ start' = end - overlap
    BY <1>1, <1>2
  <2>2. LastChunk' = new
    BY <1>5 DEF LastChunk
  <2>3. new.to = end
    BY <2>1, <1>4
  <2> QED
    BY <2>1, <2>2, <2>3, <1>1, <1>2, <1>3, <1>5, <1>8 DEF LoopPosition
<1> QED
  BY <1>1, <1>2, <1>8, <1>11, <1>14, <1>15 DEF ChunkIInv

LEMMA StepChunk == ChunkIInv /\ [ChunkNext]_chunkVars => ChunkIInv'
<1> SUFFICES ASSUME ChunkIInv, [ChunkNext]_chunkVars PROVE ChunkIInv'
  OBVIOUS
<1>1. CASE TakeChunk
  BY <1>1, StepTakeChunk
<1>2. CASE UNCHANGED chunkVars
  BY <1>2 DEF chunkVars, ChunkIInv, ChunkTypeOK, ChunksCover, LoopPosition, LastChunk
<1> QED
  BY <1>1, <1>2 DEF ChunkNext

THEOREM ChunkInvariance == ChunkSpec => []ChunkIInv
BY InitChunk, StepChunk, PTL DEF ChunkSpec

\* The variables of chunk_text keep their types, whatever its arguments.
THEOREM ChunkTypeCorrect == ChunkSpec => []ChunkTypeOK
<1>1. ChunkIInv => ChunkTypeOK
  BY DEF ChunkIInv
<1> QED
  BY <1>1, ChunkInvariance, PTL

\* The chunks cover the text without a gap, and none only repeats another.
THEOREM ChunksCoverText == ChunkSpec => []ChunksCover
<1>1. ChunkIInv => ChunksCover
  BY DEF ChunkIInv
<1> QED
  BY <1>1, ChunkInvariance, PTL

\* Each round starts further on than the one before: with a text of finite
\* length, the loop ends.
THEOREM LoopAdvances == ChunkSpec => RoundsAdvance
<1>1. ChunkIInv /\ [ChunkNext]_chunkVars => [stage' = "loop" => start < start']_chunkVars
  BY StepTakeChunk DEF ChunkNext
<1> QED
  BY <1>1, ChunkInvariance, PTL DEF ChunkSpec, RoundsAdvance

----------------------------------------------------------------------------
(* A tenant's page, text and rows *)

\* A behaviour of what a tenant has is one of each of its parts.
LEMMA Parts == MCNext => /\ [Next]_vars
                         /\ [TenantNext]_tenantVars
                         /\ [ChunkNext]_chunkVars
BY DEF MCNext

LEMMA ContentInvariance == MCSpec => [](CmsIInv /\ TenantIInv /\ ChunkIInv)
<1> DEFINE Inv == CmsIInv /\ TenantIInv /\ ChunkIInv
<1>1. MCInit => Inv
  BY InitCms, InitTenantIInv, InitChunk DEF MCInit
<1>2. Inv /\ [MCNext]_allVars => Inv'
  <2> SUFFICES ASSUME Inv, [MCNext]_allVars PROVE Inv'
    OBVIOUS
  <2>1. [Next]_vars /\ [TenantNext]_tenantVars /\ [ChunkNext]_chunkVars
    BY Parts DEF allVars
  <2> QED
    BY <2>1, StepCms, StepTenantIInv, StepChunk
<1> QED
  BY <1>1, <1>2, PTL DEF MCSpec

\* Type correctness of the three parts.
THEOREM ContentTypeCorrect == MCSpec => []TypesOK
<1>1. CmsIInv /\ TenantIInv /\ ChunkIInv => TypesOK
  BY DEF CmsIInv, TenantIInv, ChunkIInv, TypesOK
<1> QED
  BY <1>1, ContentInvariance, PTL
=============================================================================
