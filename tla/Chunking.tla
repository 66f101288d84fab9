------------------------------- MODULE Chunking -------------------------------
(***************************************************************************)
(* chunk_text: a CMS body is cut into overlapping chunks for the index.    *)
(* A text is its length after blanks are collapsed, a chunk the positions  *)
(* it takes, first included, last not.                                     *)
(***************************************************************************)
EXTENDS Integers, Sequences

CONSTANTS
    MinSize,        \* the least chunk size, 100 in the code
    Lengths,        \* bound: lengths of the text
    Sizes,          \* bound: chunk_size arguments
    Overlaps        \* bound: overlap arguments

ASSUME ChunkingAssumption ==
    /\ MinSize \in Nat \ {0}
    /\ Lengths \subseteq Nat
    /\ Sizes \subseteq Int
    /\ Overlaps \subseteq Int

VARIABLES
    length,     \* len(cleaned)
    size,       \* safe_chunk_size
    overlap,    \* safe_overlap
    start,
    chunks,
    stage       \* "loop", "done"

chunkVars == <<length, size, overlap, start, chunks, stage>>

Larger(a, b) == IF a < b THEN b ELSE a
Smaller(a, b) == IF a < b THEN a ELSE b

SafeSize(s) == Larger(MinSize, s)

\* An overlap is less than a chunk, so that each chunk starts further on.
SafeOverlap(o, s) == Larger(0, Smaller(o, s - 1))

ChunkInit ==
    /\ length \in Lengths
    /\ \E s \in Sizes, o \in Overlaps :
          /\ size = SafeSize(s)
          /\ overlap = SafeOverlap(o, size)
    /\ start = 0
    /\ chunks = <<>>
    /\ stage = IF length = 0 THEN "done" ELSE "loop"

ReachesEnd_late(end) == end > length

ReachesEnd(end) == end >= length

\* One round of the loop: a slice stops at the end of the text.
TakeChunk ==
    /\ stage = "loop"
    /\ LET end == start + size
       IN  /\ chunks' = Append(chunks, [from |-> start,
                                        to |-> Smaller(end, length)])
           /\ start' = IF ReachesEnd(end) THEN start ELSE end - overlap
           /\ stage' = IF ReachesEnd(end) \/ start' >= length THEN "done"
                                                         ELSE "loop"
    /\ UNCHANGED <<length, size, overlap>>

ChunkNext == TakeChunk

ChunkSpec == ChunkInit /\ [][ChunkNext]_chunkVars

----------------------------------------------------------------------------
(* Properties *)

\* Every variable has its type.
ChunkTypeOK ==
    /\ length \in Nat
    /\ size \in Nat /\ size >= MinSize
    /\ overlap \in Nat
    /\ start \in Nat
    /\ chunks \in Seq([from : Nat, to : Nat])
    /\ stage \in {"loop", "done"}

\* retriever.py:49: the chunks so far leave no gap, each reaches further than
\* the one before (none only repeats what is indexed already), and at the end
\* they reach the end of the text.
ChunksCover ==
    /\ chunks # <<>> => chunks[1].from = 0
    /\ \A k \in 1..(Len(chunks) - 1) :
          /\ chunks[k + 1].from <= chunks[k].to
          /\ chunks[k].to < chunks[k + 1].to
    /\ stage = "done" => IF length = 0 THEN chunks = <<>>
                      ELSE chunks # <<>> /\ chunks[Len(chunks)].to = length

\* retriever.py:61-68, the loop ends: a round that is not the last starts the
\* next one further on.
RoundsAdvance == [][stage' = "loop" => start < start']_chunkVars
=============================================================================
