------------------------------ MODULE MCCmsIndex ------------------------------
(***************************************************************************)
(* CmsIndex with three bodies (blank, one chunk, two chunks) and the       *)
(* edits that matter: a new body, a new status, a new slug, both at once.  *)
(***************************************************************************)
EXTENDS CmsIndex

CONSTANTS blank, short, long

MCText == {blank, short, long}
MCChunks == [t \in MCText |-> CASE t = blank -> 0 [] t = short -> 1 [] t = long -> 2]

Edit(b, s, slug) == [body |-> b, status |-> s, slug |-> slug]

MCChange ==
    {Edit(short, "none", FALSE), Edit(long, "none", FALSE),
     Edit(None, "published", FALSE), Edit(None, "none", TRUE),
     Edit(blank, "published", FALSE)}

\* Edits of a page that always has a text: publishing it as it is, or a new
\* body.
MCPlainChange ==
    {Edit(short, "none", FALSE), Edit(long, "none", FALSE),
     Edit(None, "published", FALSE)}
=============================================================================
