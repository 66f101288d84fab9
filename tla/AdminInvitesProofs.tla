--------------------------- MODULE AdminInvitesProofs ---------------------------
(***************************************************************************)
(* Single-use invites and truthful pages, for any number of invites,       *)
(* admins, browsers and requests.                                          *)
(*                                                                         *)
(* One account per email rests on the unique key, held from the INSERT to  *)
(* the commit.  That a dead link stays dead rests on the link counting up: *)
(* only a resend takes an expiry back, and it gives the invite a new link. *)
(* That a page has the good link it was given rests on the row's lock: the *)
(* token an early answer shows is the last one drawn until its commit.     *)
(***************************************************************************)
EXTENDS AdminInvites, TLAPS

InviteRow == [link : Nat \ {0}, by : Console, used : BOOLEAN, revoked : BOOLEAN,
              expired : BOOLEAN]
Stage == {"sent", "read", "email", "insert", "mark", "again", "write", "commit"}
Call == [pc : Stage, op : {"accept", "revoke", "resend"}, by : Console \cup Visitor,
         invite : Invite, link : Nat, heard : BOOLEAN]
Screen == {"form", "waiting", "used", "expired", "error", "signing", "created", "in"}
Remembrance == [invite : Invite, link : Nat, status : {"pending", "revoked"}]
NoPage == [screen |-> "none"]
Page == [screen : Screen, invite : Invite, link : Nat]

\* The type invariant, as what each variable is.
InvitesTyped ==
    /\ invites \in [Invite -> {None} \cup InviteRow]
    /\ req \in [Request -> {Unmade, Done} \cup Call]
    /\ page \in [Visitor -> {NoPage} \cup Page]
    /\ recent \in [Console -> SUBSET Remembrance]
    /\ drawn \in [Invite -> Nat]
    /\ holder \in [Invite -> SUBSET Console]
    /\ \A a \in accounts : a.by \in Visitor /\ a.invite \in Live
    /\ late \subseteq Served /\ answered \subseteq Served
    /\ misled \subseteq Visitor

\* k is a link the invite has or had.
Issued(i, k) == i \in Live /\ 1 <= k /\ k <= invites[i].link

\* A request is about a link that was issued, and is where its kind can be.
Posted ==
    \A r \in Served :
        /\ Issued(req[r].invite, req[r].link)
        /\ req[r].by \in (IF req[r].op = "accept" THEN Visitor ELSE Console)
        /\ req[r].pc \in {"email", "insert", "mark"} => req[r].op = "accept"
        /\ req[r].pc \in {"again", "write"} => req[r].op # "accept"

\* So is an open page; the rows of a console may be of tokens that were drawn
\* and whose commit failed or is still to come.
PageLinks ==
    \A v \in Visitor : page[v] # NoPage => Issued(page[v].invite, page[v].link)

Drawn ==
    /\ \A i \in Live : invites[i].link <= drawn[i]
    /\ \A c \in Console : \A e \in recent[c] : 1 <= e.link /\ e.link <= drawn[e.invite]
    /\ \A i \in Invite : holder[i] # {} => i \in Live

\* A visitor waits for one answer at a time, and his page knows for which.
Heard(r) == r \in Served /\ req[r].op = "accept" /\ req[r].heard

Waiting ==
    \A r \in Request : Heard(r) =>
        /\ page[req[r].by].screen = "waiting"
        /\ page[req[r].by].invite = req[r].invite
        /\ page[req[r].by].link = req[r].link
        /\ \A s \in Request : Heard(s) /\ req[s].by = req[r].by => s = r

\* The unique key of an email: one transaction holds it, before any account.
EmailHeld ==
    \A r \in Request : HoldsEmail(r, Email[req[r].invite]) =>
        /\ ~HasAccount(Email[req[r].invite])
        /\ \A s \in Request : HoldsEmail(s, Email[req[r].invite]) => s = r

\* The row of an invite: one transaction holds it.
RowHeld ==
    \A r, s \in Request :
        HoldsRow(r, req[r].invite) /\ HoldsRow(s, req[r].invite) => s = r

\* An answer ahead of its commit: the page shows what the commit will bring.
Ahead ==
    \A r \in answered :
        /\ req[r].pc = "commit" /\ ~req[r].heard
        /\ req[r].op = "accept" =>
              /\ page[req[r].by].screen \in {"signing", "created", "in"}
              /\ page[req[r].by].invite = req[r].invite
        /\ req[r].op = "resend" =>
              /\ invites[req[r].invite].link < drawn[req[r].invite]
              /\ \E e \in recent[req[r].by] :
                    e.invite = req[r].invite /\ e.link = drawn[req[r].invite]

\* What made a link dead cannot be undone without a new link.
Spent(op, i, k) ==
    \/ k < invites[i].link
    \/ invites[i].used \/ invites[i].revoked
    \/ op = "accept" /\ invites[i].expired

LateIsSpent ==
    \A r \in late : req[r].pc = "read" /\ Spent(req[r].op, req[r].invite, req[r].link)

InvitesIInv ==
    /\ InvitesTyped
    /\ Posted
    /\ PageLinks
    /\ Drawn
    /\ Waiting
    /\ EmailHeld
    /\ RowHeld
    /\ OneAccountPerEmail
    /\ LateIsSpent
    /\ Ahead
    /\ LinksAreKnown
    /\ ScreensTellTheTruth

LEMMA InitInvitesIInv == InvitesInit => InvitesIInv
<1> SUFFICES ASSUME InvitesInit PROVE InvitesIInv
  OBVIOUS
<1>1. Live = {} /\ Served = {}
  BY DEF InvitesInit, Live, Served
<1>2. InvitesTyped
  BY <1>1 DEF InvitesInit, InvitesTyped, NoPage
<1>3. Posted /\ PageLinks /\ Drawn /\ Waiting /\ EmailHeld /\ RowHeld
  BY <1>1 DEF InvitesInit, Posted, PageLinks, Drawn, Waiting, Heard, NoPage, EmailHeld,
     HoldsEmail, RowHeld, HoldsRow
<1>4. OneAccountPerEmail /\ LateIsSpent /\ Ahead /\ LinksAreKnown /\ ScreensTellTheTruth
  BY <1>1 DEF InvitesInit, OneAccountPerEmail, LateIsSpent, Ahead, LinksAreKnown,
     ScreensTellTheTruth
<1> QED
  BY <1>2, <1>3, <1>4 DEF InvitesIInv

----------------------------------------------------------------------------
(* What the records are, and what a step does to them *)

LEMMA LiveRow ==
    ASSUME InvitesTyped
    PROVE  \A i \in Invite : i \in Live <=> invites[i] \in InviteRow
BY DEF InvitesTyped, Live, InviteRow, None

LEMMA ServedCall ==
    ASSUME InvitesTyped, NEW r \in Request
    PROVE  /\ r \in Served => req[r] \in Call
           /\ req[r].pc \in Stage => r \in Served
<1>1. Unmade.pc \notin Stage /\ Done.pc \notin Stage
  BY DEF Unmade, Done, Stage
<1> QED
  BY <1>1 DEF InvitesTyped, Served

\* Rows stay, and age: a link only counts up, what killed one stays.
Ages ==
    /\ Live \subseteq Live'
    /\ \A i \in Live :
          /\ invites[i].link <= invites'[i].link
          /\ invites[i].used => invites'[i].used
          /\ invites[i].revoked => invites'[i].revoked
          /\ invites[i].expired /\ invites'[i].link = invites[i].link => invites'[i].expired

LEMMA AgesFrame ==
    ASSUME InvitesTyped, UNCHANGED invites
    PROVE  Ages /\ Live' = Live
<1>1. \A i \in Live : invites[i].link \in Nat
  BY LiveRow DEF Live, InviteRow
<1> QED
  BY <1>1 DEF Ages, Live

LEMMA IssuedStays ==
    ASSUME InvitesTyped, InvitesTyped', Ages, NEW i, NEW k \in Nat, Issued(i, k)
    PROVE  Issued(i, k)'
<1>1. /\ i \in Live /\ i \in Live' /\ i \in Invite
      /\ invites[i].link \in Nat /\ invites'[i].link \in Nat
  BY LiveRow DEF Issued, Ages, Live, InvitesTyped, InviteRow, None
<1> QED
  BY <1>1 DEF Issued, Ages

LEMMA SpentStays ==
    ASSUME InvitesTyped, InvitesTyped', Ages, NEW op, NEW i \in Live, NEW k \in Nat,
           Spent(op, i, k), Issued(i, k)
    PROVE  Spent(op, i, k)'
<1>1. /\ i \in Live' /\ i \in Invite
      /\ invites[i].link \in Nat /\ invites'[i].link \in Nat
  BY LiveRow DEF Ages, Live, InvitesTyped, InviteRow, None
<1> QED
  BY <1>1 DEF Spent, Issued, Ages

\* A write changes one row, and no invite comes or goes.
LEMMA OneRowChanges ==
    ASSUME InvitesTyped, NEW i \in Live, NEW row \in InviteRow,
           invites' = [invites EXCEPT ![i] = row]
    PROVE  /\ invites' \in [Invite -> {None} \cup InviteRow]
           /\ Live' = Live
           /\ invites'[i] = row
           /\ \A j \in Live \ {i} : invites'[j] = invites[j]
BY DEF InvitesTyped, Live, InviteRow, None

LEMMA RequestMoves ==
    ASSUME InvitesTyped, NEW r \in Request, NEW q \in Call,
           req' = [req EXCEPT ![r] = q]
    PROVE  /\ req' \in [Request -> {Unmade, Done} \cup Call]
           /\ Served' = Served \cup {r}
           /\ req'[r] = q
           /\ \A s \in Request \ {r} : req'[s] = req[s]
<1>1. q \notin {Unmade, Done}
  BY DEF Call, Stage, Unmade, Done
<1> QED
  BY <1>1 DEF InvitesTyped, Served

LEMMA RequestEnds ==
    ASSUME InvitesTyped, NEW r \in Request, req' = [req EXCEPT ![r] = Done]
    PROVE  /\ req' \in [Request -> {Unmade, Done} \cup Call]
           /\ Served' = Served \ {r}
           /\ \A s \in Request \ {r} : req'[s] = req[s]
BY DEF InvitesTyped, Served

\* A request goes on to its next statement.
LEMMA RequestProceeds ==
    ASSUME InvitesTyped, NEW r \in Served, NEW p \in Stage,
           req' = [req EXCEPT ![r].pc = p]
    PROVE  /\ req' \in [Request -> {Unmade, Done} \cup Call]
           /\ Served' = Served
           /\ req'[r] \in Call
           /\ req'[r].pc = p /\ req'[r].op = req[r].op /\ req'[r].by = req[r].by
           /\ req'[r].invite = req[r].invite /\ req'[r].link = req[r].link
           /\ req'[r].heard = req[r].heard
           /\ \A s \in Request \ {r} : req'[s] = req[s]
<1> DEFINE q == [req[r] EXCEPT !.pc = p]
<1>1. r \in Request /\ req[r] \in Call
  BY ServedCall DEF Served
<1>2. /\ q \in Call
      /\ q.pc = p /\ q.op = req[r].op /\ q.by = req[r].by
      /\ q.invite = req[r].invite /\ q.link = req[r].link /\ q.heard = req[r].heard
  BY <1>1 DEF Call
<1>3. req' = [req EXCEPT ![r] = q]
  OBVIOUS
<1> HIDE DEF q
<1>4. /\ req' \in [Request -> {Unmade, Done} \cup Call]
      /\ Served' = Served \cup {r}
      /\ req'[r] = q
      /\ \A s \in Request \ {r} : req'[s] = req[s]
  BY <1>1, <1>2, <1>3, RequestMoves
<1> QED
  BY <1>2, <1>4

\* A page is shown.
LEMMA PageShown ==
    ASSUME InvitesTyped, NEW v \in Visitor, NEW s \in Screen, NEW i \in Invite,
           NEW k \in Nat, Show(v, s, i, k)
    PROVE  /\ page' \in [Visitor -> {NoPage} \cup Page]
           /\ page'[v] # NoPage /\ page'[v].screen = s
           /\ page'[v].invite = i /\ page'[v].link = k
           /\ \A w \in Visitor \ {v} : page'[w] = page[w]
<1> DEFINE p == [screen |-> s, invite |-> i, link |-> k]
<1>1. p \in Page /\ p # NoPage
  BY DEF Page, NoPage, Screen
<1>2. p.screen = s /\ p.invite = i /\ p.link = k
  OBVIOUS
<1>3. page' = [page EXCEPT ![v] = p]
  BY DEF Show
<1> HIDE DEF p
<1> QED
  BY <1>1, <1>2, <1>3 DEF InvitesTyped

----------------------------------------------------------------------------
(* A step that leaves alone what a part of the invariant speaks of *)

LEMMA EmailFrame ==
    ASSUME EmailHeld, UNCHANGED <<accounts, req>>
    PROVE  EmailHeld'
BY DEF EmailHeld, HoldsEmail, HasAccount, Served

LEMMA AccountsFrame ==
    ASSUME OneAccountPerEmail, UNCHANGED <<invites, accounts>>
    PROVE  OneAccountPerEmail'
BY DEF OneAccountPerEmail, Live

LEMMA LinksFrame ==
    ASSUME LinksAreKnown, Drawn, UNCHANGED <<invites, recent, drawn, holder>>
    PROVE  LinksAreKnown' /\ Drawn'
BY DEF LinksAreKnown, Drawn, Live

\* Links, and the rows of consoles that show them, stay.
LEMMA LinksKept ==
    ASSUME InvitesTyped, LinksAreKnown, Drawn, Live' = Live, UNCHANGED <<drawn, holder>>,
           \A j \in Live : invites'[j].link = invites[j].link,
           \A d \in Console : \A f \in recent'[d] :
              \E e \in recent[d] : e.invite = f.invite /\ e.link = f.link,
           \A d \in Console : \A e \in recent[d] :
              \E f \in recent'[d] : f.invite = e.invite /\ f.link = e.link
    PROVE  LinksAreKnown' /\ Drawn'
<1>1. Drawn'
  BY DEF Drawn
<1>2. LinksAreKnown'
  <2> SUFFICES ASSUME NEW j \in Live, NEW d \in holder[j]
               PROVE  \E f \in recent'[d] : f.invite = j /\ f.link = invites[j].link
    BY DEF LinksAreKnown
  <2>1. PICK e \in recent[d] : e.invite = j /\ e.link = invites[j].link
    BY DEF LinksAreKnown
  <2>2. d \in Console
    BY DEF InvitesTyped, Live
  <2> QED
    BY <2>1, <2>2
<1> QED
  BY <1>1, <1>2

\* What a visitor's page says.
ScreenTrue(v) ==
    /\ page[v].screen = "in" => Mine(v)
    /\ page[v].screen \in {"signing", "created"} =>
          \/ Mine(v) \/ v \in misled
          \/ \E r \in answered : req[r].op = "accept" /\ req[r].by = v
    /\ page[v].screen = "used" => invites[page[v].invite].used

LEMMA AllScreens ==
    /\ ScreensTellTheTruth <=> \A v \in Visitor : ScreenTrue(v)
    /\ ScreensTellTheTruth' <=> \A v \in Visitor : ScreenTrue(v)'
BY DEF ScreensTellTheTruth, ScreenTrue

\* It stays true, of a page that is left alone: accounts and used invites stay,
\* an answered accept stays, fails or commits.
LEMMA ScreenStays ==
    ASSUME InvitesTyped, PageLinks, ScreensTellTheTruth, Ages, accounts \subseteq accounts',
           misled \subseteq misled', NEW v \in Visitor, page'[v] = page[v],
           \A r \in answered : req[r].op = "accept" /\ req[r].by = v =>
              \/ r \in answered' /\ req'[r].op = req[r].op /\ req'[r].by = req[r].by
              \/ v \in misled'
              \/ Mine(v)'
    PROVE  ScreenTrue(v)'
<1>1. ScreenTrue(v)
  BY AllScreens
<1>2. Mine(v) => Mine(v)'
  BY DEF Mine
<1>3. page[v].screen = "used" => page[v].invite \in Live
  BY DEF PageLinks, Issued, NoPage
<1> QED
  BY <1>1, <1>2, <1>3 DEF ScreenTrue, Ages

LEMMA ScreensFrame ==
    ASSUME ScreensTellTheTruth, UNCHANGED <<invites, accounts, page, answered, misled>>,
           \A r \in answered : req'[r].op = req[r].op /\ req'[r].by = req[r].by
    PROVE  ScreensTellTheTruth'
BY DEF ScreensTellTheTruth, Mine

\* An answer stays ahead of its commit while the request, its page, its token
\* and its row on the page stay.
LEMMA AheadStays ==
    ASSUME InvitesTyped, Ahead, Posted, answered' \subseteq answered,
           \A r \in answered' : req'[r] = req[r],
           \A r \in answered' : req[r].op = "accept" =>
              \/ page'[req[r].by] = page[req[r].by]
              \/ /\ page'[req[r].by].screen \in {"signing", "created", "in"}
                 /\ page'[req[r].by].invite = page[req[r].by].invite,
           \A r \in answered' : req[r].op = "resend" =>
              /\ invites'[req[r].invite].link = invites[req[r].invite].link
              /\ drawn'[req[r].invite] = drawn[req[r].invite]
              /\ \A e \in recent[req[r].by] :
                    e.invite = req[r].invite /\ e.link = drawn[req[r].invite] =>
                       \E f \in recent'[req[r].by] : f.invite = e.invite /\ f.link = e.link
    PROVE  Ahead'
BY DEF Ahead

LEMMA AheadFrame ==
    ASSUME Ahead, UNCHANGED <<invites, page, recent, drawn, answered>>,
           \A r \in answered : req'[r] = req[r]
    PROVE  Ahead'
BY DEF Ahead

LEMMA RowFrame ==
    ASSUME RowHeld, UNCHANGED req
    PROVE  RowHeld'
BY DEF RowHeld, HoldsRow, Served

LEMMA PostedFrame ==
    ASSUME Posted, UNCHANGED <<invites, req>>
    PROVE  Posted'
BY DEF Posted, Issued, Served, Live

LEMMA LateFrame ==
    ASSUME LateIsSpent, UNCHANGED <<invites, req, late>>
    PROVE  LateIsSpent'
BY DEF LateIsSpent, Spent

LEMMA PageLinksFrame ==
    ASSUME PageLinks, UNCHANGED <<invites, page>>
    PROVE  PageLinks'
BY DEF PageLinks, Issued, Live

LEMMA WaitingFrame ==
    ASSUME Waiting, UNCHANGED <<req, page>>
    PROVE  Waiting'
BY DEF Waiting, Heard, Served

\* Nothing is asked of requests that have ended.
LEMMA FewerRequests ==
    ASSUME InvitesIInv, InvitesTyped', Ages, Served' \subseteq Served,
           \A s \in Served' : req'[s] = req[s]
    PROVE  /\ Posted' /\ RowHeld'
           /\ page' = page => Waiting'
           /\ accounts' = accounts => EmailHeld'
           /\ late' \subseteq late => LateIsSpent'
<1> USE DEF InvitesIInv
<1>1. \A s \in Served : req[s] \in Call
  BY ServedCall DEF Served
<1>2. Posted'
  BY <1>1, IssuedStays DEF Posted, Call
<1>3. /\ accounts' = accounts => EmailHeld'
      /\ page' = page => Waiting'
      /\ RowHeld'
  BY DEF EmailHeld, HoldsEmail, HasAccount, Waiting, Heard, RowHeld, HoldsRow
<1>4. ASSUME late' \subseteq late PROVE LateIsSpent'
  <2> SUFFICES ASSUME NEW s \in late'
               PROVE  (req[s].pc = "read" /\ Spent(req[s].op, req[s].invite, req[s].link))'
    BY DEF LateIsSpent
  <2>1. s \in late /\ s \in Served /\ s \in Served' /\ req'[s] = req[s]
    BY <1>4 DEF InvitesTyped
  <2>2. Issued(req[s].invite, req[s].link) /\ req[s].invite \in Live /\ req[s].link \in Nat
    BY <1>1, <2>1 DEF Posted, Issued, Call
  <2>3. req[s].pc = "read" /\ Spent(req[s].op, req[s].invite, req[s].link)
    BY <2>1 DEF LateIsSpent
  <2> QED
    BY <2>1, <2>2, <2>3, SpentStays
<1> QED
  BY <1>2, <1>3, <1>4

----------------------------------------------------------------------------
(* The steps of a request but its commit *)

\* Refused or failed.
LEMMA EndStep ==
    ASSUME InvitesIInv, NEW r \in Served, EndRequest(r),
           UNCHANGED <<invites, accounts, recent, drawn, holder>>
    PROVE  InvitesIInv'
<1> USE DEF InvitesIInv
<1>1. r \in Request /\ req[r] \in Call /\ Issued(req[r].invite, req[r].link)
  BY ServedCall DEF Served, Posted
<1>2. /\ req' \in [Request -> {Unmade, Done} \cup Call]
      /\ Served' = Served \ {r} /\ late' = late \ {r} /\ answered' = answered \ {r}
      /\ \A s \in Request \ {r} : req'[s] = req[s]
  BY <1>1, RequestEnds DEF EndRequest
<1>a. /\ misled \subseteq misled' /\ misled' \subseteq Visitor
      /\ r \in answered /\ req[r].op = "accept" => req[r].by \in misled'
  BY <1>1 DEF EndRequest, InvitesTyped, Posted
<1>b. \A w \in Visitor : page'[w] = page[w] => ScreenTrue(w)'
  <2> SUFFICES ASSUME NEW w \in Visitor, page'[w] = page[w]
               PROVE  ScreenTrue(w)'
    OBVIOUS
  <2>1. Ages
    BY AgesFrame
  <2>2. \A s \in answered : s \in Request
    BY DEF InvitesTyped, Served
  <2> QED
    BY <1>2, <1>a, <2>1, <2>2, ScreenStays
<1>3. CASE req[r].op = "accept" /\ req[r].heard
  <2>1. req[r].by \in Visitor /\ req[r].invite \in Invite /\ req[r].link \in Nat
    BY <1>1, <1>3 DEF Posted, Call
  <2>2. /\ page' \in [Visitor -> {NoPage} \cup Page]
        /\ page'[req[r].by] # NoPage /\ page'[req[r].by].screen = "form"
        /\ page'[req[r].by].invite = req[r].invite /\ page'[req[r].by].link = req[r].link
        /\ \A w \in Visitor \ {req[r].by} : page'[w] = page[w]
    <3>1. Show(req[r].by, "form", req[r].invite, req[r].link)
      BY <1>3 DEF EndRequest
    <3> QED
      BY <2>1, <3>1, PageShown DEF Screen
  <2>3. InvitesTyped' /\ Ages
    BY <1>2, <1>a, <2>2, AgesFrame DEF InvitesTyped
  <2>4. Posted' /\ EmailHeld' /\ LateIsSpent' /\ RowHeld'
    BY <1>2, <2>3, FewerRequests DEF Served
  <2>5. PageLinks'
    BY <1>1, <2>2 DEF PageLinks, Issued, Live
  <2>6. ScreensTellTheTruth'
    <3>1. \A w \in Visitor : w = req[r].by => ScreenTrue(w)'
      BY <2>2 DEF ScreenTrue
    <3> QED
      BY <1>b, <2>1, <2>2, <3>1, AllScreens
  <2>7. Waiting'
    BY <1>1, <1>2, <1>3, <2>2 DEF Waiting, Heard, Posted
  <2>8. Ahead'
    <3>1. \A s \in answered : s \in Request /\ s \in Served
      BY DEF InvitesTyped, Served
    <3>2. \A s \in answered : req[s].op = "accept" => req[s].by # req[r].by
      BY <1>1, <1>3, <3>1 DEF Ahead, Waiting, Heard
    <3>3. \A s \in answered : req[s].op = "accept" => req[s].by \in Visitor
      BY <3>1 DEF Posted
    <3> QED
      BY <1>2, <2>2, <3>1, <3>2, <3>3, AheadStays
  <2> QED
    BY <2>3, <2>4, <2>5, <2>6, <2>7, <2>8, AccountsFrame, LinksFrame
<1>4. CASE ~(req[r].op = "accept" /\ req[r].heard)
  <2>1. page' = page
    BY <1>4 DEF EndRequest
  <2>2. InvitesTyped' /\ Ages
    BY <1>2, <1>a, <2>1, AgesFrame DEF InvitesTyped
  <2>3. Posted' /\ Waiting' /\ EmailHeld' /\ LateIsSpent' /\ RowHeld'
    BY <1>2, <2>1, <2>2, FewerRequests DEF Served
  <2>4. Ahead'
    <3>1. \A s \in answered : s \in Request
      BY DEF InvitesTyped, Served
    <3> QED
      BY <1>2, <2>1, <3>1, AheadStays
  <2>5. ScreensTellTheTruth'
    BY <1>b, <2>1, AllScreens
  <2> QED
    BY <2>1, <2>2, <2>3, <2>4, <2>5, PageLinksFrame, AccountsFrame, LinksFrame
<1> QED
  BY <1>3, <1>4

\* On to the next statement; to one that holds the email's key only if nobody
\* else does and the email has no account.
LEMMA ProceedStep ==
    ASSUME InvitesIInv, NEW r \in Served, NEW p \in Stage \ {"sent", "read"},
           Proceed(r, p), UNCHANGED <<invites, accounts, recent, drawn, holder>>,
           r \notin late, r \notin answered,
           p = "commit" => \A s \in Request \ {r} : ~HoldsRow(s, req[r].invite),
           p \in {"email", "insert", "mark"} => req[r].op = "accept",
           p \in {"again", "write"} => req[r].op # "accept",
           p \in {"mark", "commit"} /\ req[r].op = "accept" =>
              /\ ~HasAccount(Email[req[r].invite])
              /\ \A s \in Request \ {r} : ~HoldsEmail(s, Email[req[r].invite])
    PROVE  InvitesIInv'
<1> USE DEF InvitesIInv
<1>1. r \in Request /\ req[r] \in Call
  BY ServedCall DEF Served
<1>2. /\ req' \in [Request -> {Unmade, Done} \cup Call]
      /\ Served' = Served
      /\ req'[r] \in Call
      /\ req'[r].pc = p /\ req'[r].op = req[r].op /\ req'[r].by = req[r].by
      /\ req'[r].invite = req[r].invite /\ req'[r].link = req[r].link
      /\ req'[r].heard = req[r].heard
      /\ \A s \in Request \ {r} : req'[s] = req[s]
  BY RequestProceeds DEF Proceed
<1>3. UNCHANGED <<page, answered, late, misled>>
  BY DEF Proceed
<1>4. InvitesTyped'
  BY <1>2, <1>3 DEF InvitesTyped, Live
<1>5. Posted'
  BY <1>1, <1>2 DEF Posted, Issued, Live, Served
<1>6. Waiting'
  BY <1>1, <1>2, <1>3 DEF Waiting, Heard
<1>7. EmailHeld'
  BY <1>1, <1>2 DEF EmailHeld, HoldsEmail, HasAccount, Served
<1>8. LateIsSpent'
  BY <1>1, <1>2, <1>3 DEF LateIsSpent, Spent, InvitesTyped, Served
<1>9. RowHeld'
  BY <1>1, <1>2 DEF RowHeld, HoldsRow
<1>10. \A s \in answered : req'[s] = req[s]
  BY <1>2 DEF InvitesTyped, Served
<1> QED
  BY <1>3, <1>4, <1>5, <1>6, <1>7, <1>8, <1>9, <1>10, PageLinksFrame, AccountsFrame,
     LinksFrame, ScreensFrame, AheadFrame

LEMMA ArriveStep ==
    ASSUME InvitesIInv, NEW r \in Request, Arrive(r),
           UNCHANGED <<invites, accounts, recent, drawn, holder>>
    PROVE  InvitesIInv'
<1> USE DEF InvitesIInv
<1>1. r \in Served /\ req[r] \in Call /\ Issued(req[r].invite, req[r].link)
  BY ServedCall DEF Arrive, Stage, Posted
<1>2. /\ req' \in [Request -> {Unmade, Done} \cup Call]
      /\ Served' = Served
      /\ req'[r] \in Call
      /\ req'[r].pc = "read" /\ req'[r].op = req[r].op /\ req'[r].by = req[r].by
      /\ req'[r].invite = req[r].invite /\ req'[r].link = req[r].link
      /\ req'[r].heard = req[r].heard
      /\ \A s \in Request \ {r} : req'[s] = req[s]
  BY <1>1, RequestProceeds DEF Arrive, Stage
<1>3. Dead(req[r].op, req[r].invite, req[r].link)
         => Spent(req[r].op, req[r].invite, req[r].link)
  <2>1. invites[req[r].invite] \in InviteRow
    BY <1>1, LiveRow DEF Issued, Live
  <2> QED
    BY <1>1, <2>1 DEF Dead, Found, Status, Spent, Issued, InviteRow, Call
<1>4. /\ UNCHANGED <<page, answered, misled>>
      /\ late' \subseteq late \cup {r}
      /\ r \in late' => r \in late \/ Dead(req[r].op, req[r].invite, req[r].link)
  BY DEF Arrive
<1>5. InvitesTyped'
  BY <1>1, <1>2, <1>4 DEF InvitesTyped, Live
<1>6. Posted'
  BY <1>1, <1>2 DEF Posted, Issued, Live, Served
<1>7. Waiting'
  BY <1>1, <1>2, <1>4 DEF Waiting, Heard, Served
<1>8. EmailHeld'
  BY <1>1, <1>2 DEF EmailHeld, HoldsEmail, HasAccount, Served, Arrive
<1>9. LateIsSpent'
  BY <1>1, <1>2, <1>3, <1>4 DEF LateIsSpent, Spent, InvitesTyped, Served
<1>10. RowHeld'
  BY <1>1, <1>2 DEF RowHeld, HoldsRow
<1>11. \A s \in answered : req'[s] = req[s]
  BY <1>2 DEF InvitesTyped, Served, Ahead, Arrive
<1> QED
  BY <1>4, <1>5, <1>6, <1>7, <1>8, <1>9, <1>10, <1>11, PageLinksFrame, AccountsFrame,
     LinksFrame, ScreensFrame, AheadFrame

\* A request with a dead link gets no further than its first read.
LEMMA ReadStep ==
    ASSUME InvitesIInv, NEW r \in Request, ReadInvite(r),
           UNCHANGED <<invites, accounts, recent, drawn, holder>>
    PROVE  InvitesIInv'
<1> USE DEF InvitesIInv
<1>1. r \in Served /\ req[r] \in Call /\ Issued(req[r].invite, req[r].link)
  BY ServedCall DEF ReadInvite, Stage, Posted
<1>2. CASE EndRequest(r)
  BY <1>1, <1>2, EndStep
<1>3. CASE ~EndRequest(r)
  <2>1. ~Dead(req[r].op, req[r].invite, req[r].link)
    BY <1>3 DEF ReadInvite
  <2>2. r \notin late
    <3>1. invites[req[r].invite] \in InviteRow
      BY <1>1, LiveRow DEF Issued, Live
    <3> QED
      BY <1>1, <2>1, <3>1 DEF Dead, Found, Status, LateIsSpent, Spent, Issued, InviteRow, Call
  <2>3. \/ Proceed(r, "email") /\ req[r].op = "accept"
        \/ Proceed(r, "again") /\ req[r].op # "accept"
    BY <1>3, <2>1 DEF ReadInvite
  <2>4. r \notin answered
    BY DEF Ahead, ReadInvite
  <2> QED
    BY <1>1, <2>2, <2>3, <2>4, ProceedStep DEF Stage
<1> QED
  BY <1>2, <1>3

LEMMA StatementStep ==
    ASSUME InvitesIInv, NEW r \in Request,
           CheckEmail(r) \/ InsertUser(r) \/ Again(r) \/ WriteInvite(r),
           UNCHANGED <<invites, accounts, recent, drawn, holder>>
    PROVE  InvitesIInv'
<1> USE DEF InvitesIInv
<1>1. r \in Served /\ req[r] \in Call /\ r \notin late /\ r \notin answered
  BY ServedCall DEF CheckEmail, InsertUser, Again, WriteInvite, Stage, LateIsSpent, Ahead
<1>2. CASE CheckEmail(r)
  BY <1>1, <1>2, EndStep, ProceedStep DEF CheckEmail, Posted, Stage
<1>3. CASE InsertUser(r)
  BY <1>1, <1>3, EndStep, ProceedStep DEF InsertUser, Posted, Stage
<1>4. CASE Again(r)
  BY <1>1, <1>4, EndStep, ProceedStep DEF Again, Posted, Stage
<1>5. CASE WriteInvite(r)
  <2>1. req[r].op = "accept" => HoldsEmail(r, Email[req[r].invite])
    BY <1>1, <1>5 DEF WriteInvite, HoldsEmail, Posted
  <2> QED
    BY <1>1, <1>5, <2>1, ProceedStep DEF WriteInvite, EmailHeld, Stage
<1> QED
  BY <1>2, <1>3, <1>4, <1>5

----------------------------------------------------------------------------
(* The commits *)

\* What the three have in common.
LEMMA CommitEnds ==
    ASSUME InvitesIInv, NEW r \in Request, CommitRequest(r)
    PROVE  /\ r \in Served /\ req[r] \in Call
           /\ req[r].invite \in Live /\ req[r].invite \in Invite
           /\ invites[req[r].invite] \in InviteRow
           /\ Issued(req[r].invite, req[r].link)
           /\ req' \in [Request -> {Unmade, Done} \cup Call]
           /\ Served' = Served \ {r} /\ late' = late \ {r} /\ answered' = answered \ {r}
           /\ misled' = misled
           /\ \A s \in Request \ {r} : req'[s] = req[s]
           /\ \A s \in answered : s \in Request /\ s \in Served /\ req[s] \in Call
           /\ \A s \in answered \ {r} : req[s].invite # req[r].invite
<1> USE DEF InvitesIInv
<1>1. r \in Served /\ req[r] \in Call
  BY ServedCall DEF CommitRequest, Stage
<1>2. Issued(req[r].invite, req[r].link)
  BY <1>1 DEF Posted
<1>3. invites[req[r].invite] \in InviteRow
  BY <1>1, <1>2, LiveRow DEF Issued, Live
<1>4. \A s \in answered : s \in Request /\ s \in Served /\ req[s] \in Call
  BY ServedCall DEF InvitesTyped, Served
<1>5. \A s \in answered \ {r} : req[s].invite # req[r].invite
  BY <1>1, <1>4 DEF Ahead, RowHeld, HoldsRow, CommitRequest
<1> QED
  BY <1>1, <1>2, <1>3, <1>4, <1>5, RequestEnds DEF CommitRequest, Issued, Call

LEMMA AcceptedStep ==
    ASSUME InvitesIInv, NEW r \in Request, CommitRequest(r), req[r].op = "accept",
           Accepted(r)
    PROVE  InvitesIInv'
<1> USE DEF InvitesIInv
<1> DEFINE i == req[r].invite
           v == req[r].by
           account == [email |-> Email[i], by |-> v, invite |-> i]
<1>1. /\ r \in Served /\ req[r] \in Call
      /\ i \in Live /\ i \in Invite /\ invites[i] \in InviteRow
      /\ Issued(i, req[r].link)
      /\ req' \in [Request -> {Unmade, Done} \cup Call]
      /\ Served' = Served \ {r} /\ late' = late \ {r} /\ answered' = answered \ {r}
      /\ misled' = misled
      /\ \A s \in Request \ {r} : req'[s] = req[s]
      /\ \A s \in answered : s \in Request /\ s \in Served /\ req[s] \in Call
  BY CommitEnds
<1>2. v \in Visitor
  BY <1>1 DEF Posted
<1>3. /\ account.email = Email[i] /\ account.by = v /\ account.invite = i
      /\ accounts' = accounts \cup {account}
  BY DEF Accepted
<1>4. /\ invites' \in [Invite -> {None} \cup InviteRow]
      /\ Live' = Live
      /\ \A j \in Live : /\ invites'[j].link = invites[j].link
                         /\ invites'[j].used <=> (invites[j].used \/ j = i)
                         /\ invites'[j].revoked = invites[j].revoked
                         /\ invites'[j].expired = invites[j].expired
  <2> DEFINE row == [invites[i] EXCEPT !.used = TRUE]
  <2>1. /\ row \in InviteRow /\ row.used /\ row.link = invites[i].link
        /\ row.revoked = invites[i].revoked /\ row.expired = invites[i].expired
    BY <1>1 DEF InviteRow
  <2>2. invites' = [invites EXCEPT ![i] = row]
    BY DEF Accepted
  <2> HIDE DEF row
  <2>3. /\ invites' \in [Invite -> {None} \cup InviteRow]
        /\ Live' = Live /\ invites'[i] = row
        /\ \A j \in Live \ {i} : invites'[j] = invites[j]
    BY <1>1, <2>1, <2>2, OneRowChanges
  <2>4. \A j \in Live : invites[j].used \in BOOLEAN
    BY LiveRow DEF Live, InviteRow
  <2> QED
    BY <1>1, <2>1, <2>3, <2>4
<1>5. /\ page' \in [Visitor -> {NoPage} \cup Page]
      /\ \A w \in Visitor \ {v} : page'[w] = page[w]
      /\ IF req[r].heard THEN /\ page'[v] # NoPage
                              /\ page'[v].screen = "signing"
                              /\ page'[v].invite = i /\ page'[v].link = req[r].link
         ELSE page' = page
  <2>1. CASE req[r].heard
    <3>1. Show(v, "signing", i, req[r].link)
      BY <2>1 DEF Accepted
    <3>2. "signing" \in Screen /\ req[r].link \in Nat
      BY <1>1 DEF Screen, Call
    <3> QED
      BY <1>1, <1>2, <2>1, <3>1, <3>2, PageShown
  <2>2. CASE ~req[r].heard
    BY <2>2 DEF Accepted, InvitesTyped
  <2> QED
    BY <2>1, <2>2
\* An answered accept of this visitor is this one.
<1>6. /\ r \in answered => page' = page /\ page[v].invite = i
      /\ req[r].heard => \A s \in answered : req[s].op = "accept" => req[s].by # v
  BY <1>1, <1>5 DEF Ahead, Waiting, Heard
<1> HIDE DEF i, v, account
<1>7. Ages
  <2>1. \A j \in Live : invites[j].link \in Nat
    BY LiveRow DEF Live, InviteRow
  <2>2. \A j \in Live : invites[j].link <= invites'[j].link
    BY <1>4, <2>1
  <2> QED
    BY <1>4, <2>2 DEF Ages
<1>8. UNCHANGED <<recent, drawn, holder>>
  BY DEF Accepted
<1>9. InvitesTyped'
  BY <1>1, <1>2, <1>3, <1>4, <1>5, <1>8 DEF InvitesTyped
<1>10. Posted' /\ RowHeld' /\ LateIsSpent'
  BY <1>1, <1>7, <1>9, FewerRequests DEF Served
<1>11. PageLinks'
  <2>1. \A j, k : Issued(j, k) => Issued(j, k)'
    BY <1>4 DEF Issued
  <2>2. \A w \in Visitor : page'[w] # NoPage => Issued(page'[w].invite, page'[w].link)
    BY <1>1, <1>5 DEF PageLinks
  <2> QED
    BY <2>1, <2>2 DEF PageLinks, Issued
<1>12. Drawn' /\ LinksAreKnown'
  BY <1>4, <1>8 DEF Drawn, LinksAreKnown
<1>13. Waiting'
  BY <1>1, <1>2, <1>5 DEF Waiting, Heard, Posted, v
<1>14. EmailHeld'
  BY <1>1, <1>3 DEF EmailHeld, HoldsEmail, HasAccount, CommitRequest, Served, i
<1>15. OneAccountPerEmail'
  <2>1. ~HasAccount(Email[i])
    BY <1>1 DEF EmailHeld, HoldsEmail, CommitRequest, i
  <2>2. \A a, b \in accounts' : a.email = b.email => a = b
    BY <1>3, <2>1 DEF OneAccountPerEmail, HasAccount
  <2>3. \A j \in Live' : invites'[j].used <=> \E a \in accounts' : a.invite = j
    <3>1. \A j \in Live : invites[j].used <=> \E a \in accounts : a.invite = j
      BY DEF OneAccountPerEmail
    <3> QED
      BY <1>1, <1>3, <1>4, <3>1
  <2>4. \A a \in accounts' : a.invite \in Live'
    BY <1>9 DEF InvitesTyped
  <2> QED
    BY <2>2, <2>3, <2>4 DEF OneAccountPerEmail
<1>16. Ahead'
  <2>1. \A s \in answered' : req[s].op = "accept" => page'[req[s].by] = page[req[s].by]
    BY <1>1, <1>5, <1>6 DEF Posted
  <2>2. \A s \in answered' : req[s].op = "resend" => req[s].invite \in Live
    BY <1>1 DEF Posted, Issued
  <2> QED
    BY <1>1, <1>4, <1>8, <2>1, <2>2, AheadStays
<1>17. ScreensTellTheTruth'
  <2> SUFFICES ASSUME NEW w \in Visitor PROVE ScreenTrue(w)'
    BY AllScreens
  <2>1. CASE page'[w] = page[w]
    <3>1. w = v /\ r \in answered => Mine(w)'
      BY <1>3, <1>6 DEF Mine
    <3>2. ASSUME NEW s \in answered, req[s].op = "accept", req[s].by = w
          PROVE  \/ s \in answered' /\ req'[s].op = req[s].op /\ req'[s].by = req[s].by
                 \/ Mine(w)'
      BY <1>1, <3>1, <3>2 DEF v
    <3>3. accounts \subseteq accounts' /\ misled \subseteq misled'
      BY <1>1, <1>3
    <3> QED
      BY <1>7, <2>1, <3>2, <3>3, ScreenStays
  <2>2. CASE w = v /\ req[r].heard
    BY <1>2, <1>3, <1>5, <2>2 DEF ScreenTrue, Mine
  <2> QED
    BY <1>5, <2>1, <2>2
<1> QED
  BY <1>9, <1>10, <1>11, <1>12, <1>13, <1>14, <1>15, <1>16, <1>17

\* The rows of a console keep their invite and link when one is marked.
LEMMA MarkedKeeps ==
    ASSUME InvitesTyped, NEW c \in Console, NEW i \in Invite, NEW k \in Nat,
           recent' = Marked(c, i, k)
    PROVE  /\ recent' \in [Console -> SUBSET Remembrance]
           /\ \A d \in Console : \A f \in recent'[d] :
                 \E e \in recent[d] : e.invite = f.invite /\ e.link = f.link
           /\ \A d \in Console : \A e \in recent[d] :
                 \E f \in recent'[d] : f.invite = e.invite /\ f.link = e.link
<1> DEFINE mark(e) == IF e.invite = i /\ e.link = k THEN Entry(i, k, "revoked") ELSE e
<1>1. recent' = [recent EXCEPT ![c] = {mark(e) : e \in recent[c]}]
  BY DEF Marked
<1>2. \A e \in Remembrance : mark(e) \in Remembrance /\ mark(e).invite = e.invite
                                /\ mark(e).link = e.link
  BY DEF Entry, Remembrance
<1> HIDE DEF mark
<1> QED
  BY <1>1, <1>2 DEF InvitesTyped

\* One row of a console gives way to one with a new link.
LEMMA ReplacedKeeps ==
    ASSUME InvitesTyped, NEW c \in Console, NEW i \in Invite, NEW k \in Nat, NEW n \in Nat,
           recent' = Replaced(c, i, k, n)
    PROVE  /\ recent' \in [Console -> SUBSET Remembrance]
           /\ \A d \in Console : \A f \in recent'[d] :
                 f \in recent[d] \/ (f.invite = i /\ f.link = n)
           /\ \A d \in Console : \A e \in recent[d] :
                 e.invite # i \/ e.link # k \/ d # c => e \in recent'[d]
           /\ \E f \in recent'[c] : f.invite = i /\ f.link = n
<1> DEFINE new == Entry(i, n, "pending")
<1>1. recent' = [recent EXCEPT ![c] = {e \in recent[c] : e.invite # i \/ e.link # k} \cup {new}]
  BY DEF Replaced
<1>2. new \in Remembrance /\ new.invite = i /\ new.link = n
  BY DEF Entry, Remembrance
<1> HIDE DEF new
<1> QED
  BY <1>1, <1>2 DEF InvitesTyped

LEMMA RevokedStep ==
    ASSUME InvitesIInv, NEW r \in Request, CommitRequest(r), req[r].op = "revoke",
           Revoked(r)
    PROVE  InvitesIInv'
<1> USE DEF InvitesIInv
<1> DEFINE i == req[r].invite
           c == req[r].by
           k == req[r].link
<1>1. /\ r \in Served /\ req[r] \in Call
      /\ i \in Live /\ i \in Invite /\ invites[i] \in InviteRow
      /\ Issued(i, k)
      /\ req' \in [Request -> {Unmade, Done} \cup Call]
      /\ Served' = Served \ {r} /\ late' = late \ {r} /\ answered' = answered \ {r}
      /\ misled' = misled
      /\ \A s \in Request \ {r} : req'[s] = req[s]
      /\ \A s \in answered : s \in Request /\ s \in Served /\ req[s] \in Call
  BY CommitEnds
<1>2. c \in Console /\ k \in Nat
  BY <1>1 DEF Posted, Call
<1>3. /\ invites' \in [Invite -> {None} \cup InviteRow]
      /\ Live' = Live
      /\ \A j \in Live : /\ invites'[j].link = invites[j].link
                         /\ invites'[j].used = invites[j].used
                         /\ invites'[j].revoked <=> (invites[j].revoked \/ j = i)
                         /\ invites'[j].expired = invites[j].expired
  <2> DEFINE row == [invites[i] EXCEPT !.revoked = TRUE]
  <2>1. /\ row \in InviteRow /\ row.revoked /\ row.link = invites[i].link
        /\ row.used = invites[i].used /\ row.expired = invites[i].expired
    BY <1>1 DEF InviteRow
  <2>2. invites' = [invites EXCEPT ![i] = row]
    BY DEF Revoked
  <2> HIDE DEF row
  <2>3. /\ invites' \in [Invite -> {None} \cup InviteRow]
        /\ Live' = Live /\ invites'[i] = row
        /\ \A j \in Live \ {i} : invites'[j] = invites[j]
    BY <1>1, <2>1, <2>2, OneRowChanges
  <2> QED
    BY <1>1, <2>1, <2>3
<1>4. UNCHANGED <<accounts, page, drawn, holder>>
  BY DEF Revoked
<1>5. /\ recent' \in [Console -> SUBSET Remembrance]
      /\ \A d \in Console : \A f \in recent'[d] :
            \E e \in recent[d] : e.invite = f.invite /\ e.link = f.link
      /\ \A d \in Console : \A e \in recent[d] :
            \E f \in recent'[d] : f.invite = e.invite /\ f.link = e.link
  <2>1. CASE req[r].heard
    BY <1>1, <1>2, <2>1, MarkedKeeps DEF Revoked
  <2>2. CASE ~req[r].heard
    BY <2>2 DEF Revoked, InvitesTyped
  <2> QED
    BY <2>1, <2>2
<1> HIDE DEF i, c, k
<1>6. Ages
  <2>1. \A j \in Live : invites[j].link \in Nat
    BY LiveRow DEF Live, InviteRow
  <2>2. \A j \in Live : invites[j].link <= invites'[j].link
    BY <1>3, <2>1
  <2> QED
    BY <1>3, <2>2 DEF Ages
<1>7. InvitesTyped'
  BY <1>1, <1>3, <1>4, <1>5 DEF InvitesTyped
<1>8. Posted' /\ RowHeld' /\ Waiting' /\ EmailHeld' /\ LateIsSpent'
  BY <1>1, <1>4, <1>6, <1>7, FewerRequests DEF Served
<1>9. PageLinks'
  BY <1>3, <1>4 DEF PageLinks, Issued
<1>10. OneAccountPerEmail'
  BY <1>3, <1>4 DEF OneAccountPerEmail
<1>11. Drawn' /\ LinksAreKnown'
  BY <1>3, <1>4, <1>5, LinksKept
<1>12. Ahead'
  <2>1. \A s \in answered : req[s].op = "resend" =>
           req[s].invite \in Live /\ req[s].by \in Console
    BY <1>1 DEF Posted, Issued
  <2> QED
    BY <1>1, <1>3, <1>4, <1>5, <2>1, AheadStays
<1>13. ScreensTellTheTruth'
  <2> SUFFICES ASSUME NEW w \in Visitor PROVE ScreenTrue(w)'
    BY AllScreens
  <2>1. r \in answered => req[r].op # "accept"
    OBVIOUS
  <2> QED
    BY <1>1, <1>4, <1>6, <2>1, ScreenStays
<1> QED
  BY <1>7, <1>8, <1>9, <1>10, <1>11, <1>12, <1>13

\* The new token is the last one drawn: an answer given before showed no other.
LEMMA ResentStep ==
    ASSUME InvitesIInv, NEW r \in Request, CommitRequest(r), req[r].op = "resend",
           Resent(r)
    PROVE  InvitesIInv'
<1> USE DEF InvitesIInv
<1> DEFINE i == req[r].invite
           c == req[r].by
           k == req[r].link
           fresh == IF r \in answered THEN drawn[i] ELSE drawn[i] + 1
<1>1. /\ r \in Served /\ req[r] \in Call
      /\ i \in Live /\ i \in Invite /\ invites[i] \in InviteRow
      /\ Issued(i, k)
      /\ req' \in [Request -> {Unmade, Done} \cup Call]
      /\ Served' = Served \ {r} /\ late' = late \ {r} /\ answered' = answered \ {r}
      /\ misled' = misled
      /\ \A s \in Request \ {r} : req'[s] = req[s]
      /\ \A s \in answered : s \in Request /\ s \in Served /\ req[s] \in Call
      /\ \A s \in answered \ {r} : req[s].invite # i
  BY CommitEnds
<1>2. /\ c \in Console /\ k \in Nat /\ fresh \in Nat \ {0}
      /\ invites[i].link < fresh /\ drawn[i] <= fresh
  <2>1. invites[i].link \in Nat \ {0} /\ drawn[i] \in Nat /\ invites[i].link <= drawn[i]
    BY <1>1 DEF InvitesTyped, InviteRow, Drawn
  <2>2. r \in answered => invites[i].link < drawn[i]
    BY DEF Ahead
  <2> QED
    BY <1>1, <2>1, <2>2 DEF Posted, Call
<1>3. /\ invites' \in [Invite -> {None} \cup InviteRow]
      /\ Live' = Live
      /\ invites'[i].link = fresh
      /\ \A j \in Live \ {i} : invites'[j] = invites[j]
      /\ \A j \in Live : /\ invites'[j].used = invites[j].used
                         /\ invites'[j].revoked = invites[j].revoked
  <2> DEFINE row == [invites[i] EXCEPT !.link = fresh, !.expired = FALSE]
  <2>1. /\ row \in InviteRow /\ row.link = fresh
        /\ row.used = invites[i].used /\ row.revoked = invites[i].revoked
    BY <1>1, <1>2 DEF InviteRow
  <2>2. invites' = [invites EXCEPT ![i] = row]
    BY DEF Resent
  <2> HIDE DEF row
  <2>3. /\ invites' \in [Invite -> {None} \cup InviteRow]
        /\ Live' = Live /\ invites'[i] = row
        /\ \A j \in Live \ {i} : invites'[j] = invites[j]
    BY <1>1, <2>1, <2>2, OneRowChanges
  <2> QED
    BY <1>1, <2>1, <2>3
<1>4. /\ UNCHANGED <<accounts, page>>
      /\ drawn' = [drawn EXCEPT ![i] = fresh]
      /\ holder' = [holder EXCEPT ![i] = IF req[r].heard \/ r \in answered THEN {c} ELSE {}]
  BY DEF Resent
\* The console has the new link if it was answered, and rows of other invites stay.
<1>5. /\ recent' \in [Console -> SUBSET Remembrance]
      /\ \A d \in Console : \A f \in recent'[d] :
            f \in recent[d] \/ (f.invite = i /\ f.link = fresh)
      /\ \A d \in Console : \A e \in recent[d] : e.invite # i => e \in recent'[d]
      /\ req[r].heard \/ r \in answered => \E f \in recent'[c] : f.invite = i /\ f.link = fresh
  <2>1. CASE req[r].heard
    <3>1. recent' = Replaced(c, i, k, fresh)
      BY <2>1 DEF Resent
    <3> HIDE DEF fresh, i, c, k
    <3> QED
      BY <1>1, <1>2, <3>1, ReplacedKeeps
  <2>2. CASE ~req[r].heard
    <3>1. recent' = recent
      BY <2>2 DEF Resent
    <3>2. r \in answered => \E f \in recent[c] : f.invite = i /\ f.link = fresh
      BY DEF Ahead
    <3> QED
      BY <2>2, <3>1, <3>2 DEF InvitesTyped
  <2> QED
    BY <2>1, <2>2
<1> HIDE DEF i, c, k, fresh
<1>6. \A j \in Live : /\ invites[j].link \in Nat /\ drawn[j] \in Nat /\ j \in Invite
                      /\ invites[j].link <= invites'[j].link
  <2>1. \A j \in Live : invites[j].link \in Nat /\ drawn[j] \in Nat /\ j \in Invite
    BY LiveRow DEF Live, InviteRow, InvitesTyped
  <2> QED
    BY <1>1, <1>2, <1>3, <2>1
<1>7. invites[i].link # invites'[i].link
  BY <1>1, <1>2, <1>3, <1>6
<1>8. Ages
  BY <1>3, <1>6, <1>7 DEF Ages
<1>9. InvitesTyped'
  <2>1. drawn' \in [Invite -> Nat] /\ holder' \in [Invite -> SUBSET Console]
    BY <1>1, <1>2, <1>4 DEF InvitesTyped
  <2> QED
    BY <1>1, <1>3, <1>4, <1>5, <2>1 DEF InvitesTyped
<1>10. Posted' /\ RowHeld' /\ Waiting' /\ EmailHeld' /\ LateIsSpent'
  BY <1>1, <1>4, <1>8, <1>9, FewerRequests DEF Served
<1>11. PageLinks'
  <2>1. ASSUME NEW w \in Visitor, page'[w] # NoPage
        PROVE  Issued(page[w].invite, page[w].link)'
    <3>1. /\ page[w].link \in Nat /\ Issued(page[w].invite, page[w].link)
          /\ page'[w] = page[w]
      BY <1>4, <2>1 DEF PageLinks, InvitesTyped, Page
    <3> QED
      BY <1>8, <1>9, <3>1, IssuedStays
  <2> QED
    BY <1>4, <2>1 DEF PageLinks
<1>12. Drawn'
  <2>1. \A j \in Invite : drawn[j] \in Nat /\ drawn'[j] \in Nat /\ drawn[j] <= drawn'[j]
    BY <1>1, <1>2, <1>4, <1>9 DEF InvitesTyped
  <2>2. \A j \in Live : invites'[j].link <= drawn'[j]
    BY <1>1, <1>2, <1>3, <1>4, <1>6 DEF Drawn, InvitesTyped
  <2>3. ASSUME NEW d \in Console, NEW f \in recent'[d]
        PROVE  1 <= f.link /\ f.link <= drawn'[f.invite]
    <3>1. f.invite \in Invite /\ f.link \in Nat
      BY <1>5, <2>3 DEF Remembrance
    <3>2. CASE f \in recent[d]
      BY <2>1, <3>1, <3>2 DEF Drawn
    <3>3. CASE f.invite = i /\ f.link = fresh
      BY <1>1, <1>2, <1>4, <3>3 DEF InvitesTyped
    <3> QED
      BY <1>5, <3>2, <3>3
  <2>4. \A j \in Invite : holder'[j] # {} => j \in Live
    BY <1>1, <1>4 DEF Drawn, InvitesTyped
  <2> QED
    BY <1>3, <2>2, <2>3, <2>4 DEF Drawn
<1>13. OneAccountPerEmail'
  BY <1>3, <1>4 DEF OneAccountPerEmail
<1>14. LinksAreKnown'
  <2> SUFFICES ASSUME NEW j \in Live, NEW d \in holder'[j]
               PROVE  \E e \in recent'[d] : e.invite = j /\ e.link = invites'[j].link
    BY <1>3 DEF LinksAreKnown
  <2>1. CASE j = i
    BY <1>1, <1>3, <1>4, <1>5, <2>1 DEF InvitesTyped
  <2>2. CASE j # i
    <3>1. j \in Invite /\ holder'[j] = holder[j] /\ d \in Console
      BY <1>4, <1>6, <1>9, <2>2 DEF InvitesTyped
    <3> QED
      BY <1>3, <1>5, <2>2, <3>1 DEF LinksAreKnown
  <2> QED
    BY <2>1, <2>2
<1>15. Ahead'
  <2>1. \A s \in answered' : req[s].op = "resend" =>
           /\ req[s].invite \in Live /\ req[s].by \in Console
           /\ req[s].invite \in Invite \ {i}
    BY <1>1 DEF Posted, Issued, Call
  <2>2. \A s \in answered' : req[s].op = "resend" =>
           drawn'[req[s].invite] = drawn[req[s].invite]
    BY <1>4, <2>1 DEF InvitesTyped
  <2> QED
    BY <1>1, <1>3, <1>4, <1>5, <2>1, <2>2, AheadStays
<1>16. ScreensTellTheTruth'
  <2> SUFFICES ASSUME NEW w \in Visitor PROVE ScreenTrue(w)'
    BY AllScreens
  <2>1. r \in answered => req[r].op # "accept"
    OBVIOUS
  <2> QED
    BY <1>1, <1>4, <1>8, <2>1, ScreenStays
<1> QED
  BY <1>9, <1>10, <1>11, <1>12, <1>13, <1>14, <1>15, <1>16

----------------------------------------------------------------------------
(* Whom the requests are heard by *)

\* Requests are given up, and are otherwise as they were.
LEMMA FewerListeners ==
    ASSUME InvitesIInv, Served' = Served, UNCHANGED <<invites, accounts, late>>,
           \A s \in Served : /\ req'[s].pc = req[s].pc /\ req'[s].op = req[s].op
                             /\ req'[s].by = req[s].by /\ req'[s].invite = req[s].invite
                             /\ req'[s].link = req[s].link
    PROVE  Posted' /\ EmailHeld' /\ RowHeld' /\ LateIsSpent'
<1> USE DEF InvitesIInv
<1>1. Posted'
  <2>1. \A i, k : Issued(i, k)' <=> Issued(i, k)
    BY DEF Issued, Live
  <2> QED
    BY <2>1 DEF Posted, Issued, Live
<1>2. EmailHeld' /\ RowHeld'
  BY DEF EmailHeld, HoldsEmail, HasAccount, RowHeld, HoldsRow
<1>3. LateIsSpent'
  BY DEF LateIsSpent, Spent, InvitesTyped
<1> QED
  BY <1>1, <1>2, <1>3

LEMMA RequestUnheard ==
    ASSUME InvitesTyped, NEW r \in Served, req' = [req EXCEPT ![r].heard = FALSE]
    PROVE  /\ req' \in [Request -> {Unmade, Done} \cup Call]
           /\ Served' = Served
           /\ req'[r] \in Call /\ ~req'[r].heard
           /\ req'[r].pc = req[r].pc /\ req'[r].op = req[r].op /\ req'[r].by = req[r].by
           /\ req'[r].invite = req[r].invite /\ req'[r].link = req[r].link
           /\ \A s \in Request \ {r} : req'[s] = req[s]
<1> DEFINE q == [req[r] EXCEPT !.heard = FALSE]
<1>1. r \in Request /\ req[r] \in Call
  BY ServedCall DEF Served
<1>2. /\ q \in Call /\ ~q.heard
      /\ q.pc = req[r].pc /\ q.op = req[r].op /\ q.by = req[r].by
      /\ q.invite = req[r].invite /\ q.link = req[r].link
  BY <1>1 DEF Call
<1>3. req' = [req EXCEPT ![r] = q]
  OBVIOUS
<1> HIDE DEF q
<1>4. /\ req' \in [Request -> {Unmade, Done} \cup Call]
      /\ Served' = Served \cup {r}
      /\ req'[r] = q
      /\ \A s \in Request \ {r} : req'[s] = req[s]
  BY <1>1, <1>2, <1>3, RequestMoves
<1> QED
  BY <1>1, <1>2, <1>4

\* An answer before the commit: of an accept, the page signs in; of a
\* revocation, the row is marked; of a resend, the row has a token the commit
\* is still to write.
LEMMA AnswerStep ==
    ASSUME InvitesIInv, NEW r \in Request, AnswerRequest(r)
    PROVE  InvitesIInv'
<1> USE DEF InvitesIInv
<1> DEFINE i == req[r].invite
           c == req[r].by
           k == req[r].link
<1>1. /\ r \in Served /\ req[r] \in Call /\ req[r].pc = "commit" /\ req[r].heard
      /\ Issued(i, k) /\ i \in Live /\ i \in Invite /\ k \in Nat
      /\ c \in (IF req[r].op = "accept" THEN Visitor ELSE Console)
      /\ UNCHANGED <<invites, accounts, late, misled>>
      /\ answered' = answered \cup {r}
  BY ServedCall DEF AnswerRequest, Stage, Posted, Issued, Call
<1>2. /\ req' \in [Request -> {Unmade, Done} \cup Call]
      /\ Served' = Served
      /\ req'[r] \in Call /\ ~req'[r].heard
      /\ req'[r].pc = "commit" /\ req'[r].op = req[r].op /\ req'[r].by = c
      /\ req'[r].invite = i /\ req'[r].link = k
      /\ \A s \in Request \ {r} : req'[s] = req[s]
  BY <1>1, RequestUnheard DEF AnswerRequest
\* The others that are answered are of other invites, and of other pages.
<1>3. /\ r \notin answered
      /\ \A s \in answered : /\ s \in Request \ {r} /\ s \in Served /\ req[s] \in Call
                             /\ req[s].invite # i /\ req'[s] = req[s]
                             /\ req[s].by \in (IF req[s].op = "accept" THEN Visitor ELSE Console)
                             /\ req[r].op = "accept" /\ req[s].op = "accept" => req[s].by # c
  <2>1. r \notin answered
    BY <1>1 DEF Ahead
  <2>2. \A s \in answered : s \in Request \ {r} /\ s \in Served /\ req[s] \in Call
    BY <2>1, ServedCall DEF InvitesTyped, Served
  <2>3. \A s \in answered : req[s].invite # i
    BY <1>1, <2>1, <2>2 DEF Ahead, RowHeld, HoldsRow
  <2>4. \A s \in answered : req[s].by \in (IF req[s].op = "accept" THEN Visitor ELSE Console)
    BY <2>2 DEF Posted
  <2>5. \A s \in answered : req[r].op = "accept" /\ req[s].op = "accept" => req[s].by # c
    BY <1>1 DEF Ahead, Waiting, Heard
  <2> QED
    BY <1>2, <2>1, <2>2, <2>3, <2>4, <2>5
<1>4. Posted' /\ EmailHeld' /\ RowHeld' /\ LateIsSpent'
  BY <1>1, <1>2, FewerListeners DEF Served
<1>5. Ages /\ Live' = Live
  BY <1>1, AgesFrame
<1>6. CASE req[r].op = "accept"
  <2>1. Show(c, "signing", i, k) /\ UNCHANGED <<recent, drawn, holder>>
    BY <1>6 DEF AnswerRequest
  <2> HIDE DEF i, c, k
  <2>2. c \in Visitor
    BY <1>1, <1>6
  <2>3. /\ page' \in [Visitor -> {NoPage} \cup Page]
        /\ page'[c].screen = "signing" /\ page'[c].invite = i /\ page'[c].link = k
        /\ \A w \in Visitor \ {c} : page'[w] = page[w]
    BY <1>1, <2>1, <2>2, PageShown DEF Screen
  <2>4. InvitesTyped'
    BY <1>1, <1>2, <1>5, <2>1, <2>3 DEF InvitesTyped
  <2>5. PageLinks'
    BY <1>1, <1>5, <2>3 DEF PageLinks, Issued
  <2>6. Waiting'
    BY <1>1, <1>2, <1>6, <2>3 DEF Waiting, Heard, Posted, c
  <2>7. Ahead'
    BY <1>1, <1>2, <1>3, <1>6, <2>1, <2>3 DEF Ahead
  <2>8. ScreensTellTheTruth'
    <3> SUFFICES ASSUME NEW w \in Visitor PROVE ScreenTrue(w)'
      BY AllScreens
    <3>1. CASE w = c
      BY <1>1, <1>2, <1>6, <2>3, <3>1 DEF ScreenTrue
    <3>2. CASE w # c
      BY <1>1, <1>3, <1>5, <2>3, <3>2, ScreenStays
    <3> QED
      BY <3>1, <3>2
  <2> QED
    BY <1>1, <1>4, <2>1, <2>4, <2>5, <2>6, <2>7, <2>8, AccountsFrame, LinksFrame
<1>7. ASSUME req[r].op # "accept", page' = page
      PROVE  Waiting' /\ PageLinks' /\ ScreensTellTheTruth'
  <2>1. Waiting'
    BY <1>2, <1>7 DEF Waiting, Heard
  <2>2. ScreensTellTheTruth'
    <3> SUFFICES ASSUME NEW w \in Visitor PROVE ScreenTrue(w)'
      BY AllScreens
    <3> QED
      BY <1>1, <1>3, <1>5, <1>7, ScreenStays
  <2> QED
    BY <1>1, <1>7, <2>1, <2>2, PageLinksFrame
<1>8. CASE req[r].op = "revoke"
  <2>1. recent' = Marked(c, i, k) /\ UNCHANGED <<page, drawn, holder>>
    BY <1>8 DEF AnswerRequest
  <2> HIDE DEF i, c, k
  <2>2. /\ recent' \in [Console -> SUBSET Remembrance]
        /\ \A d \in Console : \A f \in recent'[d] :
              \E e \in recent[d] : e.invite = f.invite /\ e.link = f.link
        /\ \A d \in Console : \A e \in recent[d] :
              \E f \in recent'[d] : f.invite = e.invite /\ f.link = e.link
    BY <1>1, <1>8, <2>1, MarkedKeeps
  <2>3. InvitesTyped'
    BY <1>1, <1>2, <1>5, <2>1, <2>2 DEF InvitesTyped
  <2>4. Drawn' /\ LinksAreKnown'
    BY <1>1, <1>5, <2>1, <2>2, LinksKept
  <2>5. Ahead'
    BY <1>1, <1>2, <1>3, <1>8, <2>1, <2>2 DEF Ahead
  <2> QED
    BY <1>1, <1>4, <1>7, <1>8, <2>1, <2>3, <2>4, <2>5, AccountsFrame
<1>9. CASE req[r].op = "resend"
  <2> DEFINE fresh == drawn[i] + 1
  <2>1. /\ recent' = Replaced(c, i, k, fresh) /\ page' = page
        /\ drawn' = [drawn EXCEPT ![i] = fresh]
        /\ holder' = [holder EXCEPT ![i] = IF k = invites[i].link THEN @ \ {c} ELSE @]
    BY <1>9 DEF AnswerRequest
  <2>2. /\ drawn[i] \in Nat /\ fresh \in Nat /\ 1 <= fresh /\ drawn[i] < fresh
        /\ invites[i].link \in Nat /\ invites[i].link < fresh /\ c \in Console
    <3>1. drawn[i] \in Nat /\ invites[i].link \in Nat /\ invites[i].link <= drawn[i]
      BY <1>1, LiveRow DEF InvitesTyped, InviteRow, Drawn
    <3> QED
      BY <1>1, <1>9, <3>1
  <2> HIDE DEF i, c, k, fresh
  <2>3. /\ recent' \in [Console -> SUBSET Remembrance]
        /\ \A d \in Console : \A f \in recent'[d] :
              f \in recent[d] \/ (f.invite = i /\ f.link = fresh)
        /\ \A d \in Console : \A e \in recent[d] :
              e.invite # i \/ e.link # k \/ d # c => e \in recent'[d]
        /\ \E f \in recent'[c] : f.invite = i /\ f.link = fresh
    BY <1>1, <2>1, <2>2, ReplacedKeeps
  <2>4. InvitesTyped'
    <3>1. drawn' \in [Invite -> Nat] /\ holder' \in [Invite -> SUBSET Console]
      BY <1>1, <2>1, <2>2 DEF InvitesTyped
    <3> QED
      BY <1>1, <1>2, <1>5, <2>1, <2>3, <3>1 DEF InvitesTyped
  <2>5. Drawn'
    <3>1. \A j \in Invite : drawn[j] \in Nat /\ drawn'[j] \in Nat /\ drawn[j] <= drawn'[j]
      BY <1>1, <2>1, <2>2, <2>4 DEF InvitesTyped
    <3>2. \A j \in Live : j \in Invite /\ invites[j].link \in Nat
      BY LiveRow DEF Live, InviteRow
    <3>3. \A j \in Live' : invites'[j].link <= drawn'[j]
      BY <1>1, <1>5, <3>1, <3>2 DEF Drawn
    <3>4. ASSUME NEW d \in Console, NEW f \in recent'[d]
          PROVE  1 <= f.link /\ f.link <= drawn'[f.invite]
      <4>1. f.invite \in Invite /\ f.link \in Nat
        BY <2>3, <3>4 DEF Remembrance
      <4>2. CASE f \in recent[d]
        BY <3>1, <4>1, <4>2 DEF Drawn
      <4>3. CASE f.invite = i /\ f.link = fresh
        BY <1>1, <2>1, <2>2, <4>3 DEF InvitesTyped
      <4> QED
        BY <2>3, <4>2, <4>3
    <3>5. \A j \in Invite : holder'[j] # {} => holder[j] # {}
      BY <1>1, <2>1 DEF InvitesTyped
    <3> QED
      BY <1>5, <3>3, <3>4, <3>5 DEF Drawn
  <2>6. LinksAreKnown'
    <3> SUFFICES ASSUME NEW j \in Live, NEW d \in holder'[j]
                 PROVE  \E e \in recent'[d] : e.invite = j /\ e.link = invites[j].link
      BY <1>1, <1>5 DEF LinksAreKnown
    <3>1. /\ j \in Invite /\ d \in Console /\ d \in holder[j]
          /\ j # i \/ k # invites[i].link \/ d # c
      BY <1>1, <2>1, <2>4, LiveRow DEF InvitesTyped, Live
    <3>2. PICK e \in recent[d] : e.invite = j /\ e.link = invites[j].link
      BY <3>1 DEF LinksAreKnown
    <3>3. e \in recent'[d]
      BY <2>3, <3>1, <3>2
    <3> QED
      BY <3>2, <3>3
  <2>7. Ahead'
    <3>1. drawn'[i] = fresh
      BY <1>1, <2>1 DEF InvitesTyped
    <3>2. \A s \in answered : drawn'[req[s].invite] = drawn[req[s].invite]
      BY <1>3, <2>1 DEF InvitesTyped, Call
    <3> QED
      BY <1>1, <1>2, <1>3, <1>9, <2>1, <2>2, <2>3, <3>1, <3>2 DEF Ahead
  <2> QED
    BY <1>1, <1>4, <1>7, <1>9, <2>1, <2>4, <2>5, <2>6, <2>7, AccountsFrame
<1> QED
  BY <1>6, <1>8, <1>9 DEF AnswerRequest

\* A reload loses the page's rows, and nobody hears the answers it waited for.
LEMMA ReloadStep ==
    ASSUME InvitesIInv, NEW c \in Console, Reload(c)
    PROVE  InvitesIInv'
<1> USE DEF InvitesIInv
<1> DEFINE theirs == {r \in Served : req[r].op # "accept" /\ req[r].by = c}
<1>1. /\ UNCHANGED <<invites, accounts, page, drawn, late, misled>>
      /\ recent' = [recent EXCEPT ![c] = {}]
      /\ answered' = answered \ theirs
      /\ holder' = [i \in Invite |-> holder[i] \ {c}]
      /\ req' = [r \in Request |->
                    IF r \in theirs THEN [req[r] EXCEPT !.heard = FALSE] ELSE req[r]]
  BY DEF Reload
<1>2. /\ req' \in [Request -> {Unmade, Done} \cup Call]
      /\ Served' = Served
      /\ \A s \in Served : /\ req'[s] \in Call
                           /\ req'[s].pc = req[s].pc /\ req'[s].op = req[s].op
                           /\ req'[s].by = req[s].by /\ req'[s].invite = req[s].invite
                           /\ req'[s].link = req[s].link
      /\ \A s \in Request \ theirs : req'[s] = req[s]
  <2>1. ASSUME NEW s \in theirs
        PROVE  /\ s \in Request /\ s \in Served
               /\ req'[s] \in Call
               /\ req'[s].pc = req[s].pc /\ req'[s].op = req[s].op
               /\ req'[s].by = req[s].by /\ req'[s].invite = req[s].invite
               /\ req'[s].link = req[s].link
    <3>1. s \in Request /\ s \in Served /\ req[s] \in Call
      BY ServedCall DEF Served
    <3>2. req'[s] = [req[s] EXCEPT !.heard = FALSE]
      BY <1>1, <2>1, <3>1
    <3> QED
      BY <3>1, <3>2 DEF Call
  <2>2. \A s \in Request \ theirs : req'[s] = req[s]
    BY <1>1
  <2> HIDE DEF theirs
  <2>3. \A q \in Call : q \notin {Unmade, Done}
    BY DEF Call, Stage, Unmade, Done
  <2>4. req' \in [Request -> {Unmade, Done} \cup Call]
    <3>1. \A s \in Request : req'[s] \in {Unmade, Done} \cup Call
      BY <2>1, <2>2 DEF InvitesTyped
    <3> QED
      BY <1>1, <3>1
  <2>5. Served' = Served
    BY <2>1, <2>2, <2>3 DEF Served
  <2>6. \A s \in Served : s \in Request /\ req[s] \in Call
    BY ServedCall DEF Served
  <2> QED
    BY <2>1, <2>2, <2>4, <2>5, <2>6
<1>3. \A s \in Served : req[s].op = "accept" => s \in Request \ theirs
  BY DEF Served
<1>4. \A s \in answered' : /\ s \in Request \ theirs /\ s \in Served /\ s \in answered
                           /\ req[s].op # "accept" => req[s].by \in Console \ {c}
  BY <1>1 DEF InvitesTyped, Served, Posted
<1>5. \A s \in answered : req[s].op = "accept" => s \in answered' /\ req'[s] = req[s]
  BY <1>1, <1>2, <1>3 DEF InvitesTyped
<1> HIDE DEF theirs
<1>6. Posted' /\ EmailHeld' /\ RowHeld' /\ LateIsSpent'
  BY <1>1, <1>2, FewerListeners
<1>7. Ages /\ Live' = Live
  BY <1>1, AgesFrame
<1>8. InvitesTyped'
  BY <1>1, <1>2, <1>7 DEF InvitesTyped
<1>9. Waiting'
  BY <1>1, <1>2, <1>3 DEF Waiting, Heard
<1>10. Drawn' /\ LinksAreKnown'
  BY <1>1, <1>7 DEF Drawn, LinksAreKnown, InvitesTyped, Live
<1>11. Ahead'
  BY <1>1, <1>2, <1>4, AheadStays DEF InvitesTyped
<1>12. ScreensTellTheTruth'
  <2> SUFFICES ASSUME NEW w \in Visitor PROVE ScreenTrue(w)'
    BY AllScreens
  <2> QED
    BY <1>1, <1>5, <1>7, ScreenStays
<1> QED
  BY <1>1, <1>6, <1>8, <1>9, <1>10, <1>11, <1>12, PageLinksFrame, AccountsFrame

----------------------------------------------------------------------------
(* The pages *)

LEMMA PostAdds ==
    ASSUME InvitesIInv, NEW r \in Request, NEW op \in {"accept", "revoke", "resend"},
           NEW by \in Console \cup Visitor, NEW i \in Invite, NEW k \in Nat,
           Issued(i, k), by \in (IF op = "accept" THEN Visitor ELSE Console),
           Post(r, op, by, i, k), UNCHANGED <<invites, accounts, late>>
    PROVE  /\ req' \in [Request -> {Unmade, Done} \cup Call]
           /\ r \notin Served /\ Served' = Served \cup {r}
           /\ req'[r].pc = "sent" /\ req'[r].op = op /\ req'[r].by = by
           /\ req'[r].invite = i /\ req'[r].link = k /\ req'[r].heard
           /\ \A s \in Request \ {r} : req'[s] = req[s]
           /\ \A s \in answered : req'[s] = req[s]
           /\ Posted' /\ EmailHeld' /\ RowHeld' /\ LateIsSpent'
<1> USE DEF InvitesIInv
<1> DEFINE q == [pc |-> "sent", op |-> op, by |-> by, invite |-> i, link |-> k, heard |-> TRUE]
<1>1. q \in Call /\ q.pc = "sent" /\ q.op = op /\ q.by = by /\ q.invite = i /\ q.link = k
         /\ q.heard
  BY DEF Call, Stage
<1>2. req' = [req EXCEPT ![r] = q] /\ r \notin Served
  BY DEF Post, Served
<1> HIDE DEF q
<1>3. /\ req' \in [Request -> {Unmade, Done} \cup Call]
      /\ Served' = Served \cup {r}
      /\ req'[r] = q
      /\ \A s \in Request \ {r} : req'[s] = req[s]
  BY <1>1, <1>2, RequestMoves
<1>4. Posted'
  BY <1>1, <1>3 DEF Posted, Issued, Live, Served
<1>5. EmailHeld'
  BY <1>1, <1>3 DEF EmailHeld, HoldsEmail, HasAccount, Served
<1>6. LateIsSpent'
  BY <1>2, <1>3 DEF LateIsSpent, Spent, InvitesTyped, Served
<1>7. RowHeld'
  BY <1>1, <1>3 DEF RowHeld, HoldsRow
<1>8. \A s \in answered : req'[s] = req[s]
  BY <1>2, <1>3 DEF InvitesTyped, Served
<1> QED
  BY <1>1, <1>2, <1>3, <1>4, <1>5, <1>6, <1>7, <1>8

LEMMA ActOnStep ==
    ASSUME InvitesIInv, NEW c \in Console, ActOn(c)
    PROVE  InvitesIInv'
<1> USE DEF InvitesIInv
<1>1. PICK r \in Request, i \in Live, op \in {"revoke", "resend"} :
         \E k \in 1..invites[i].link : Post(r, op, c, i, k)
  BY DEF ActOn
<1>2. PICK k \in 1..invites[i].link : Post(r, op, c, i, k)
  BY <1>1
<1>3. /\ UNCHANGED <<invites, accounts, recent, page, late, drawn, answered, misled, holder>>
      /\ Issued(i, k) /\ i \in Invite /\ k \in Nat
  BY <1>2, LiveRow DEF ActOn, Issued, Live, InviteRow, known
<1>4. /\ req' \in [Request -> {Unmade, Done} \cup Call]
      /\ r \notin Served /\ Served' = Served \cup {r}
      /\ req'[r].op = op
      /\ \A s \in Request \ {r} : req'[s] = req[s]
      /\ \A s \in answered : req'[s] = req[s]
      /\ Posted' /\ EmailHeld' /\ RowHeld' /\ LateIsSpent'
  BY <1>2, <1>3, PostAdds
<1>5. InvitesTyped'
  BY <1>3, <1>4 DEF InvitesTyped, Live
<1>6. Waiting'
  BY <1>3, <1>4 DEF Waiting, Heard, Served
<1> QED
  BY <1>3, <1>4, <1>5, <1>6, PageLinksFrame, AccountsFrame, LinksFrame, ScreensFrame,
     AheadFrame

\* A page that no answer is ahead of may show anything that is so.
LEMMA PageTurns ==
    ASSUME InvitesIInv, NEW v \in Visitor, NEW s \in Screen \ {"in", "signing", "created"},
           NEW i \in Invite, NEW k \in Nat, Show(v, s, i, k), Issued(i, k),
           page[v].screen \notin {"in", "signing", "created"},
           s = "used" => invites[i].used,
           UNCHANGED <<invites, accounts, recent, drawn, answered, misled>>,
           \A r \in answered : req'[r] = req[r]
    PROVE  /\ page' \in [Visitor -> {NoPage} \cup Page]
           /\ page'[v].screen = s /\ page'[v].invite = i /\ page'[v].link = k
           /\ \A w \in Visitor \ {v} : page'[w] = page[w]
           /\ PageLinks' /\ Ahead' /\ ScreensTellTheTruth'
<1> USE DEF InvitesIInv
<1>1. /\ page' \in [Visitor -> {NoPage} \cup Page]
      /\ page'[v].screen = s /\ page'[v].invite = i /\ page'[v].link = k
      /\ \A w \in Visitor \ {v} : page'[w] = page[w]
  BY PageShown
<1>2. PageLinks'
  BY <1>1 DEF PageLinks, Issued, Live
<1>3. \A r \in answered : req[r].op = "accept" => req[r].by \in Visitor \ {v}
  BY DEF Ahead, InvitesTyped, Posted
<1>4. Ahead'
  BY <1>1, <1>3, AheadStays
<1>5. ScreensTellTheTruth'
  <2> SUFFICES ASSUME NEW w \in Visitor PROVE ScreenTrue(w)'
    BY AllScreens
  <2>1. CASE w = v
    BY <1>1, <2>1 DEF ScreenTrue
  <2>2. CASE w # v
    BY <1>1, <2>2, AgesFrame, ScreenStays
  <2> QED
    BY <2>1, <2>2
<1> QED
  BY <1>1, <1>2, <1>4, <1>5

\* What an opened page shows is so.
LEMMA DetailsTrue ==
    ASSUME InvitesTyped, NEW i \in Live, NEW k
    PROVE  /\ Details(i, k) \in {"form", "used", "expired", "error"}
           /\ Details(i, k) = "used" => invites[i].used
BY DEF Details, Status, Found

LEMMA OpenStep ==
    ASSUME InvitesIInv, NEW v \in Visitor, Open(v)
    PROVE  InvitesIInv'
<1> USE DEF InvitesIInv
<1>1. PICK i \in Live : \E k \in 1..invites[i].link : Show(v, Details(i, k), i, k)
  BY DEF Open
<1>2. PICK k \in 1..invites[i].link : Show(v, Details(i, k), i, k)
  BY <1>1
<1>3. /\ UNCHANGED <<invites, accounts, req, recent, late, drawn, answered, misled, holder>>
      /\ Issued(i, k) /\ i \in Invite /\ k \in Nat /\ page[v].screen = "none"
  BY <1>2, LiveRow DEF Open, Issued, Live, InviteRow, known
<1>4. /\ Details(i, k) \in {"form", "used", "expired", "error"}
      /\ Details(i, k) = "used" => invites[i].used
  BY DetailsTrue
<1>5. /\ page' \in [Visitor -> {NoPage} \cup Page]
      /\ \A w \in Visitor \ {v} : page'[w] = page[w]
      /\ PageLinks' /\ Ahead' /\ ScreensTellTheTruth'
  BY <1>2, <1>3, <1>4, PageTurns DEF Screen
<1>6. InvitesTyped'
  BY <1>3, <1>5 DEF InvitesTyped, Live, Served
<1>7. Waiting'
  BY <1>3, <1>5 DEF Waiting, Heard, Served, Posted
<1> QED
  BY <1>3, <1>5, <1>6, <1>7, PostedFrame, EmailFrame, AccountsFrame, LateFrame, LinksFrame,
     RowFrame

LEMMA SubmitStep ==
    ASSUME InvitesIInv, NEW v \in Visitor, Submit(v)
    PROVE  InvitesIInv'
<1> USE DEF InvitesIInv
<1> DEFINE i == page[v].invite
           k == page[v].link
<1>1. /\ UNCHANGED <<invites, accounts, recent, late, drawn, answered, misled, holder>>
      /\ page[v].screen = "form"
  BY DEF Submit, known
<1>2. /\ i \in Live /\ Issued(i, k) /\ i \in Invite /\ k \in Nat
      /\ \A r \in Request : Heard(r) => req[r].by # v
  BY <1>1 DEF InvitesTyped, PageLinks, Issued, Page, NoPage, Waiting
<1>3. /\ Details(i, k) \in {"form", "used", "expired", "error"}
      /\ Details(i, k) = "used" => invites[i].used
  BY <1>2, DetailsTrue
<1>4. CASE Details(i, k) = "form"
  <2>1. Show(v, "waiting", i, k)
    BY <1>4 DEF Submit
  <2>2. PICK r \in Request : Post(r, "accept", v, i, k)
    BY <1>4 DEF Submit
  <2> HIDE DEF i, k
  <2>3. /\ req' \in [Request -> {Unmade, Done} \cup Call]
        /\ r \notin Served /\ Served' = Served \cup {r}
        /\ req'[r].op = "accept" /\ req'[r].by = v
        /\ req'[r].invite = i /\ req'[r].link = k
        /\ \A s \in Request \ {r} : req'[s] = req[s]
        /\ \A s \in answered : req'[s] = req[s]
        /\ Posted' /\ EmailHeld' /\ RowHeld' /\ LateIsSpent'
    BY <1>1, <1>2, <2>2, PostAdds
  <2>4. /\ page' \in [Visitor -> {NoPage} \cup Page]
        /\ page'[v].screen = "waiting" /\ page'[v].invite = i /\ page'[v].link = k
        /\ \A w \in Visitor \ {v} : page'[w] = page[w]
        /\ PageLinks' /\ Ahead' /\ ScreensTellTheTruth'
    BY <1>1, <1>2, <2>1, <2>3, PageTurns DEF Screen
  <2>5. InvitesTyped'
    BY <1>1, <2>3, <2>4 DEF InvitesTyped, Live
  <2>6. Waiting'
    BY <1>2, <2>3, <2>4 DEF Waiting, Heard, Posted, Served
  <2> QED
    BY <1>1, <2>3, <2>4, <2>5, <2>6, AccountsFrame, LinksFrame
<1>5. CASE Details(i, k) # "form"
  <2>1. Show(v, Details(i, k), i, k) /\ req' = req
    BY <1>5 DEF Submit
  <2> DEFINE screen == Details(i, k)
  <2>2. screen \in Screen \ {"in", "signing", "created"}
    BY <1>3 DEF Screen
  <2> HIDE DEF i, k, screen
  <2>3. /\ page' \in [Visitor -> {NoPage} \cup Page]
        /\ \A w \in Visitor \ {v} : page'[w] = page[w]
        /\ PageLinks' /\ Ahead' /\ ScreensTellTheTruth'
    BY <1>1, <1>2, <1>3, <2>1, <2>2, PageTurns DEF screen
  <2>4. InvitesTyped'
    BY <1>1, <2>1, <2>3 DEF InvitesTyped, Live, Served
  <2>5. Waiting'
    BY <1>2, <2>1, <2>3 DEF Waiting, Heard, Posted, Served
  <2> QED
    BY <1>1, <2>1, <2>3, <2>4, <2>5, PostedFrame, EmailFrame, AccountsFrame, LateFrame,
       LinksFrame, RowFrame
<1> QED
  BY <1>4, <1>5

\* Only who has an account of his own is signed in.
LEMMA EnterAccountStep ==
    ASSUME InvitesIInv, NEW v \in Visitor, EnterAccount(v)
    PROVE  InvitesIInv'
<1> USE DEF InvitesIInv
<1> DEFINE i == page[v].invite
           k == page[v].link
<1>1. /\ UNCHANGED <<invites, accounts, req, recent, late, drawn, answered, misled, holder>>
      /\ page[v].screen = "signing"
  BY DEF EnterAccount, known
<1>2. i \in Live /\ Issued(i, k) /\ i \in Invite /\ k \in Nat
  BY <1>1 DEF InvitesTyped, PageLinks, Issued, Page, NoPage
<1>3. PICK s \in {"in", "created"} : Show(v, s, i, k) /\ (s = "in" => Mine(v))
  BY DEF EnterAccount
<1>4. /\ page' \in [Visitor -> {NoPage} \cup Page]
      /\ page'[v].screen = s /\ page'[v].invite = i /\ page'[v].link = k
      /\ \A w \in Visitor \ {v} : page'[w] = page[w]
  <2> HIDE DEF i, k
  <2> QED
    BY <1>2, <1>3, PageShown DEF Screen
<1>5. InvitesTyped'
  BY <1>1, <1>4 DEF InvitesTyped, Live, Served
<1>6. PageLinks'
  BY <1>1, <1>2, <1>4 DEF PageLinks, Issued, Live
<1>7. Waiting'
  BY <1>1, <1>4 DEF Waiting, Heard, Served, Posted
<1>8. Ahead'
  <2>1. \A r \in answered : req[r].op = "accept" => req[r].by \in Visitor
    BY DEF InvitesTyped, Posted
  <2> QED
    BY <1>1, <1>4, <2>1, AheadStays
<1>9. ScreensTellTheTruth'
  <2> SUFFICES ASSUME NEW w \in Visitor PROVE ScreenTrue(w)'
    BY AllScreens
  <2>1. CASE w = v
    <3>1. /\ \/ Mine(v) \/ v \in misled
             \/ \E r \in answered : req[r].op = "accept" /\ req[r].by = v
      BY <1>1 DEF ScreensTellTheTruth
    <3>2. Mine(v)' <=> Mine(v)
      BY <1>1, <1>4 DEF Mine
    <3> QED
      BY <1>1, <1>3, <1>4, <2>1, <3>1, <3>2 DEF ScreenTrue
  <2>2. CASE w # v
    BY <1>1, <1>4, <2>2, AgesFrame, ScreenStays
  <2> QED
    BY <2>1, <2>2
<1> QED
  BY <1>1, <1>5, <1>6, <1>7, <1>8, <1>9, PostedFrame, EmailFrame, AccountsFrame, LateFrame,
     LinksFrame, RowFrame

LEMMA StopWaitingStep ==
    ASSUME InvitesIInv, NEW r \in Request, StopWaiting(r)
    PROVE  InvitesIInv'
<1> USE DEF InvitesIInv
<1>1. /\ r \in Served /\ req[r] \in Call /\ Issued(req[r].invite, req[r].link)
      /\ req[r].heard
      /\ UNCHANGED <<invites, accounts, recent, late, drawn, answered, misled, holder>>
  BY ServedCall DEF StopWaiting, Posted, known
<1>2. /\ req' \in [Request -> {Unmade, Done} \cup Call]
      /\ Served' = Served
      /\ req'[r] \in Call /\ ~req'[r].heard
      /\ req'[r].pc = req[r].pc /\ req'[r].op = req[r].op /\ req'[r].by = req[r].by
      /\ req'[r].invite = req[r].invite /\ req'[r].link = req[r].link
      /\ \A s \in Request \ {r} : req'[s] = req[s]
  BY <1>1, RequestUnheard DEF StopWaiting
<1>3. \A s \in answered : req'[s] = req[s]
  BY <1>1, <1>2 DEF Ahead, InvitesTyped, Served
<1>4. Posted' /\ EmailHeld' /\ RowHeld' /\ LateIsSpent'
  BY <1>1, <1>2, FewerListeners DEF Served
<1>5. CASE req[r].op = "accept"
  <2>1. req[r].by \in Visitor /\ req[r].invite \in Invite /\ req[r].link \in Nat
    BY <1>1, <1>5 DEF Posted, Call
  <2>2. Show(req[r].by, "form", req[r].invite, req[r].link)
    BY <1>5 DEF StopWaiting
  <2>3. page[req[r].by].screen = "waiting"
    BY <1>1, <1>5 DEF Waiting, Heard, Served
  <2>4. /\ page' \in [Visitor -> {NoPage} \cup Page]
        /\ \A w \in Visitor \ {req[r].by} : page'[w] = page[w]
        /\ PageLinks' /\ Ahead' /\ ScreensTellTheTruth'
    BY <1>1, <1>3, <2>1, <2>2, <2>3, PageTurns DEF Screen
  <2>5. InvitesTyped'
    BY <1>1, <1>2, <2>4 DEF InvitesTyped, Live
  <2>6. Waiting'
    BY <1>1, <1>2, <1>5, <2>4 DEF Waiting, Heard, Posted
  <2> QED
    BY <1>1, <1>4, <2>4, <2>5, <2>6, AccountsFrame, LinksFrame
<1>6. CASE req[r].op # "accept"
  <2>1. page' = page
    BY <1>6 DEF StopWaiting
  <2>2. InvitesTyped'
    BY <1>1, <1>2, <2>1 DEF InvitesTyped, Live
  <2>3. Waiting'
    BY <1>1, <1>2, <1>6, <2>1 DEF Waiting, Heard
  <2> QED
    BY <1>1, <1>3, <1>4, <2>1, <2>2, <2>3, PageLinksFrame, AccountsFrame, LinksFrame,
       ScreensFrame, AheadFrame
<1> QED
  BY <1>5, <1>6

----------------------------------------------------------------------------
(* New invites, and time *)

LEMMA CreateStep ==
    ASSUME InvitesIInv, NEW c \in Console, NEW i \in Invite, Create(c, i)
    PROVE  InvitesIInv'
<1> USE DEF InvitesIInv
<1> DEFINE row == [link |-> 1, by |-> c, used |-> FALSE, revoked |-> FALSE, expired |-> FALSE]
           e1 == Entry(i, 1, "pending")
<1>1. row \in InviteRow /\ row.link = 1 /\ ~row.used
  BY DEF InviteRow
<1>2. i \notin Live /\ drawn' = [drawn EXCEPT ![i] = 1] /\ drawn[i] = 0
  <2>1. \A j \in Live : invites[j].link \in Nat \ {0} /\ invites[j].link <= drawn[j]
    BY LiveRow DEF Live, InviteRow, Drawn
  <2> QED
    BY <2>1 DEF Create
<1>3. UNCHANGED <<accounts, req, page, late, answered, misled>> /\ Served' = Served
  BY DEF Create, Served, asked
<1>4. e1 \in Remembrance /\ e1.invite = i /\ e1.link = 1
  BY DEF Entry, Remembrance
<1>5. /\ invites' \in {invites, [invites EXCEPT ![i] = row]}
      /\ recent' \in {recent, [recent EXCEPT ![c] = @ \cup {e1}]}
      /\ \/ /\ holder' = [holder EXCEPT ![i] = {c}]
            /\ invites' = [invites EXCEPT ![i] = row]
            /\ recent' = [recent EXCEPT ![c] = @ \cup {e1}]
         \/ holder' = holder
  BY DEF Create, Remembered
<1> HIDE DEF row, e1
<1>6. /\ invites' \in [Invite -> {None} \cup InviteRow]
      /\ Live \subseteq Live' /\ Live' \subseteq Live \cup {i}
      /\ i \in Live' => invites'[i] = row
      /\ \A j \in Live : invites'[j] = invites[j]
  BY <1>1, <1>2, <1>5 DEF InvitesTyped, Live, InviteRow, None
<1>7. /\ recent' \in [Console -> SUBSET Remembrance]
      /\ \A d \in Console : recent[d] \subseteq recent'[d]
      /\ \A d \in Console : \A e \in recent'[d] : e \in recent[d] \/ e = e1
  BY <1>4, <1>5 DEF InvitesTyped
<1>8. drawn' \in [Invite -> Nat] /\ holder' \in [Invite -> SUBSET Console]
  BY <1>2, <1>5 DEF InvitesTyped
<1>9. InvitesTyped'
  BY <1>3, <1>6, <1>7, <1>8 DEF InvitesTyped
<1>10. Ages
  <2>1. \A j \in Live : invites[j].link \in Nat
    BY LiveRow DEF Live, InviteRow
  <2> QED
    BY <1>6, <2>1 DEF Ages
<1>11. Posted' /\ RowHeld' /\ Waiting' /\ EmailHeld' /\ LateIsSpent'
  BY <1>3, <1>9, <1>10, FewerRequests
<1>12. PageLinks'
  BY <1>3, <1>6 DEF PageLinks, Issued
<1>13. OneAccountPerEmail'
  BY <1>1, <1>3, <1>6 DEF OneAccountPerEmail
<1>14. Drawn'
  <2>1. \A j \in Invite : drawn[j] \in Nat /\ drawn'[j] \in Nat /\ drawn[j] <= drawn'[j]
    BY <1>2, <1>8 DEF InvitesTyped
  <2>2. \A j \in Live' : invites'[j].link <= drawn'[j]
    <3>1. \A j \in Live : j \in Invite /\ invites[j].link \in Nat
      BY LiveRow DEF Live, InviteRow
    <3>2. drawn'[i] = 1
      BY <1>2 DEF InvitesTyped
    <3> QED
      BY <1>1, <1>6, <2>1, <3>1, <3>2 DEF Drawn
  <2>3. ASSUME NEW d \in Console, NEW e \in recent'[d]
        PROVE  1 <= e.link /\ e.link <= drawn'[e.invite]
    <3>1. e.invite \in Invite /\ e.link \in Nat
      BY <1>7, <2>3 DEF Remembrance
    <3>2. CASE e \in recent[d]
      BY <2>1, <3>1, <3>2 DEF Drawn
    <3>3. CASE e = e1
      BY <1>2, <1>4, <3>3 DEF InvitesTyped
    <3> QED
      BY <1>7, <3>2, <3>3
  <2>4. \A j \in Invite : holder'[j] # {} => j \in Live'
    <3>1. CASE holder' = holder
      BY <1>6, <3>1 DEF Drawn
    <3>2. CASE /\ holder' = [holder EXCEPT ![i] = {c}]
               /\ invites' = [invites EXCEPT ![i] = row]
      <4>1. i \in Live'
        BY <1>1, <3>2 DEF InvitesTyped, Live, InviteRow, None
      <4> QED
        BY <1>6, <3>2, <4>1 DEF Drawn, InvitesTyped
    <3> QED
      BY <1>5, <3>1, <3>2
  <2> QED
    BY <2>2, <2>3, <2>4 DEF Drawn
<1>15. LinksAreKnown'
  <2> SUFFICES ASSUME NEW j \in Live', NEW d \in holder'[j]
               PROVE  \E e \in recent'[d] : e.invite = j /\ e.link = invites'[j].link
    BY DEF LinksAreKnown
  <2>1. j \in Invite /\ d \in Console
    BY <1>8 DEF Live
  <2>2. CASE d \in holder[j]
    <3>1. j \in Live
      BY <2>1, <2>2 DEF Drawn
    <3> QED
      BY <1>6, <1>7, <2>1, <2>2, <3>1 DEF LinksAreKnown
  <2>3. CASE d \notin holder[j]
    <3>1. j = i /\ d = c /\ recent' = [recent EXCEPT ![c] = @ \cup {e1}]
      BY <1>5, <2>1, <2>3 DEF InvitesTyped
    <3>2. e1 \in recent'[c]
      BY <3>1 DEF InvitesTyped
    <3> QED
      BY <1>1, <1>4, <1>6, <3>1, <3>2
  <2> QED
    BY <2>2, <2>3
<1>16. Ahead'
  <2>1. \A s \in answered : req[s].op = "resend" =>
           /\ req[s].invite \in Live /\ req[s].invite \in Invite \ {i}
           /\ req[s].by \in Console
    BY <1>2 DEF InvitesTyped, Posted, Issued, Live
  <2>2. \A s \in answered : req[s].op = "resend" =>
           drawn'[req[s].invite] = drawn[req[s].invite]
    BY <1>2, <2>1 DEF InvitesTyped
  <2> QED
    BY <1>3, <1>6, <1>7, <2>1, <2>2, AheadStays
<1>17. ScreensTellTheTruth'
  <2> SUFFICES ASSUME NEW w \in Visitor PROVE ScreenTrue(w)'
    BY AllScreens
  <2> QED
    BY <1>3, <1>10, ScreenStays
<1> QED
  BY <1>9, <1>11, <1>12, <1>13, <1>14, <1>15, <1>16, <1>17

LEMMA ExpireStep ==
    ASSUME InvitesIInv, NEW i \in Invite, Expire(i)
    PROVE  InvitesIInv'
<1> USE DEF InvitesIInv
<1>1. /\ UNCHANGED <<accounts, req, recent, page, late, drawn, answered, misled, holder>>
      /\ Served' = Served
  BY DEF Expire, Served, known
<1>2. /\ invites' \in [Invite -> {None} \cup InviteRow]
      /\ Live' = Live
      /\ \A j \in Live : /\ invites'[j].link = invites[j].link
                         /\ invites'[j].used = invites[j].used
                         /\ invites'[j].revoked = invites[j].revoked
                         /\ invites[j].expired => invites'[j].expired
  <2> DEFINE row == [invites[i] EXCEPT !.expired = TRUE]
  <2>1. i \in Live /\ invites[i] \in InviteRow
    BY LiveRow DEF Expire, Live
  <2>2. /\ row \in InviteRow /\ row.expired /\ row.link = invites[i].link
        /\ row.used = invites[i].used /\ row.revoked = invites[i].revoked
    BY <2>1 DEF InviteRow
  <2>3. invites' = [invites EXCEPT ![i] = row]
    BY DEF Expire
  <2> HIDE DEF row
  <2>4. /\ invites' \in [Invite -> {None} \cup InviteRow]
        /\ Live' = Live /\ invites'[i] = row
        /\ \A j \in Live \ {i} : invites'[j] = invites[j]
    BY <2>1, <2>2, <2>3, OneRowChanges
  <2> QED
    BY <2>1, <2>2, <2>4
<1>3. InvitesTyped'
  BY <1>1, <1>2 DEF InvitesTyped
<1>4. Ages
  <2>1. \A j \in Live : invites[j].link \in Nat
    BY LiveRow DEF Live, InviteRow
  <2>2. \A j \in Live : invites[j].link <= invites'[j].link
    BY <1>2, <2>1
  <2> QED
    BY <1>2, <2>2 DEF Ages
<1>5. Posted' /\ RowHeld' /\ Waiting' /\ EmailHeld' /\ LateIsSpent'
  BY <1>1, <1>3, <1>4, FewerRequests
<1>6. PageLinks'
  BY <1>1, <1>2 DEF PageLinks, Issued
<1>7. OneAccountPerEmail' /\ LinksAreKnown' /\ Drawn'
  BY <1>1, <1>2 DEF OneAccountPerEmail, LinksAreKnown, Drawn
<1>8. Ahead'
  <2>1. \A s \in answered : req[s].op = "resend" => req[s].invite \in Live
    BY DEF InvitesTyped, Posted, Issued
  <2> QED
    BY <1>1, <1>2, <2>1, AheadStays
<1>9. ScreensTellTheTruth'
  <2> SUFFICES ASSUME NEW w \in Visitor PROVE ScreenTrue(w)'
    BY AllScreens
  <2> QED
    BY <1>1, <1>4, ScreenStays
<1> QED
  BY <1>3, <1>5, <1>6, <1>7, <1>8, <1>9

----------------------------------------------------------------------------
LEMMA StepInvitesIInv == InvitesIInv /\ [InvitesNext]_inviteVars => InvitesIInv'
<1> SUFFICES ASSUME InvitesIInv, [InvitesNext]_inviteVars PROVE InvitesIInv'
  OBVIOUS
<1>1. ASSUME NEW c \in Console, ActOn(c) PROVE InvitesIInv'
  BY <1>1, ActOnStep
<1>2. ASSUME NEW c \in Console, NEW i \in Invite, Create(c, i) PROVE InvitesIInv'
  BY <1>2, CreateStep
<1>3. ASSUME NEW v \in Visitor, Open(v) PROVE InvitesIInv'
  BY <1>3, OpenStep
<1>4. ASSUME NEW v \in Visitor, Submit(v) PROVE InvitesIInv'
  BY <1>4, SubmitStep
<1>5. ASSUME NEW r \in Request, StopWaiting(r) PROVE InvitesIInv'
  BY <1>5, StopWaitingStep
<1>6. ASSUME NEW r \in Request, FailRequest(r) PROVE InvitesIInv'
  BY <1>6, EndStep DEF FailRequest
<1>7. ASSUME NEW i \in Invite, Expire(i) PROVE InvitesIInv'
  BY <1>7, ExpireStep
<1>8. ASSUME NEW r \in Served, StepRequest(r) PROVE InvitesIInv'
  <2>1. CASE CommitRequest(r)
    BY <2>1, AcceptedStep, RevokedStep, ResentStep DEF CommitRequest, Served
  <2>2. CASE ~CommitRequest(r)
    BY <1>8, <2>2, ArriveStep, ReadStep, StatementStep DEF StepRequest, Served
  <2> QED
    BY <2>1, <2>2
<1>9. ASSUME NEW c \in Console, Reload(c) PROVE InvitesIInv'
  BY <1>9, ReloadStep
<1>10. ASSUME NEW v \in Visitor, EnterAccount(v) PROVE InvitesIInv'
  BY <1>10, EnterAccountStep
<1>11. ASSUME NEW r \in Request, AnswerRequest(r) PROVE InvitesIInv'
  BY <1>11, AnswerStep
<1>12. CASE UNCHANGED inviteVars
  <2>1. InvitesTyped'
    BY <1>12 DEF InvitesIInv, InvitesTyped, inviteVars, Live, Served
  <2> QED
    BY <1>12, <2>1, PostedFrame, PageLinksFrame, WaitingFrame, EmailFrame, AccountsFrame,
       LateFrame, LinksFrame, ScreensFrame, RowFrame, AheadFrame DEF InvitesIInv, inviteVars
<1> QED
  BY <1>1, <1>2, <1>3, <1>4, <1>5, <1>6, <1>7, <1>8, <1>9, <1>10, <1>11, <1>12 DEF InvitesNext, ServeInvites

LEMMA InvitesInvariance == InvitesSpec => []InvitesIInv
BY InitInvitesIInv, StepInvitesIInv, PTL DEF InvitesSpec

----------------------------------------------------------------------------
(* Theorems *)

\* The type invariant follows.
LEMMA InvitesTypes == InvitesIInv => InvitesTypeOK
<1> SUFFICES ASSUME InvitesIInv PROVE InvitesTypeOK
  OBVIOUS
<1> USE DEF InvitesIInv
<1>1. \A i \in Live : invites[i] \in [link : Nat, by : Console, used : BOOLEAN,
                                      revoked : BOOLEAN, expired : BOOLEAN]
  BY LiveRow DEF Live, InviteRow
<1>2. \A r \in Served : req[r].pc \in Stage
  BY ServedCall DEF Served, Call
<1>3. \A v \in Visitor : page[v].screen \in Screen \cup {"none"}
  BY DEF InvitesTyped, Page, NoPage
<1>4. \A c \in Console : \A e \in recent[c] : e.link \in 1..drawn[e.invite]
  <2> SUFFICES ASSUME NEW c \in Console, NEW e \in recent[c]
               PROVE  e.link \in 1..drawn[e.invite]
    OBVIOUS
  <2>1. e.link \in Nat /\ drawn[e.invite] \in Nat
    BY DEF InvitesTyped, Remembrance
  <2> QED
    BY <2>1 DEF Drawn
<1>5. /\ \A a \in accounts : a.by \in Visitor /\ a.invite \in Live
      /\ answered \subseteq Served /\ late \subseteq Served /\ misled \subseteq Visitor
  BY DEF InvitesTyped
<1> QED
  BY <1>1, <1>2, <1>3, <1>4, <1>5 DEF InvitesTypeOK, Stage, Screen

\* Type correctness.
THEOREM InvitesTypeCorrect == InvitesSpec => []InvitesTypeOK
BY InvitesInvariance, InvitesTypes, PTL

\* However many browsers accept invites of one email at once, and whatever is
\* revoked or sent again meanwhile, an invite makes one account at most and its
\* link serves nothing that arrives after it is dead.
THEOREM InvitesSingleUse == InvitesSpec => []InvitesAreSingleUse
<1>1. InvitesIInv => InvitesAreSingleUse
  BY DEF InvitesIInv, InvitesAreSingleUse, DeadLinksStayDead, LateIsSpent
<1> QED
  BY <1>1, InvitesInvariance, PTL

\* Whether answers are lost, late, or given before their commit, the two pages
\* say what is so, but to a browser whose accept failed after its answer; and a
\* page that was given an invite's good link has it, until it is reloaded or has
\* the link replaced.
THEOREM PagesTruthful == InvitesSpec => []PagesTellTheTruth
<1>1. InvitesIInv => PagesTellTheTruth
  BY DEF InvitesIInv, PagesTellTheTruth
<1> QED
  BY <1>1, InvitesInvariance, PTL
=================================================================================
