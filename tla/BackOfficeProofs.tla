---------------------------- MODULE BackOfficeProofs ----------------------------
(***************************************************************************)
(* Widget configurations with the page that edits them, and tenant         *)
(* records, for any number of tenants, admins, sessions and requests.      *)
(*                                                                         *)
(* The audit rows replay because a request that did not overlap wrote over *)
(* what it had read; a session's copy is the server's because the one      *)
(* request it waits for answers with the row it committed.  A record keeps *)
(* the fields nobody touched because a save that saw the last one names    *)
(* in its UPDATE exactly what its admin chose.                             *)
(***************************************************************************)
EXTENDS MCBackOffice, AdminInvitesProofs

(* Widget configurations and the console *)

EndedPut == [pc : {"free", "committed", "failed"}]
SentPut == [pc : {"sent"}, tenant : Tenant, body : Config]
ReadPut == [pc : {"read", "written"}, tenant : Tenant, body : Config,
            previous : SUBSET Origin]
Form == [widget : Tenant, origins : SUBSET Origin, enabled : BOOLEAN,
         theme : Theme \cup {NoTheme}]
Designer == [defaults : BOOLEAN, theme : Theme]

\* What the configurations' variables are.
ConfigsTyped ==
    /\ config \in [Tenant -> Config]
    /\ trail \in [Tenant -> [Origin -> Int]]
    /\ put \in [Put -> EndedPut \cup SentPut \cup ReadPut]

\* What a session's keys are, and that a page on show has its form.
SessionsTyped ==
    /\ user \in [Session -> Admin \cup {Nobody}]
    /\ tab \in [Session -> BOOLEAN]
    /\ saved \in [Session -> Form \cup {NoForm}]
    /\ draft \in [Session -> Config \cup {NoDraft}]
    /\ text \in [Session -> Theme \cup {NoKey, Empty, Garbage}]
    /\ designer \in [Session -> Designer \cup {NoDesigner}]
    /\ call \in [Session -> Put \cup {0}]
    /\ early \in [Session -> Put \cup {0}]
    /\ \A s \in Session : tab[s] => /\ user[s] # Nobody /\ saved[s] # NoForm
                                    /\ draft[s] # NoDraft /\ designer[s] # NoDesigner

Reads(r) == put[r].pc \in {"read", "written"}

\* The server keeps an enabled widget's origins: what passed the check of a
\* request, and what it made of the row.
OriginsKept ==
    /\ \A t \in Tenant : Acceptable(config[t])
    /\ \A r \in Put : Reads(r) => Acceptable(put[r].body)

\* Where requests did not overlap, the one that has read the row has what is
\* still there.
ReadAlone ==
    \A t \in Tenant \ crossed : \A r \in Put : Reads(r) /\ put[r].tenant = t =>
        /\ put[r].previous = config[t].origins
        /\ \A q \in Put \ {r} : Reads(q) => put[q].tenant # t

ServerIInv == ConfigsTyped /\ OriginsKept /\ ReadAlone /\ TrailReplays

\* A session waits with its page on show, for a request in service for which no
\* other session waits.
OneWaits ==
    \A s \in Session : call[s] # 0 =>
        /\ tab[s] /\ InService(call[s])
        /\ \A z \in Session \ {s} : call[z] # call[s]

\* A copy that is ahead of its commit is of a request that has yet to commit it.
EarlyIsToCome ==
    \A s \in Session : early[s] # 0 =>
        /\ put[early[s]].pc = "written"
        /\ saved[s] # NoForm /\ saved[s].widget = put[early[s]].tenant

ConsoleIInv ==
    ServerIInv /\ SessionsTyped /\ OneWaits /\ EarlyIsToCome /\ SavedIsTheServers

(* Records *)

EndedSave == [pc : {"free", "done"}]
SentSave == [pc : {"sent"}, by : Client, base : Record, chosen : SUBSET Field,
             wanted : Record]
ReadSave == [pc : {"read", "written", "answering", "answered"}, by : Client, base : Record,
             chosen : SUBSET Field, wanted : Record, loaded : Record \cup {NoRecord}]

\* What the records' variables are.
RecordsTyped ==
    /\ table \in {"ticket", "settings", "agent"}
    /\ rows \in Seq(Record)
    /\ \A i \in 1..Len(rows) : Takes(rows[i])
    /\ told \in Record /\ last \in Record
    /\ form \in [Client -> Record \cup {NoRecord}]
    /\ save \in [SaveId -> EndedSave \cup SentSave \cup ReadSave]
    /\ overlapped \in BOOLEAN

Loads(s) == save[s].pc \in {"read", "written", "answering", "answered"}
Wrote(s) == save[s].pc \in {"written", "answering", "answered"}

\* A save knows what its admin chose, wrote only what the server takes, and
\* loaded a row only where there is one.
SavesKnow ==
    /\ \A s \in Saving : save[s].chosen = Changed(save[s].wanted, save[s].base)
    /\ \A s \in SaveId : Wrote(s) => Takes(save[s].wanted)
    /\ \A s \in SaveId : Loads(s) /\ ~Inserts(s) => rows # << >>

\* A ticket is there from the start, in its one row.
TicketIsThere ==
    table = "ticket" =>
        /\ Len(rows) = 1
        /\ \A s \in SaveId : Loads(s) => ~Inserts(s)

\* The unique key of the settings, held from the INSERT to the commit.
FirstSettings ==
    table = "settings" =>
        /\ Len(rows) <= 1
        /\ \A s \in SaveId : Wrote(s) /\ Inserts(s) =>
            /\ rows = << >>
            /\ \A t \in SaveId \ {s} : ~(Wrote(t) /\ Inserts(t))

\* Without a row nothing has been chosen.
NothingChosen == rows = << >> => last = Defaults

RecordsIInv ==
    /\ RecordsTyped
    /\ SavesKnow
    /\ TicketIsThere
    /\ FirstSettings
    /\ NothingChosen
    /\ AuditsTellTheTicket
    /\ UntouchedFieldsStay

----------------------------------------------------------------------------
(* Configurations: the server. *)

\* The requests by what they hold.
LEMMA PutKinds ==
  ASSUME ConfigsTyped, NEW r \in Put
  PROVE  /\ InService(r) <=> put[r] \in SentPut \cup ReadPut
         /\ put[r].pc = "sent" <=> put[r] \in SentPut
         /\ Reads(r) <=> put[r] \in ReadPut
         /\ InService(r) => put[r].tenant \in Tenant /\ put[r].body \in Config
         /\ Reads(r) => InService(r) /\ put[r].previous \in SUBSET Origin
BY DEF ConfigsTyped, EndedPut, SentPut, ReadPut, InService, Reads

LEMMA InitServer == ConfigInit => ServerIInv
<1> SUFFICES ASSUME ConfigInit PROVE ServerIInv
  OBVIOUS
<1>1. PICK c \in Config : c.enabled /\ c.origins = {CHOOSE o \in Origin : TRUE}
                          /\ config = [t \in Tenant |-> c]
  BY DEF ConfigInit
<1>2. \A r \in Put : put[r] = [pc |-> "free"] /\ ~Reads(r)
  BY DEF ConfigInit, Reads
<1>3. ConfigsTyped
  BY <1>1, <1>2 DEF ConfigInit, ConfigsTyped, EndedPut
<1>4. OriginsKept /\ ReadAlone
  BY <1>1, <1>2 DEF OriginsKept, ReadAlone, Acceptable
<1>5. TrailReplays
  BY DEF ConfigInit, TrailReplays
<1> QED
  BY <1>3, <1>4, <1>5 DEF ServerIInv

\* A request that does not read, or is over, leaves the others' facts alone.
LEMMA PutEffect ==
  ASSUME ConfigsTyped, NEW r \in Put, NEW p \in EndedPut \cup SentPut \cup ReadPut,
         put' = [put EXCEPT ![r] = p]
  PROVE  /\ put' \in [Put -> EndedPut \cup SentPut \cup ReadPut]
         /\ put'[r] = p /\ \A q \in Put \ {r} : put'[q] = put[q]
         /\ \A q \in Put \ {r} : (Reads(q)' <=> Reads(q)) /\ (InService(q)' <=> InService(q))
BY DEF ConfigsTyped, Reads, InService

LEMMA QuietPut ==
  ASSUME ServerIInv, NEW r \in Put, NEW p \in EndedPut \cup SentPut,
         put' = [put EXCEPT ![r] = p], UNCHANGED <<config, trail, crossed>>
  PROVE  ServerIInv'
<1> USE DEF ServerIInv
<1>1. /\ put' \in [Put -> EndedPut \cup SentPut \cup ReadPut]
      /\ put'[r] = p /\ \A q \in Put \ {r} : put'[q] = put[q]
      /\ \A q \in Put \ {r} : Reads(q)' <=> Reads(q)
  BY PutEffect
<1>2. ~Reads(r)'
  BY <1>1 DEF EndedPut, SentPut, Reads
<1>3. ConfigsTyped'
  BY <1>1 DEF ConfigsTyped
<1>4. OriginsKept'
  BY <1>1, <1>2 DEF OriginsKept
<1>5. ReadAlone'
  BY <1>1, <1>2 DEF ReadAlone
<1>6. TrailReplays'
  BY DEF TrailReplays
<1> QED
  BY <1>3, <1>4, <1>5, <1>6

LEMMA SendPutStep ==
  ASSUME ServerIInv, NEW r \in Put, NEW t \in Tenant, NEW b \in Config, SendPut(r, t, b)
  PROVE  ServerIInv'
<1>1. [pc |-> "sent", tenant |-> t, body |-> b] \in SentPut
  BY DEF SentPut
<1> QED
  BY <1>1, QuietPut DEF SendPut

LEMMA EndPutStep ==
  ASSUME ServerIInv, NEW r \in Put, EndPut(r)
  PROVE  ServerIInv'
<1>1. [pc |-> "failed"] \in EndedPut
  BY DEF EndedPut
<1> QED
  BY <1>1, QuietPut DEF EndPut, PutDone

\* Whoever reads beside another request marks the tenant.
LEMMA ReadPreviousStep ==
  ASSUME ServerIInv, NEW r \in Put, ReadPrevious(r)
  PROVE  ServerIInv'
<1> USE DEF ServerIInv
<1> DEFINE t == put[r].tenant
           p == [pc |-> "read", tenant |-> t, body |-> put[r].body,
                 previous |-> config[t].origins]
<1>1. /\ put[r] \in SentPut /\ t \in Tenant /\ put[r].body \in Config
      /\ Acceptable(put[r].body) /\ ~Reads(r)
  BY PutKinds DEF ReadPrevious, Reads, SentPut
<1>2. config[t] \in Config /\ config[t].origins \in SUBSET Origin
  BY <1>1 DEF ConfigsTyped, Config
<1>3. p \in ReadPut /\ p.tenant = t /\ p.body = put[r].body /\ p.previous = config[t].origins
  BY <1>1, <1>2 DEF ReadPut
<1>4. put' = [put EXCEPT ![r] = p]
  BY DEF ReadPrevious, ConfigsTyped
<1> HIDE DEF t, p
<1>5. /\ put' \in [Put -> EndedPut \cup SentPut \cup ReadPut]
      /\ put'[r] = p /\ \A q \in Put \ {r} : put'[q] = put[q]
      /\ \A q \in Put \ {r} : Reads(q)' <=> Reads(q)
  BY <1>3, <1>4, PutEffect
<1>6. ConfigsTyped'
  BY <1>5 DEF ConfigsTyped, ReadPrevious
<1>7. OriginsKept'
  BY <1>1, <1>3, <1>5 DEF OriginsKept, ReadPrevious
<1>8. crossed \subseteq crossed'
      /\ (t \notin crossed' => \A q \in Put \ {r} : Reads(q) => put[q].tenant # t)
  BY DEF ReadPrevious, Reads, t
<1>9. ReadAlone'
  <2> SUFFICES ASSUME NEW z \in Tenant, z \notin crossed', NEW q \in Put, Reads(q)',
                      put'[q].tenant = z
               PROVE  /\ put'[q].previous = config'[z].origins
                      /\ \A o \in Put \ {q} : Reads(o)' => put'[o].tenant # z
    BY DEF ReadAlone
  <2>1. z \notin crossed
    BY <1>8
  <2>2. CASE q = r
    BY <2>2, <1>3, <1>5, <1>8 DEF ReadPrevious
  <2>3. CASE q # r
    <3>1. Reads(q) /\ put[q].tenant = z
      BY <2>3, <1>5
    <3>2. z # t
      BY <1>8, <2>3, <3>1
    <3> QED
      BY <2>1, <2>3, <3>1, <3>2, <1>3, <1>5 DEF ReadAlone, ReadPrevious
  <2> QED
    BY <2>2, <2>3
<1>10. TrailReplays'
  BY <1>8 DEF TrailReplays, ReadPrevious
<1> QED
  BY <1>6, <1>7, <1>9, <1>10

LEMMA WriteRowStep ==
  ASSUME ServerIInv, NEW r \in Put, WriteRow(r)
  PROVE  ServerIInv'
<1> USE DEF ServerIInv
<1> DEFINE p == [put[r] EXCEPT !.pc = "written"]
<1>1. put[r] \in ReadPut /\ Reads(r)
  BY PutKinds DEF WriteRow, Reads
<1>2. /\ p \in ReadPut /\ p.pc = "written" /\ p.tenant = put[r].tenant
      /\ p.body = put[r].body /\ p.previous = put[r].previous
  BY <1>1 DEF ReadPut
<1>3. put' = [put EXCEPT ![r] = p] /\ UNCHANGED <<config, trail, crossed>>
  BY DEF WriteRow, ConfigsTyped
<1> HIDE DEF p
<1>4. /\ put' \in [Put -> EndedPut \cup SentPut \cup ReadPut]
      /\ put'[r] = p /\ \A q \in Put \ {r} : put'[q] = put[q]
      /\ \A q \in Put \ {r} : Reads(q)' <=> Reads(q)
  BY <1>2, <1>3, PutEffect
<1>5. \A q \in Put : /\ Reads(q)' <=> Reads(q)
                     /\ Reads(q) => /\ put'[q].tenant = put[q].tenant
                                    /\ put'[q].body = put[q].body
                                    /\ put'[q].previous = put[q].previous
  BY <1>1, <1>2, <1>4 DEF Reads
<1>6. ConfigsTyped'
  BY <1>3, <1>4 DEF ConfigsTyped
<1>7. OriginsKept' /\ ReadAlone'
  BY <1>3, <1>5 DEF OriginsKept, ReadAlone
<1>8. TrailReplays'
  BY <1>3 DEF TrailReplays
<1> QED
  BY <1>6, <1>7, <1>8

\* The commit writes over what the request had read, where nothing overlapped:
\* one audit row for every origin that differs.
LEMMA CommitPutStep ==
  ASSUME ServerIInv, NEW r \in Put, CommitPut(r)
  PROVE  ServerIInv'
<1> USE DEF ServerIInv
<1> DEFINE t == put[r].tenant
           b == put[r].body
<1>1. /\ Reads(r) /\ t \in Tenant /\ b \in Config /\ Acceptable(b)
      /\ put[r].previous \in SUBSET Origin
  BY PutKinds DEF CommitPut, Reads, OriginsKept
<1>2. /\ config' = [config EXCEPT ![t] = b] /\ crossed' = crossed
      /\ put' = [put EXCEPT ![r] = [pc |-> "committed"]]
      /\ trail' = Audited(r)
  BY DEF CommitPut, PutDone
<1>3. /\ config'[t] = b /\ \A z \in Tenant \ {t} : config'[z] = config[z]
      /\ config' \in [Tenant -> Config]
  BY <1>1, <1>2 DEF ConfigsTyped
<1>4. /\ put' \in [Put -> EndedPut \cup SentPut \cup ReadPut] /\ ~Reads(r)'
      /\ \A q \in Put \ {r} : put'[q] = put[q]
      /\ \A q \in Put \ {r} : Reads(q)' <=> Reads(q)
  <2>1. [pc |-> "committed"] \in EndedPut
    BY DEF EndedPut
  <2>2. put'[r] = [pc |-> "committed"]
    BY <1>2 DEF ConfigsTyped
  <2> QED
    BY <1>2, <2>1, <2>2, PutEffect DEF Reads
<1>5. \A z \in Tenant, o \in Origin :
        trail'[z][o] = trail[z][o] + (IF z # t THEN 0
                                      ELSE IF o \in b.origins \ put[r].previous THEN 1
                                      ELSE IF o \in put[r].previous \ b.origins THEN -1 ELSE 0)
  BY <1>1, <1>2 DEF Audited, ConfigsTyped
<1>6. trail' \in [Tenant -> [Origin -> Int]]
  BY <1>1, <1>2 DEF Audited, ConfigsTyped
<1> HIDE DEF t, b
<1>7. ConfigsTyped'
  BY <1>3, <1>4, <1>6 DEF ConfigsTyped
<1>8. OriginsKept'
  BY <1>1, <1>3, <1>4 DEF OriginsKept
<1>9. ReadAlone'
  <2> SUFFICES ASSUME NEW z \in Tenant, z \notin crossed, NEW q \in Put, Reads(q)',
                      put'[q].tenant = z
               PROVE  /\ put'[q].previous = config'[z].origins
                      /\ \A o \in Put \ {q} : Reads(o)' => put'[o].tenant # z
    BY <1>2 DEF ReadAlone
  <2>1. q # r /\ put'[q] = put[q] /\ Reads(q) /\ put[q].tenant = z
    BY <1>4
  <2>2. z # t
    BY <1>1, <2>1 DEF ReadAlone, t
  <2> QED
    BY <1>3, <1>4, <2>1, <2>2 DEF ReadAlone
<1>10. TrailReplays'
  <2> SUFFICES ASSUME NEW z \in Tenant, z \notin crossed, NEW o \in Origin
               PROVE  trail'[z][o] = IF o \in config'[z].origins THEN 1 ELSE 0
    BY <1>2 DEF TrailReplays
  <2>1. trail[z][o] = IF o \in config[z].origins THEN 1 ELSE 0
    BY DEF TrailReplays
  <2>2. CASE z # t
    BY <1>3, <1>5, <2>1, <2>2
  <2>3. CASE z = t
    <3>1. put[r].previous = config[t].origins
      BY <1>1, <2>3 DEF ReadAlone, t
    <3> QED
      BY <1>3, <1>5, <2>1, <2>3, <3>1
  <2> QED
    BY <2>2, <2>3
<1> QED
  BY <1>7, <1>8, <1>9, <1>10

(* The console: what a run of the script leaves. *)

\* A saved copy gives a configuration, a fetched row a saved copy of it.
LEMMA FormFields ==
  /\ \A f \in Form : Fields(f) \in Config /\ f # NoForm
  /\ \A c \in Config, t \in Tenant :
        LET f == [widget |-> t, origins |-> c.origins, enabled |-> c.enabled, theme |-> c.theme]
        IN  f \in Form /\ Fields(f) = c
  /\ \A c \in Config : c # NoDraft
  /\ \A d \in Designer : d # NoDesigner
BY DEF Form, Fields, Config, NoForm, NoDraft, Designer, NoDesigner

\* The theme in the text and in the designer is a theme, or none.
LEMMA Themes ==
  /\ \A z \in Theme \cup {NoTheme} : SeedText(z) \in Theme \cup {Empty}
  /\ \A z \in Theme \cup {NoTheme} : SeedDesigner(z) \in Designer
  /\ \A d \in Designer : \A t : Effective(d, t) \in Theme \cup {NoTheme}
<1>1. (CHOOSE t \in Theme : TRUE) \in Theme
  BY ConsoleAssumption
<1> QED
  BY <1>1 DEF SeedText, SeedDesigner, Effective, Designer

\* The keys behind the page, with their types.
KeysTyped ==
    /\ saved \in [Session -> Form \cup {NoForm}]
    /\ draft \in [Session -> Config \cup {NoDraft}]
    /\ text \in [Session -> Theme \cup {NoKey, Empty, Garbage}]
    /\ designer \in [Session -> Designer \cup {NoDesigner}]

LEMMA RenderedEffect ==
  ASSUME SessionsTyped, NEW s \in Session, NEW sv \in Form, NEW c \in Config,
         NEW t \in Theme \cup {NoKey, Empty, Garbage}, NEW d \in Designer,
         Rendered(s, sv, c, t, d)
  PROVE  /\ KeysTyped'
         /\ saved'[s] = sv
         /\ saved'[s] # NoForm /\ draft'[s] # NoDraft /\ designer'[s] # NoDesigner
         /\ \A z \in Session \ {s} : /\ saved'[z] = saved[z] /\ draft'[z] = draft[z]
                                     /\ designer'[z] = designer[z]
<1> DEFINE e == [c EXCEPT !.theme = Effective(d, t)]
<1>1. e \in Config
  BY Themes DEF Config
<1>2. /\ saved' = [saved EXCEPT ![s] = sv] /\ draft' = [draft EXCEPT ![s] = e]
      /\ text' = [text EXCEPT ![s] = t] /\ designer' = [designer EXCEPT ![s] = d]
  BY DEF Rendered, At
<1> HIDE DEF e
<1>3. e # NoDraft /\ sv # NoForm /\ d # NoDesigner
  BY <1>1, FormFields
<1>4. KeysTyped'
  BY <1>1, <1>2 DEF KeysTyped, SessionsTyped
<1> QED
  BY <1>2, <1>3, <1>4 DEF SessionsTyped

\* A session whose page is on show has every key.
LEMMA PageOnShow ==
  ASSUME SessionsTyped, NEW s \in Session, tab[s]
  PROVE  /\ user[s] \in Admin /\ TenantOf[user[s]] \in Tenant
         /\ saved[s] \in Form /\ draft[s] \in Config /\ designer[s] \in Designer
BY ConsoleAssumption DEF SessionsTyped

\* Its keys change, nothing else: what was saved stays.
LEMMA PageChanges ==
  ASSUME ConsoleIInv, NEW s \in Session, tab[s], NEW c \in Config,
         NEW t \in Theme \cup {NoKey, Empty, Garbage}, NEW d \in Designer,
         Rendered(s, saved[s], c, t, d),
         UNCHANGED <<configVars, user, tab, call, early, overtaken>>
  PROVE  ConsoleIInv'
<1> USE DEF ConsoleIInv
<1>1. saved[s] \in Form
  BY PageOnShow
<1>2. /\ KeysTyped'
      /\ saved'[s] = saved[s]
      /\ saved'[s] # NoForm /\ draft'[s] # NoDraft /\ designer'[s] # NoDesigner
      /\ \A z \in Session \ {s} : /\ saved'[z] = saved[z] /\ draft'[z] = draft[z]
                                  /\ designer'[z] = designer[z]
  BY <1>1, RenderedEffect
<1>3. SessionsTyped'
  BY <1>2 DEF SessionsTyped, KeysTyped
<1>4. ServerIInv' /\ OneWaits'
  BY DEF configVars, ServerIInv, ConfigsTyped, OriginsKept, ReadAlone, TrailReplays, Reads,
         OneWaits, InService
<1>5. SavedIsTheServers' /\ EarlyIsToCome'
  BY <1>2 DEF SavedIsTheServers, EarlyIsToCome, configVars
<1> QED
  BY <1>3, <1>4, <1>5

(* The console: its actions. *)

\* Nothing of the server or of a saved copy changes.
LEMMA SessionOnly ==
  ASSUME ConsoleIInv, SessionsTyped', UNCHANGED <<configVars, saved, early, overtaken>>,
         \A s \in Session : call'[s] # 0 => call'[s] = call[s] /\ tab'[s]
  PROVE  ConsoleIInv'
<1> USE DEF ConsoleIInv
<1>1. ServerIInv'
  BY DEF configVars, ServerIInv, ConfigsTyped, OriginsKept, ReadAlone, TrailReplays, Reads
<1>2. OneWaits'
  BY DEF configVars, OneWaits, InService
<1>3. SavedIsTheServers' /\ EarlyIsToCome'
  BY DEF SavedIsTheServers, EarlyIsToCome, configVars
<1> QED
  BY <1>1, <1>2, <1>3

LEMMA SignInStep ==
  ASSUME ConsoleIInv, NEW s \in Session, NEW z \in Admin, SignIn(s, z)
  PROVE  ConsoleIInv'
<1>1. SessionsTyped'
  BY DEF ConsoleIInv, SessionsTyped, SignIn, At, formVars
<1> QED
  BY <1>1, SessionOnly DEF SignIn, formVars, ConsoleIInv, OneWaits

LEMMA LeaveStep ==
  ASSUME ConsoleIInv, NEW s \in Session, SignOut(s) \/ LeaveTab(s)
  PROVE  ConsoleIInv'
<1>1. SessionsTyped'
  BY DEF ConsoleIInv, SessionsTyped, SignOut, LeaveTab, DropWidgets, At
<1> QED
  BY <1>1, SessionOnly DEF SignOut, LeaveTab, At, Idle, ConsoleIInv, OneWaits, SessionsTyped

LEMMA GiveUpStep ==
  ASSUME ConsoleIInv, NEW s \in Session, GiveUp(s)
  PROVE  ConsoleIInv'
<1>1. SessionsTyped'
  BY DEF ConsoleIInv, SessionsTyped, GiveUp, Refused, At, formVars
<1> QED
  BY <1>1, SessionOnly
  DEF GiveUp, Refused, formVars, At, ConsoleIInv, OneWaits, SessionsTyped

LEMMA EditStep ==
  ASSUME ConsoleIInv, NEW s \in Session, Edit(s)
  PROVE  ConsoleIInv'
<1>1. /\ tab[s] /\ draft[s] \in Config /\ designer[s] \in Designer
      /\ text[s] \in Theme \cup {NoKey, Empty, Garbage}
      /\ UNCHANGED <<configVars, user, tab, call, early, overtaken>>
  BY PageOnShow DEF Edit, ConsoleIInv, SessionsTyped
<1>2. PICK c \in Config, t \in Theme \cup {NoKey, Empty, Garbage}, d \in Designer :
        Rendered(s, saved[s], c, t, d)
  <2>1. ASSUME NEW o \in Origin,
               Rendered(s, saved[s],
                 [draft[s] EXCEPT !.origins = IF o \in @ THEN @ \ {o} ELSE @ \cup {o}],
                 text[s], designer[s])
        PROVE  \E c \in Config, t \in Theme \cup {NoKey, Empty, Garbage}, d \in Designer :
                 Rendered(s, saved[s], c, t, d)
    <3>1. [draft[s] EXCEPT !.origins = IF o \in @ THEN @ \ {o} ELSE @ \cup {o}] \in Config
      BY <1>1 DEF Config
    <3> QED
      BY <1>1, <2>1, <3>1
  <2>2. ASSUME Rendered(s, saved[s], [draft[s] EXCEPT !.enabled = ~@], text[s], designer[s])
        PROVE  \E c \in Config, t \in Theme \cup {NoKey, Empty, Garbage}, d \in Designer :
                 Rendered(s, saved[s], c, t, d)
    <3>1. [draft[s] EXCEPT !.enabled = ~@] \in Config
      BY <1>1 DEF Config
    <3> QED
      BY <1>1, <2>2, <3>1
  <2> QED
    BY <1>1, <2>1, <2>2 DEF Edit, Designer
<1> QED
  BY <1>1, <1>2, PageChanges

LEMMA DiscardStep ==
  ASSUME ConsoleIInv, NEW s \in Session, Discard(s)
  PROVE  ConsoleIInv'
<1>1. /\ tab[s] /\ saved[s] \in Form /\ draft[s] \in Config /\ designer[s] \in Designer
      /\ UNCHANGED <<configVars, user, tab, call, early, overtaken>>
  BY PageOnShow DEF Discard, ConsoleIInv
<1>2. PICK e \in {saved[s].enabled, draft[s].enabled} :
        Rendered(s, saved[s], [Fields(saved[s]) EXCEPT !.enabled = e],
                 SeedText(saved[s].theme), designer[s])
  BY DEF Discard
<1>3. [Fields(saved[s]) EXCEPT !.enabled = e] \in Config
  BY <1>1, FormFields DEF Config, Form
<1>4. SeedText(saved[s].theme) \in Theme \cup {NoKey, Empty, Garbage}
  BY <1>1, Themes DEF Form
<1> QED
  BY <1>1, <1>2, <1>3, <1>4, PageChanges

\* A first look at the page fetches the committed row.
LEMMA OpenTabStep ==
  ASSUME ConsoleIInv, NEW s \in Session, OpenTab(s)
  PROVE  ConsoleIInv'
<1> USE DEF ConsoleIInv
<1> DEFINE sv == IF saved[s] = NoForm THEN Fetched(TenantOf[user[s]]) ELSE saved[s]
           c == IF draft[s] = NoDraft THEN Fields(sv) ELSE draft[s]
<1>1. user[s] # Nobody /\ TenantOf[user[s]] \in Tenant /\ ~tab[s]
  BY ConsoleAssumption DEF OpenTab, SessionsTyped
<1>2. /\ sv \in Form
      /\ saved[s] = NoForm => Fields(sv) = config[sv.widget]
  <2>1. config[TenantOf[user[s]]] \in Config
    BY <1>1 DEF ServerIInv, ConfigsTyped
  <2>2. Fetched(TenantOf[user[s]]) \in Form
        /\ Fields(Fetched(TenantOf[user[s]])) = config[TenantOf[user[s]]]
        /\ Fetched(TenantOf[user[s]]).widget = TenantOf[user[s]]
    BY <1>1, <2>1, FormFields DEF Fetched
  <2>3. saved[s] # NoForm => saved[s] \in Form
    BY DEF SessionsTyped
  <2> QED
    BY <2>2, <2>3
<1>3. c \in Config
  BY <1>2, FormFields DEF SessionsTyped
<1>4. /\ SeedText(sv.theme) \in Theme \cup {NoKey, Empty, Garbage}
      /\ SeedDesigner(sv.theme) \in Designer
  BY <1>2, Themes DEF Form
<1>5. /\ Rendered(s, sv, c, SeedText(sv.theme), SeedDesigner(sv.theme))
      /\ tab' = [tab EXCEPT ![s] = TRUE]
      /\ overtaken' = IF saved[s] = NoForm THEN overtaken \ {s} ELSE overtaken
      /\ UNCHANGED <<configVars, user, call, early, budget>>
  BY DEF OpenTab, At
<1>6. saved[s] # NoForm => sv = saved[s]
  OBVIOUS
<1> HIDE DEF sv, c
<1>7. /\ KeysTyped'
      /\ saved'[s] = sv
      /\ saved'[s] # NoForm /\ draft'[s] # NoDraft /\ designer'[s] # NoDesigner
      /\ \A z \in Session \ {s} : /\ saved'[z] = saved[z] /\ draft'[z] = draft[z]
                                  /\ designer'[z] = designer[z]
  BY <1>2, <1>3, <1>4, <1>5, RenderedEffect
<1>8. SessionsTyped'
  BY <1>1, <1>5, <1>7 DEF SessionsTyped, KeysTyped
<1>9. ServerIInv'
  BY <1>5 DEF configVars, ServerIInv, ConfigsTyped, OriginsKept, ReadAlone, TrailReplays, Reads
<1>10. OneWaits'
  BY <1>5 DEF configVars, OneWaits, InService, SessionsTyped
<1>11. EarlyIsToCome'
  BY <1>5, <1>6, <1>7 DEF EarlyIsToCome, configVars
<1>12. SavedIsTheServers'
  <2> SUFFICES ASSUME NEW z \in Session, z \notin overtaken', saved'[z] # NoForm
               PROVE  Fields(saved'[z]) = IF early[z] # 0 THEN put[early[z]].body
                                          ELSE config[saved'[z].widget]
    BY <1>5 DEF SavedIsTheServers, configVars
  <2>1. CASE z = s /\ saved[s] = NoForm
    BY <1>2, <1>7, <2>1 DEF EarlyIsToCome
  <2>2. CASE ~(z = s /\ saved[s] = NoForm)
    BY <1>5, <1>6, <1>7, <2>2 DEF SavedIsTheServers
  <2> QED
    BY <2>1, <2>2
<1> QED
  BY <1>8, <1>9, <1>10, <1>11, <1>12

\* The request is a fresh one, for which nobody waits.
LEMMA SaveStep ==
  ASSUME ConsoleIInv, NEW s \in Session, Save(s)
  PROVE  ConsoleIInv'
<1> USE DEF ConsoleIInv
<1>1. /\ tab[s] /\ TenantOf[user[s]] \in Tenant /\ draft[s] \in Config
  BY PageOnShow DEF Save
<1>2. PICK r \in Put : SendPut(r, TenantOf[user[s]], draft[s]) /\ call' = At(call, s, r)
  BY DEF Save
<1>3. ServerIInv'
  BY <1>1, <1>2, SendPutStep
<1>4. SessionsTyped'
  BY <1>2 DEF Save, SessionsTyped, formVars, At
<1>5. ~InService(r) /\ InService(r)'
      /\ \A q \in Put \ {r} : InService(q)' <=> InService(q)
  BY <1>2 DEF SendPut, Free, InService, ServerIInv, ConfigsTyped
<1>6. OneWaits'
  <2>1. /\ call'[s] = r /\ \A z \in Session \ {s} : call'[z] = call[z]
        /\ tab' = tab
    BY <1>2 DEF Save, At, SessionsTyped
  <2>2. \A z \in Session : call[z] # r /\ (call[z] # 0 => call[z] \in Put)
    BY <1>5, ConsoleAssumption DEF OneWaits, SessionsTyped
  <2> QED
    BY <1>1, <1>5, <2>1, <2>2 DEF OneWaits
<1>7. /\ UNCHANGED <<saved, early, config, overtaken>>
      /\ \A z \in Session : early[z] # 0 => put'[early[z]] = put[early[z]]
  <2>1. /\ UNCHANGED <<saved, early, config, overtaken>>
        /\ put[r].pc = "free" /\ \A q \in Put \ {r} : put'[q] = put[q]
    BY <1>2 DEF Save, SendPut, Free, formVars, ServerIInv, ConfigsTyped
  <2> QED
    BY <2>1 DEF EarlyIsToCome, SessionsTyped
<1>8. SavedIsTheServers' /\ EarlyIsToCome'
  BY <1>7 DEF SavedIsTheServers, EarlyIsToCome
<1> QED
  BY <1>3, <1>4, <1>6, <1>8

LEMMA StepStep ==
  ASSUME ConsoleIInv, NEW r \in Put, Step(r)
  PROVE  ConsoleIInv'
<1> USE DEF ConsoleIInv
<1>1. ServerIInv'
  BY ReadPreviousStep, WriteRowStep DEF Step
<1>2. \A q \in Put : InService(q) => InService(q)'
  BY DEF Step, ReadPrevious, WriteRow, InService, ServerIInv, ConfigsTyped, EndedPut, SentPut,
         ReadPut
<1>3. SessionsTyped'
  BY DEF Step, SessionsTyped, formVars
<1>4. OneWaits'
  BY <1>2 DEF Step, OneWaits, SessionsTyped
<1>5. /\ UNCHANGED <<saved, early, config, overtaken>>
      /\ \A z \in Session : early[z] # 0 => put'[early[z]] = put[early[z]]
  <2>1. /\ UNCHANGED <<saved, early, config, overtaken>>
        /\ put[r].pc # "written" /\ \A q \in Put \ {r} : put'[q] = put[q]
    BY DEF Step, ReadPrevious, WriteRow, formVars, ServerIInv, ConfigsTyped
  <2> QED
    BY <2>1 DEF EarlyIsToCome, SessionsTyped
<1>6. SavedIsTheServers' /\ EarlyIsToCome'
  BY <1>5 DEF SavedIsTheServers, EarlyIsToCome
<1> QED
  BY <1>1, <1>3, <1>4, <1>6

\* Once a request is over nobody waits for it, since one session did at most.
LEMMA AnswerGiven ==
  ASSUME OneWaits, SessionsTyped, NEW r \in Put, tab' = tab,
         \A q \in Put \ {r} : InService(q)' <=> InService(q),
         \/ call' = call /\ \A s \in Session : call[s] # r
         \/ \E s \in Session : call[s] = r /\ call' = [call EXCEPT ![s] = 0]
  PROVE  OneWaits' /\ call' \in [Session -> Put \cup {0}]
<1>1. \A s \in Session : call'[s] # 0 => call'[s] = call[s] /\ call[s] # r
  BY ConsoleAssumption DEF OneWaits, SessionsTyped
<1>2. call' \in [Session -> Put \cup {0}]
  BY DEF SessionsTyped
<1> QED
  BY <1>1, <1>2 DEF OneWaits, SessionsTyped

LEMMA RefuseStep ==
  ASSUME ConsoleIInv, NEW r \in Put, Refuse(r)
  PROVE  ConsoleIInv'
<1> USE DEF ConsoleIInv
<1>1. ServerIInv'
  BY EndPutStep DEF Refuse
<1>2. \A q \in Put \ {r} : InService(q)' <=> InService(q)
  BY DEF Refuse, EndPut, PutDone, InService, ServerIInv, ConfigsTyped
<1>3. /\ \/ call' = call /\ \A s \in Session : call[s] # r
         \/ \E s \in Session : call[s] = r /\ call' = [call EXCEPT ![s] = 0]
      /\ UNCHANGED <<user, tab, saved, draft, text, designer, config>>
      /\ overtaken' = overtaken \cup AheadOf(r)
      /\ early' = [s \in Session |-> IF s \in AheadOf(r) THEN 0 ELSE early[s]]
      /\ \A q \in Put \ {r} : put'[q] = put[q]
  BY DEF Refuse, Refused, formVars, At, Settled, EndPut, PutDone, ServerIInv, ConfigsTyped
<1>4. OneWaits' /\ SessionsTyped'
  BY <1>2, <1>3, AnswerGiven DEF SessionsTyped
<1>5. \A z \in Session : /\ z \in AheadOf(r) => early'[z] = 0
                         /\ z \notin AheadOf(r) => early'[z] = early[z]
                         /\ early'[z] # 0 => put'[early'[z]] = put[early[z]]
  BY <1>3 DEF AheadOf, SessionsTyped
<1>6. EarlyIsToCome'
  BY <1>3, <1>5 DEF EarlyIsToCome
<1>7. SavedIsTheServers'
  BY <1>3, <1>5 DEF SavedIsTheServers
<1> QED
  BY <1>1, <1>4, <1>6, <1>7

\* An answer: the session that waits takes the row as its request wrote it.
LEMMA ReplyEffect ==
  ASSUME ConsoleIInv, NEW r \in Put, InService(r), NEW s \in Session, call[s] = r,
         Reply(s, Written(r)), call' = At(call, s, 0), UNCHANGED <<user, tab>>,
         \A q \in Put \ {r} : InService(q)' <=> InService(q)
  PROVE  /\ KeysTyped' /\ OneWaits' /\ call' \in [Session -> Put \cup {0}]
         /\ saved'[s] # NoForm /\ saved'[s].widget = put[r].tenant
         /\ Fields(saved'[s]) = put[r].body
         /\ \A z \in Session : tab'[z] => /\ user'[z] # Nobody /\ saved'[z] # NoForm
                                          /\ draft'[z] # NoDraft /\ designer'[z] # NoDesigner
         /\ \A z \in Session \ {s} : saved'[z] = saved[z] /\ call[z] # r
<1> USE DEF ConsoleIInv
<1> DEFINE sv == Written(r)
<1>1. put[r].tenant \in Tenant /\ put[r].body \in Config
  BY PutKinds DEF ServerIInv
<1>2. /\ sv \in Form /\ Fields(sv) = put[r].body /\ sv.widget = put[r].tenant
      /\ sv.theme \in Theme \cup {NoTheme}
  BY <1>1, FormFields DEF Form, Written
<1>3. call[s] # 0 /\ tab[s] /\ \A z \in Session \ {s} : call[z] # r
  BY ConsoleAssumption DEF OneWaits
<1>4. designer[s] \in Designer
  BY <1>3, PageOnShow
<1>5. /\ SeedText(sv.theme) \in Theme \cup {NoKey, Empty, Garbage}
      /\ Fields(sv) \in Config
  BY <1>1, <1>2, Themes
<1> HIDE DEF sv
<1>6. /\ KeysTyped'
      /\ saved'[s] = sv
      /\ saved'[s] # NoForm /\ draft'[s] # NoDraft /\ designer'[s] # NoDesigner
      /\ \A z \in Session \ {s} : /\ saved'[z] = saved[z] /\ draft'[z] = draft[z]
                                  /\ designer'[z] = designer[z]
  BY <1>2, <1>4, <1>5, RenderedEffect DEF Reply, sv
<1>7. OneWaits' /\ call' \in [Session -> Put \cup {0}]
  <2>1. \A z \in Session : call'[z] # 0 => call'[z] = call[z] /\ call[z] # r
    BY <1>3 DEF At, SessionsTyped
  <2>2. call' \in [Session -> Put \cup {0}]
    BY DEF At, SessionsTyped
  <2> QED
    BY <2>1, <2>2 DEF OneWaits, SessionsTyped
<1> QED
  BY <1>2, <1>3, <1>6, <1>7 DEF SessionsTyped

LEMMA AnswerPutStep ==
  ASSUME ConsoleIInv, NEW r \in Put, AnswerPut(r)
  PROVE  ConsoleIInv'
<1> USE DEF ConsoleIInv
<1>1. PICK s \in Session : /\ call[s] = r /\ Reply(s, Written(r)) /\ call' = At(call, s, 0)
                          /\ early' = At(early, s, r) /\ overtaken' = overtaken \ {s}
  BY DEF AnswerPut
<1>2. UNCHANGED <<configVars, user, tab>> /\ put[r].pc = "written" /\ InService(r)
  BY DEF AnswerPut, InService
<1>3. ServerIInv'
  BY <1>2 DEF configVars, ServerIInv, ConfigsTyped, OriginsKept, ReadAlone, TrailReplays, Reads
<1>4. \A q \in Put : InService(q)' <=> InService(q)
  BY <1>2 DEF InService, configVars
<1>5. /\ KeysTyped' /\ OneWaits' /\ call' \in [Session -> Put \cup {0}]
      /\ saved'[s] # NoForm /\ saved'[s].widget = put[r].tenant
      /\ Fields(saved'[s]) = put[r].body
      /\ \A z \in Session : tab'[z] => /\ user'[z] # Nobody /\ saved'[z] # NoForm
                                       /\ draft'[z] # NoDraft /\ designer'[z] # NoDesigner
      /\ \A z \in Session \ {s} : saved'[z] = saved[z] /\ call[z] # r
  BY <1>1, <1>2, <1>4, ReplyEffect
<1>6. /\ early' \in [Session -> Put \cup {0}] /\ early'[s] = r
      /\ \A z \in Session \ {s} : early'[z] = early[z]
  BY <1>1 DEF At, SessionsTyped
<1>7. SessionsTyped'
  BY <1>2, <1>5, <1>6 DEF SessionsTyped, KeysTyped
<1>8. EarlyIsToCome'
  BY <1>2, <1>5, <1>6 DEF EarlyIsToCome, configVars
<1>9. SavedIsTheServers'
  <2> SUFFICES ASSUME NEW z \in Session, z \notin overtaken', saved'[z] # NoForm
               PROVE  Fields(saved'[z]) = IF early'[z] # 0 THEN put[early'[z]].body
                                          ELSE config[saved'[z].widget]
    BY <1>2 DEF SavedIsTheServers, configVars
  <2>1. CASE z = s
    BY <1>5, <1>6, <2>1, ConsoleAssumption
  <2>2. CASE z # s
    BY <1>1, <1>5, <1>6, <2>2 DEF SavedIsTheServers
  <2> QED
    BY <2>1, <2>2
<1> QED
  BY <1>3, <1>5, <1>7, <1>8, <1>9

\* The session that waits takes the row as its request wrote it, one that was
\* answered before has it; the other copies of that tenant are marked.
LEMMA ConsoleCommitStep ==
  ASSUME ConsoleIInv, NEW r \in Put, Commit(r)
  PROVE  ConsoleIInv'
<1> USE DEF ConsoleIInv
<1> DEFINE t == put[r].tenant
           b == put[r].body
           heard == Awaiting(r) \cup AheadOf(r)
<1>1. ServerIInv'
  BY CommitPutStep DEF Commit
<1>2. /\ t \in Tenant /\ b \in Config /\ config' = [config EXCEPT ![t] = b]
      /\ InService(r) /\ \A q \in Put \ {r} : InService(q)' <=> InService(q)
      /\ \A q \in Put \ {r} : put'[q] = put[q]
  BY PutKinds DEF Commit, CommitPut, PutDone, InService, ServerIInv, ConfigsTyped
<1>3. /\ config'[t] = b /\ \A z \in Tenant \ {t} : config'[z] = config[z]
  BY <1>2 DEF ServerIInv, ConfigsTyped
<1>4. /\ overtaken' = (overtaken \ Awaiting(r)) \cup {s \in Session \ heard : saved[s].widget = t}
      /\ early' = [s \in Session |-> IF s \in heard THEN 0 ELSE early[s]]
      /\ UNCHANGED <<user, tab, budget>>
      /\ IF Awaiting(r) = {} THEN UNCHANGED <<saved, draft, text, designer, call>>
         ELSE \E s \in Awaiting(r) : Reply(s, Written(r)) /\ call' = At(call, s, 0)
  BY DEF Commit, Settled, formVars
\* What the sessions have then.
<1>5. /\ KeysTyped' /\ OneWaits' /\ call' \in [Session -> Put \cup {0}]
      /\ \A z \in Session : tab'[z] => /\ user'[z] # Nobody /\ saved'[z] # NoForm
                                       /\ draft'[z] # NoDraft /\ designer'[z] # NoDesigner
      /\ \A z \in Awaiting(r) : saved'[z].widget = t /\ Fields(saved'[z]) = b
      /\ \A z \in Session \ Awaiting(r) : saved'[z] = saved[z]
  <2>1. CASE Awaiting(r) = {}
    <3>1. UNCHANGED <<saved, draft, text, designer, call, user, tab>>
      BY <1>4, <2>1
    <3>2. OneWaits' /\ call' \in [Session -> Put \cup {0}]
      BY <1>2, <2>1, <3>1, AnswerGiven DEF Awaiting
    <3> QED
      BY <2>1, <3>1, <3>2 DEF SessionsTyped, KeysTyped
  <2>2. CASE Awaiting(r) # {}
    <3>1. PICK s \in Session : call[s] = r /\ Reply(s, Written(r)) /\ call' = At(call, s, 0)
      BY <1>4, <2>2 DEF Awaiting
    <3>2. /\ KeysTyped' /\ OneWaits' /\ call' \in [Session -> Put \cup {0}]
          /\ saved'[s].widget = t /\ Fields(saved'[s]) = b
          /\ \A z \in Session : tab'[z] => /\ user'[z] # Nobody /\ saved'[z] # NoForm
                                           /\ draft'[z] # NoDraft /\ designer'[z] # NoDesigner
          /\ \A z \in Session \ {s} : saved'[z] = saved[z] /\ call[z] # r
      BY <1>2, <1>4, <3>1, ReplyEffect
    <3>3. Awaiting(r) = {s}
      BY <3>1, <3>2 DEF Awaiting
    <3> QED
      BY <3>2, <3>3
  <2> QED
    BY <2>1, <2>2
<1>6. early' \in [Session -> Put \cup {0}]
  BY <1>4 DEF SessionsTyped
<1>7. SessionsTyped'
  BY <1>4, <1>5, <1>6 DEF SessionsTyped, KeysTyped
<1>8. \A z \in Session : /\ z \in heard => early'[z] = 0
                         /\ z \notin heard => /\ early'[z] = early[z] /\ saved'[z] = saved[z]
                                              /\ early[z] # r
                         /\ early'[z] # 0 => put'[early'[z]] = put[early[z]]
  BY <1>2, <1>4, <1>5, <1>6 DEF AheadOf, Awaiting
<1> HIDE DEF t, b, heard
<1>9. EarlyIsToCome'
  BY <1>8 DEF EarlyIsToCome
<1>10. SavedIsTheServers'
  <2> SUFFICES ASSUME NEW z \in Session, z \notin overtaken', saved'[z] # NoForm
               PROVE  Fields(saved'[z]) = IF early'[z] # 0 THEN put'[early'[z]].body
                                          ELSE config'[saved'[z].widget]
    BY DEF SavedIsTheServers
  <2>1. CASE z \in Awaiting(r)
    BY <1>3, <1>5, <1>8, <2>1 DEF heard
  <2>2. CASE z \in AheadOf(r) \ Awaiting(r)
    <3>1. early[z] = r /\ r # 0 /\ saved'[z] = saved[z] /\ z \notin overtaken
      BY <1>4, <1>5, <2>2, ConsoleAssumption DEF AheadOf
    <3>2. saved[z].widget = t /\ Fields(saved[z]) = b
      BY <3>1 DEF EarlyIsToCome, SavedIsTheServers, t, b
    <3> QED
      BY <1>3, <1>8, <2>2, <3>1, <3>2 DEF heard
  <2>3. CASE z \notin heard
    <3>1. z \notin overtaken /\ saved'[z] = saved[z] /\ saved[z].widget \in Tenant \ {t}
      BY <1>4, <1>8, <2>3 DEF SessionsTyped, Form, heard
    <3> QED
      BY <1>3, <1>8, <2>3, <3>1 DEF SavedIsTheServers
  <2> QED
    BY <2>1, <2>2, <2>3 DEF heard
<1> QED
  BY <1>1, <1>5, <1>7, <1>9, <1>10

LEMMA InitConsole == ConsoleInit => ConsoleIInv
<1> SUFFICES ASSUME ConsoleInit PROVE ConsoleIInv
  OBVIOUS
<1>1. ServerIInv
  BY InitServer DEF ConsoleInit
<1>2. SessionsTyped /\ OneWaits /\ EarlyIsToCome /\ SavedIsTheServers
  BY DEF ConsoleInit, SessionsTyped, OneWaits, EarlyIsToCome, SavedIsTheServers
<1> QED
  BY <1>1, <1>2 DEF ConsoleIInv

\* The inductive step.
LEMMA StepConsole == ConsoleIInv /\ [ConsoleNext]_consoleVars => ConsoleIInv'
<1> SUFFICES ASSUME ConsoleIInv, [ConsoleNext]_consoleVars PROVE ConsoleIInv'
  OBVIOUS
<1>1. CASE \E s \in Session :
              \/ \E z \in Admin : SignIn(s, z)
              \/ SignOut(s) \/ OpenTab(s) \/ LeaveTab(s)
  BY <1>1, SignInStep, LeaveStep, OpenTabStep
<1>2. CASE \E s \in Session : Edit(s) \/ Discard(s) \/ Save(s) \/ GiveUp(s)
  BY <1>2, EditStep, DiscardStep, SaveStep, GiveUpStep
<1>3. CASE \E r \in Put : Step(r) \/ AnswerPut(r) \/ Commit(r) \/ Refuse(r)
  BY <1>3, StepStep, AnswerPutStep, ConsoleCommitStep, RefuseStep
<1>4. CASE UNCHANGED consoleVars
  <2>1. UNCHANGED <<configVars, user, tab, saved, draft, text, designer, call, early,
                    overtaken>>
    BY <1>4 DEF consoleVars, formVars
  <2>2. SessionsTyped'
    BY <2>1 DEF ConsoleIInv, SessionsTyped
  <2> QED
    BY <2>1, <2>2, SessionOnly DEF ConsoleIInv, OneWaits
<1> QED
  BY <1>1, <1>2, <1>3, <1>4 DEF ConsoleNext

LEMMA ConsoleInvariance == ConsoleSpec => []ConsoleIInv
BY InitConsole, StepConsole, PTL DEF ConsoleSpec

----------------------------------------------------------------------------
(* Records: what the steps have in common. *)

\* Two records with the same fields are the same, whatever they are built from.
LEMMA SameRecord ==
  ASSUME NEW p \in Record, NEW q \in Record, \A f \in Field : p[f] = q[f]
  PROVE  p = q
BY DEF Record, Field

\* A record put together field by field is one.
LEMMA MixedRecord ==
  ASSUME NEW p \in Record, NEW q \in Record, NEW F
  PROVE  [f \in Field |-> IF f \in F THEN p[f] ELSE q[f]] \in Record
BY DEF Record, Field

LEMMA SomeRecord == \A p \in Record : p # NoRecord
BY DEF Record, NoRecord

\* What stands for no row is a record the server takes.
LEMMA DefaultsFit == Defaults \in Record /\ Takes(Defaults)
BY RecordsAssumption DEF Defaults, Record, Takes

\* The requests by what they hold.
LEMMA SaveKinds ==
  ASSUME RecordsTyped, NEW s \in SaveId
  PROVE  /\ s \in Saving => save[s] \in SentSave \cup ReadSave
         /\ save[s].pc = "sent" <=> save[s] \in SentSave
         /\ Loads(s) <=> save[s] \in ReadSave
         /\ Loads(s) => s \in Saving /\ (Inserts(s) \/ save[s].loaded \in Record)
         /\ Wrote(s) => Loads(s)
BY DEF RecordsTyped, EndedSave, SentSave, ReadSave, Saving, Loads, Wrote, Inserts

\* The invariant of the initial states: a ticket has its row.
LEMMA InitRecords == RecordsInit => RecordsIInv
<1> SUFFICES ASSUME RecordsInit PROVE RecordsIInv
  OBVIOUS
<1>1. rows \in {<< >>, <<Defaults>>} /\ (table = "ticket" => rows = <<Defaults>>)
  BY DEF RecordsInit
<1>2. /\ rows \in Seq(Record) /\ Len(rows) <= 1 /\ (rows # << >> => rows[1] = Defaults)
      /\ \A i \in 1..Len(rows) : Takes(rows[i])
      /\ table = "ticket" => Len(rows) = 1
  <2>1. CASE rows = << >>
    BY <1>1, <2>1
  <2>2. CASE rows = <<Defaults>>
    <3>1. rows \in Seq(Record) /\ Len(rows) = 1 /\ rows[1] = Defaults
      BY <2>2, DefaultsFit
    <3> QED
      BY <3>1, DefaultsFit
  <2> QED
    BY <1>1, <2>1, <2>2
<1>3. \A s \in SaveId : save[s] = [pc |-> "free"]
  BY DEF RecordsInit
<1>4. RecordsTyped
  BY <1>2, <1>3, DefaultsFit DEF RecordsInit, RecordsTyped, EndedSave
<1>5. Saving = {} /\ \A s \in SaveId : ~Loads(s) /\ ~Wrote(s)
  BY <1>3 DEF Saving, Loads, Wrote
<1>6. SavesKnow /\ TicketIsThere /\ FirstSettings /\ NothingChosen
  BY <1>2, <1>5 DEF SavesKnow, TicketIsThere, FirstSettings, NothingChosen, RecordsInit
<1>7. AuditsTellTheTicket /\ UntouchedFieldsStay
  BY <1>2 DEF AuditsTellTheTicket, UntouchedFieldsStay, OneRow, RecordsInit
<1> QED
  BY <1>4, <1>6, <1>7 DEF RecordsIInv

\* A request in service moves on with what it had, and may have written.
LEMMA SaveMoves ==
  ASSUME RecordsIInv, NEW s \in SaveId, NEW pc \in {"written", "answering", "answered"},
         Loads(s), Takes(save[s].wanted), NextPc(s, pc),
         table = "settings" /\ Inserts(s) =>
            /\ rows = << >>
            /\ \A t \in SaveId \ {s} : ~(Wrote(t) /\ Inserts(t)),
         UNCHANGED <<table, rows, told, last, overlapped>>,
         form' \in [Client -> Record \cup {NoRecord}]
  PROVE  RecordsIInv'
<1> USE DEF RecordsIInv
<1>1. save[s] \in ReadSave
  BY SaveKinds
<1>2. /\ save' = [save EXCEPT ![s].pc = pc]
      /\ \A t \in SaveId \ {s} : save'[t] = save[t]
      /\ save'[s] = [save[s] EXCEPT !.pc = pc]
  BY DEF NextPc, RecordsTyped
<1>3. /\ save'[s] \in ReadSave /\ save'[s].pc = pc
      /\ save'[s].wanted = save[s].wanted /\ save'[s].base = save[s].base
      /\ save'[s].chosen = save[s].chosen /\ save'[s].loaded = save[s].loaded
  BY <1>1, <1>2 DEF ReadSave
<1>4. RecordsTyped'
  BY <1>2, <1>3 DEF RecordsTyped
<1>5. /\ Loads(s)' /\ Wrote(s)' /\ (Inserts(s)' <=> Inserts(s)) /\ s \in Saving
      /\ \A t \in SaveId \ {s} : /\ (t \in Saving' <=> t \in Saving)
                                 /\ Loads(t)' <=> Loads(t)
                                 /\ Wrote(t)' <=> Wrote(t)
                                 /\ Inserts(t)' <=> Inserts(t)
  BY <1>2, <1>3 DEF Loads, Wrote, Inserts, Saving
<1>6. SavesKnow'
  BY <1>2, <1>3, <1>5 DEF SavesKnow, Saving
<1>7. TicketIsThere' /\ FirstSettings' /\ NothingChosen'
  BY <1>5 DEF TicketIsThere, FirstSettings, NothingChosen
<1>8. AuditsTellTheTicket' /\ UntouchedFieldsStay'
  BY DEF AuditsTellTheTicket, UntouchedFieldsStay, OneRow
<1> QED
  BY <1>4, <1>6, <1>7, <1>8

\* A request that is over holds nothing.
LEMMA EndSaveStep ==
  ASSUME RecordsIInv, NEW s \in SaveId, EndSave(s)
  PROVE  RecordsIInv'
<1> USE DEF RecordsIInv
<1>1. /\ \A t \in SaveId \ {s} : save'[t] = save[t]
      /\ save'[s] = [pc |-> "done"]
  BY DEF EndSave, RecordsTyped, Finished
<1>2. RecordsTyped'
  BY DEF RecordsTyped, EndSave, Finished, EndedSave
<1>3. /\ ~Loads(s)' /\ ~Wrote(s)' /\ s \notin Saving'
      /\ \A t \in SaveId \ {s} : /\ (t \in Saving' <=> t \in Saving)
                                 /\ Loads(t)' <=> Loads(t)
                                 /\ Wrote(t)' <=> Wrote(t)
                                 /\ Inserts(t)' <=> Inserts(t)
  BY <1>1 DEF Loads, Wrote, Inserts, Saving
<1>4. SavesKnow'
  BY <1>1, <1>3 DEF SavesKnow, Saving, EndSave
<1>5. TicketIsThere' /\ FirstSettings' /\ NothingChosen'
  BY <1>3 DEF TicketIsThere, FirstSettings, NothingChosen, EndSave
<1>6. AuditsTellTheTicket' /\ UntouchedFieldsStay'
  BY DEF AuditsTellTheTicket, UntouchedFieldsStay, OneRow, EndSave
<1> QED
  BY <1>2, <1>4, <1>5, <1>6

(* Records: the pages. *)

\* What a page is answered is a record.
LEMMA ShownRecord == ASSUME RecordsTyped PROVE Shown \in Record
<1>1. CASE rows = << >>
  BY <1>1, DefaultsFit DEF Shown
<1>2. CASE rows # << >>
  BY <1>2 DEF Shown, RecordsTyped
<1> QED
  BY <1>1, <1>2

LEMMA FetchStep ==
  ASSUME RecordsIInv, NEW c \in Client, Fetch(c)
  PROVE  RecordsIInv'
<1> USE DEF RecordsIInv
<1>1. RecordsTyped'
  BY ShownRecord DEF RecordsTyped, Fetch
<1>2. SavesKnow' /\ TicketIsThere' /\ FirstSettings' /\ NothingChosen'
  BY DEF Fetch, SavesKnow, Saving, Loads, Wrote, Inserts, TicketIsThere, FirstSettings,
         NothingChosen
<1>3. AuditsTellTheTicket' /\ UntouchedFieldsStay'
  BY DEF Fetch, AuditsTellTheTicket, UntouchedFieldsStay, OneRow
<1> QED
  BY <1>1, <1>2, <1>3

\* A page sends a record: its form with what its admin chose.
LEMMA EditsRecord ==
  ASSUME NEW c \in Client, form[c] \in Record, NEW own \in Field, NEW w \in Edits(c, own)
  PROVE  w \in Record
BY DEF Edits, Record, Field

LEMMA SendStep ==
  ASSUME RecordsIInv, NEW c \in Client, Send(c)
  PROVE  RecordsIInv'
<1> USE DEF RecordsIInv
<1>1. form[c] \in Record /\ form' \in [Client -> Record \cup {NoRecord}]
  BY DEF Send, RecordsTyped
<1>2. PICK s \in SaveId, own \in Field : \E w \in Edits(c, own) :
        /\ NextSave(s)
        /\ save' = [save EXCEPT ![s] =
             [pc |-> "sent", by |-> c, base |-> form[c], chosen |-> Changed(w, form[c]),
              wanted |-> w]]
  BY DEF Send
<1>3. PICK w \in Edits(c, own) :
        /\ NextSave(s)
        /\ save' = [save EXCEPT ![s] =
             [pc |-> "sent", by |-> c, base |-> form[c], chosen |-> Changed(w, form[c]),
              wanted |-> w]]
  BY <1>2
<1>4. w \in Record /\ Changed(w, form[c]) \in SUBSET Field
  BY <1>1, EditsRecord DEF Changed
<1>5. /\ \A t \in SaveId \ {s} : save'[t] = save[t]
      /\ save'[s] = [pc |-> "sent", by |-> c, base |-> form[c], chosen |-> Changed(w, form[c]),
                     wanted |-> w]
  BY <1>3 DEF RecordsTyped
<1>6. save'[s] \in SentSave
  BY <1>1, <1>4, <1>5 DEF SentSave
<1>7. RecordsTyped'
  BY <1>1, <1>3, <1>5, <1>6 DEF RecordsTyped, Send
<1>8. /\ ~Loads(s)' /\ ~Wrote(s)'
      /\ \A t \in SaveId \ {s} : /\ (t \in Saving' <=> t \in Saving)
                                 /\ Loads(t)' <=> Loads(t)
                                 /\ Wrote(t)' <=> Wrote(t)
                                 /\ Inserts(t)' <=> Inserts(t)
  BY <1>5 DEF Loads, Wrote, Inserts, Saving
<1>9. SavesKnow'
  BY <1>5, <1>8 DEF SavesKnow, Saving, Send
<1>10. TicketIsThere' /\ FirstSettings' /\ NothingChosen'
  BY <1>8 DEF TicketIsThere, FirstSettings, NothingChosen, Send
<1>11. AuditsTellTheTicket' /\ UntouchedFieldsStay'
  BY DEF AuditsTellTheTicket, UntouchedFieldsStay, OneRow, Send
<1> QED
  BY <1>7, <1>9, <1>10, <1>11

(* Records: the server. *)

LEMMA ReadRecordStep ==
  ASSUME RecordsIInv, NEW s \in SaveId, ReadRecord(s)
  PROVE  RecordsIInv'
<1> USE DEF RecordsIInv
<1>1. CASE EndSave(s)
  BY <1>1, EndSaveStep
<1>2. CASE ~EndSave(s)
  <2> DEFINE row == IF rows = << >> THEN NoRecord ELSE rows[1]
             q == [pc |-> "read", by |-> save[s].by, base |-> save[s].base,
                   chosen |-> save[s].chosen, wanted |-> save[s].wanted, loaded |-> row]
  <2>1. /\ save' = [save EXCEPT ![s] = q]
        /\ UNCHANGED <<table, rows, told, form, last, overlapped>>
    BY <1>2 DEF ReadRecord, RecordsTyped
  <2>2. save[s] \in SentSave /\ s \in Saving
    BY SaveKinds DEF ReadRecord, Saving
  <2>3. row \in Record \cup {NoRecord} /\ (rows # << >> => row \in Record)
    BY DEF RecordsTyped
  <2>4. q \in ReadSave /\ q.pc = "read" /\ q.loaded = row /\ q.base = save[s].base
        /\ q.chosen = save[s].chosen /\ q.wanted = save[s].wanted
    BY <2>2, <2>3 DEF SentSave, ReadSave
  <2>5. save'[s] = q /\ \A t \in SaveId \ {s} : save'[t] = save[t]
    BY <2>1 DEF RecordsTyped
  <2> HIDE DEF row, q
  <2>6. RecordsTyped'
    BY <2>1, <2>4 DEF RecordsTyped
  <2>7. /\ ~Wrote(s)' /\ s \in Saving' /\ (Inserts(s)' <=> row = NoRecord)
        /\ \A t \in SaveId \ {s} : /\ (t \in Saving' <=> t \in Saving)
                                   /\ Loads(t)' <=> Loads(t)
                                   /\ Wrote(t)' <=> Wrote(t)
                                   /\ Inserts(t)' <=> Inserts(t)
    BY <2>4, <2>5 DEF Loads, Wrote, Inserts, Saving
  <2>8. Inserts(s)' <=> rows = << >>
    BY <2>3, <2>7, SomeRecord DEF row
  <2>9. SavesKnow'
    <3>1. \A t \in Saving' : save'[t].chosen = Changed(save'[t].wanted, save'[t].base)
      <4>1. save[s].chosen = Changed(save[s].wanted, save[s].base)
        BY <2>2 DEF SavesKnow
      <4> QED
        BY <4>1, <2>4, <2>5, <2>7 DEF SavesKnow, Saving
    <3>2. \A t \in SaveId : Wrote(t)' => Takes(save'[t].wanted)
      BY <2>5, <2>7 DEF SavesKnow
    <3>3. \A t \in SaveId : Loads(t)' /\ ~Inserts(t)' => rows' # << >>
      BY <2>1, <2>7, <2>8 DEF SavesKnow
    <3> QED
      BY <3>1, <3>2, <3>3 DEF SavesKnow
  <2>10. TicketIsThere' /\ FirstSettings' /\ NothingChosen'
    BY <2>1, <2>7, <2>8 DEF TicketIsThere, FirstSettings, NothingChosen
  <2>11. AuditsTellTheTicket' /\ UntouchedFieldsStay'
    BY <2>1 DEF AuditsTellTheTicket, UntouchedFieldsStay, OneRow
  <2> QED
    BY <2>6, <2>9, <2>10, <2>11
<1> QED
  BY <1>1, <1>2

\* The INSERT of a first row of settings waits for another one's end.
LEMMA WriteFieldsStep ==
  ASSUME RecordsIInv, NEW s \in SaveId, WriteFields(s)
  PROVE  RecordsIInv'
<1>1. CASE EndSave(s)
  BY <1>1, EndSaveStep
<1>2. CASE ~EndSave(s)
  <2>1. /\ Takes(save[s].wanted) /\ NextPc(s, "written")
        /\ ~(Inserts(s) /\ table = "settings" /\ rows # << >>)
        /\ UNCHANGED <<table, rows, told, form, last, overlapped>>
    BY <1>2 DEF WriteFields, Storable, Unique
  <2>2. Loads(s)
    BY DEF WriteFields, Loads
  <2>3. table = "settings" /\ Inserts(s) =>
          \A t \in SaveId \ {s} : ~(Wrote(t) /\ Inserts(t))
    BY DEF WriteFields, Held, Wrote, Unique
  <2> QED
    BY <2>1, <2>2, <2>3, SaveMoves DEF RecordsIInv, RecordsTyped
<1> QED
  BY <1>1, <1>2

LEMMA RecordAnswerStep ==
  ASSUME RecordsIInv, NEW s \in SaveId, Answer(s)
  PROVE  RecordsIInv'
<1>1. CASE EndSave(s)
  BY <1>1, EndSaveStep
<1>2. CASE ~EndSave(s)
  <2>1. Loads(s) /\ Wrote(s)
    BY DEF Answer, Loads, Wrote
  <2>2. /\ Takes(save[s].wanted) /\ NextPc(s, "answering")
        /\ UNCHANGED <<table, rows, told, form, last, overlapped>>
    BY <1>2, <2>1 DEF Answer, RecordsIInv, SavesKnow
  <2>3. table = "settings" /\ Inserts(s) =>
          rows = << >> /\ \A t \in SaveId \ {s} : ~(Wrote(t) /\ Inserts(t))
    BY <2>1 DEF RecordsIInv, FirstSettings
  <2> QED
    BY <2>1, <2>2, <2>3, SaveMoves DEF RecordsIInv, RecordsTyped
<1> QED
  BY <1>1, <1>2

\* A page that is answered holds a record, whether the commit is behind the
\* answer or ahead of it.
LEMMA AnsweredForm ==
  ASSUME RecordsTyped, NEW s \in SaveId, Loads(s), TakesAnswer(s)
  PROVE  form' \in [Client -> Record \cup {NoRecord}]
<1>1. save[s].by \in Client /\ save[s].wanted \in Record
  BY SaveKinds DEF ReadSave
<1> QED
  BY <1>1 DEF RecordsTyped, TakesAnswer

LEMMA AnswerSaveStep ==
  ASSUME RecordsIInv, NEW s \in SaveId, AnswerSave(s)
  PROVE  RecordsIInv'
<1>1. Loads(s) /\ Wrote(s)
  BY DEF AnswerSave, Loads, Wrote
<1>2. /\ Takes(save[s].wanted) /\ NextPc(s, "answered")
      /\ UNCHANGED <<table, rows, told, last, overlapped>>
  BY <1>1 DEF AnswerSave, RecordsIInv, SavesKnow
<1>3. table = "settings" /\ Inserts(s) =>
        rows = << >> /\ \A t \in SaveId \ {s} : ~(Wrote(t) /\ Inserts(t))
  BY <1>1 DEF RecordsIInv, FirstSettings
<1>4. form' \in [Client -> Record \cup {NoRecord}]
  BY <1>1, AnsweredForm DEF AnswerSave, RecordsIInv
<1> QED
  BY <1>1, <1>2, <1>3, <1>4, SaveMoves

(* Records: the commit. *)

\* The record an UPDATE leaves, field by field: of a row that is still the one
\* loaded, it makes the one sent.
LEMMA UpdatedRow ==
  ASSUME RecordsTyped, NEW s \in SaveId, Loads(s), ~Inserts(s), rows # << >>
  PROVE  LET row == [f \in Field |-> IF f \in Columns(s) THEN save[s].wanted[f] ELSE rows[1][f]]
         IN  /\ Stored(s) = [rows EXCEPT ![1] = row]
             /\ row \in Record
             /\ Takes(rows[1]) /\ Takes(save[s].wanted) => Takes(row)
             /\ rows[1] = save[s].loaded => row = save[s].wanted
<1> DEFINE row == [f \in Field |-> IF f \in Columns(s) THEN save[s].wanted[f] ELSE rows[1][f]]
<1>1. /\ save[s].wanted \in Record /\ save[s].loaded \in Record
      /\ rows \in Seq(Record) /\ rows[1] \in Record
  BY SaveKinds DEF RecordsTyped, ReadSave
<1>2. Stored(s) = [rows EXCEPT ![1] = row]
  BY <1>1 DEF Stored
<1>3. row \in Record
  BY <1>1, MixedRecord
<1>4. Takes(rows[1]) /\ Takes(save[s].wanted) => Takes(row)
  BY <1>1, <1>3 DEF Takes, Field, Record
<1>5. ASSUME rows[1] = save[s].loaded PROVE row = save[s].wanted
  <2>1. \A f \in Field : f \notin Columns(s) => save[s].wanted[f] = save[s].loaded[f]
    BY DEF Columns, Changed
  <2>2. \A f \in Field : row[f] = save[s].wanted[f]
    BY <1>5, <2>1
  <2> QED
    BY <1>1, <1>3, <2>2, SameRecord
<1> QED
  BY <1>2, <1>3, <1>4, <1>5

\* What a commit leaves of the rows: one that was there, or the one inserted.
LEMMA StoredRows ==
  ASSUME RecordsIInv, NEW s \in SaveId, Wrote(s)
  PROVE  /\ Stored(s) \in Seq(Record) /\ Stored(s) # << >>
         /\ \A i \in 1..Len(Stored(s)) : Takes(Stored(s)[i])
         /\ Len(Stored(s)) = IF Inserts(s) THEN Len(rows) + 1 ELSE Len(rows)
<1> USE DEF RecordsIInv
<1>1. /\ Loads(s) /\ Takes(save[s].wanted)
      /\ save[s].wanted \in Record /\ rows \in Seq(Record)
      /\ \A i \in 1..Len(rows) : Takes(rows[i])
  BY SaveKinds DEF SavesKnow, ReadSave, RecordsTyped
<1>2. CASE Inserts(s)
  <2>1. Stored(s) = Append(rows, save[s].wanted)
    BY <1>2 DEF Stored
  <2> QED
    BY <1>1, <1>2, <2>1
<1>3. CASE ~Inserts(s)
  <2> DEFINE row == [f \in Field |-> IF f \in Columns(s) THEN save[s].wanted[f] ELSE rows[1][f]]
  <2>1. rows # << >>
    BY <1>1, <1>3 DEF SavesKnow
  <2>2. /\ Stored(s) = [rows EXCEPT ![1] = row] /\ row \in Record
        /\ Takes(rows[1]) /\ Takes(save[s].wanted) => Takes(row)
    BY <1>1, <1>3, <2>1, UpdatedRow
  <2>3. Takes(row)
    BY <1>1, <2>1, <2>2
  <2> HIDE DEF row
  <2> QED
    BY <1>1, <1>3, <2>1, <2>2, <2>3
<1> QED
  BY <1>2, <1>3

\* Where nothing overlapped, the row a save leaves is what was last chosen.
LEMMA LastIsStored ==
  ASSUME RecordsIInv, NEW s \in SaveId, CommitSave(s), ~overlapped'
  PROVE  rows'[1] = last'
<1> USE DEF RecordsIInv
<1>1. /\ Loads(s) /\ Wrote(s) /\ s \in Saving
      /\ save[s] \in ReadSave
      /\ save[s].wanted \in Record /\ save[s].base \in Record
      /\ rows \in Seq(Record) /\ last \in Record
  BY SaveKinds DEF CommitSave, Loads, Wrote, ReadSave, RecordsTyped, Saving
<1>2. /\ ~overlapped /\ save[s].base = Shown
      /\ save[s].loaded = IF rows = << >> THEN NoRecord ELSE rows[1]
  BY DEF CommitSave, RecordsTyped
<1>3. Inserts(s) <=> rows = << >>
  <2>1. rows # << >> => rows[1] \in Record
    BY <1>1
  <2> QED
    BY <1>2, <2>1, SomeRecord DEF Inserts
<1>4. Shown = last
  BY <1>2, <1>3 DEF Shown, NothingChosen, UntouchedFieldsStay
<1>5. last' = save[s].wanted
  <2>1. \A f \in Field : f \notin save[s].chosen => save[s].wanted[f] = last[f]
    BY <1>1, <1>2, <1>4 DEF SavesKnow, Changed
  <2>2. last' = [f \in Field |-> IF f \in save[s].chosen THEN save[s].wanted[f] ELSE last[f]]
    BY DEF CommitSave
  <2>3. last' \in Record
    BY <1>1, <2>2, MixedRecord
  <2>4. \A f \in Field : last'[f] = save[s].wanted[f]
    BY <2>1, <2>2
  <2> QED
    BY <1>1, <2>3, <2>4, SameRecord
<1>6. rows'[1] = save[s].wanted
  <2>1. CASE Inserts(s)
    <3>1. rows' = Append(<< >>, save[s].wanted)
      BY <1>3, <2>1 DEF CommitSave, Stored
    <3> QED
      BY <1>1, <3>1
  <2>2. CASE ~Inserts(s)
    <3>1. rows # << >> /\ rows[1] = save[s].loaded
      BY <1>2, <1>3, <2>2
    <3>2. rows' = [rows EXCEPT ![1] = save[s].wanted]
      BY <1>1, <2>2, <3>1, UpdatedRow DEF CommitSave
    <3> QED
      BY <1>1, <3>1, <3>2
  <2> QED
    BY <2>1, <2>2
<1> QED
  BY <1>5, <1>6

LEMMA CommitSaveStep ==
  ASSUME RecordsIInv, NEW s \in SaveId, CommitSave(s)
  PROVE  RecordsIInv'
<1> USE DEF RecordsIInv
<1>1. /\ Loads(s) /\ Wrote(s) /\ s \in Saving
      /\ save[s] \in ReadSave /\ save[s].wanted \in Record /\ save[s].by \in Client
  BY SaveKinds DEF CommitSave, Loads, Wrote, ReadSave, Saving
<1>2. /\ rows' = Stored(s) /\ rows' \in Seq(Record) /\ rows' # << >>
      /\ \A i \in 1..Len(rows') : Takes(rows'[i])
      /\ Len(rows') = IF Inserts(s) THEN Len(rows) + 1 ELSE Len(rows)
      /\ table' = table
  BY <1>1, StoredRows DEF CommitSave
<1>3. /\ \A t \in SaveId \ {s} : save'[t] = save[t]
      /\ save'[s] = [pc |-> "done"]
      /\ save' \in [SaveId -> EndedSave \cup SentSave \cup ReadSave]
  BY DEF CommitSave, RecordsTyped, Finished, EndedSave
<1>4. /\ ~Loads(s)' /\ ~Wrote(s)' /\ s \notin Saving'
      /\ \A t \in SaveId \ {s} : /\ (t \in Saving' <=> t \in Saving)
                                 /\ Loads(t)' <=> Loads(t)
                                 /\ Wrote(t)' <=> Wrote(t)
                                 /\ Inserts(t)' <=> Inserts(t)
  BY <1>3 DEF Loads, Wrote, Inserts, Saving
<1>5. RecordsTyped'
  <2>1. told' \in Record /\ last' \in Record
    BY <1>1, MixedRecord DEF CommitSave, Told, RecordsTyped
  <2>2. form' \in [Client -> Record \cup {NoRecord}] /\ overlapped' \in BOOLEAN
    BY <1>1, AnsweredForm DEF CommitSave, RecordsTyped
  <2> QED
    BY <1>2, <1>3, <2>1, <2>2 DEF RecordsTyped
<1>6. SavesKnow'
  BY <1>2, <1>3, <1>4 DEF SavesKnow, Saving
<1>7. TicketIsThere'
  BY <1>1, <1>2, <1>4 DEF TicketIsThere
<1>8. FirstSettings'
  <2>1. CASE Inserts(s)
    BY <1>1, <1>2, <1>4, <2>1 DEF FirstSettings, RecordsTyped
  <2>2. CASE ~Inserts(s)
    <3>1. rows # << >>
      BY <1>1, <2>2 DEF SavesKnow
    <3> QED
      BY <1>2, <1>4, <2>2, <3>1 DEF FirstSettings
  <2> QED
    BY <2>1, <2>2
<1>9. NothingChosen'
  BY <1>2 DEF NothingChosen
<1>10. AuditsTellTheTicket'
  <2> SUFFICES ASSUME table = "ticket" PROVE rows'[1] = told'
    BY <1>2 DEF AuditsTellTheTicket
  <2>1. ~Inserts(s) /\ rows # << >> /\ rows[1] = told /\ rows \in Seq(Record)
    BY <1>1 DEF TicketIsThere, SavesKnow, AuditsTellTheTicket, RecordsTyped
  <2>2. told' = [f \in Field |-> IF f \in Columns(s) THEN save[s].wanted[f] ELSE rows[1][f]]
    BY <2>1 DEF CommitSave, Told
  <2>3. told' \in Record
    BY <1>5 DEF RecordsTyped
  <2>4. rows' = [rows EXCEPT ![1] = told']
    BY <1>1, <1>2, <2>1, <2>2, UpdatedRow
  <2> QED
    BY <2>1, <2>3, <2>4
<1>11. UntouchedFieldsStay'
  <2>1. OneRow'
    <3>1. Inserts(s) /\ rows # << >> => overlapped'
      <4>1. rows # << >> => rows[1] \in Record
        BY DEF RecordsTyped
      <4> QED
        BY <4>1, SomeRecord DEF CommitSave, Inserts
    <3>2. overlapped => overlapped'
      BY DEF CommitSave
    <3> QED
      BY <1>1, <1>2, <3>1, <3>2
      DEF OneRow, UntouchedFieldsStay, TicketIsThere, FirstSettings, RecordsTyped
  <2>2. ~overlapped' => rows'[1] = last'
    BY LastIsStored
  <2> QED
    BY <2>1, <2>2 DEF UntouchedFieldsStay
<1> QED
  BY <1>5, <1>6, <1>7, <1>8, <1>9, <1>10, <1>11

\* The inductive step.
LEMMA StepRecords == RecordsIInv /\ [RecordsNext]_recordVars => RecordsIInv'
<1> SUFFICES ASSUME RecordsIInv, [RecordsNext]_recordVars PROVE RecordsIInv'
  OBVIOUS
<1>1. CASE \E c \in Client : Fetch(c) \/ Send(c)
  BY <1>1, FetchStep, SendStep
<1>2. CASE \E s \in SaveId : AnswerSave(s) \/ FailSave(s)
  BY <1>2, AnswerSaveStep, EndSaveStep DEF FailSave
<1>3. CASE ServeSaves
  BY <1>3, ReadRecordStep, WriteFieldsStep, RecordAnswerStep, CommitSaveStep DEF ServeSaves
<1>4. CASE UNCHANGED recordVars
  <2>1. RecordsTyped' /\ SavesKnow' /\ TicketIsThere' /\ FirstSettings' /\ NothingChosen'
    BY <1>4 DEF recordVars, RecordsIInv, RecordsTyped, SavesKnow, Saving, Loads, Wrote,
                Inserts, TicketIsThere, FirstSettings, NothingChosen
  <2>2. AuditsTellTheTicket' /\ UntouchedFieldsStay'
    BY <1>4 DEF recordVars, RecordsIInv, AuditsTellTheTicket, UntouchedFieldsStay, OneRow
  <2> QED
    BY <2>1, <2>2 DEF RecordsIInv
<1> QED
  BY <1>1, <1>2, <1>3, <1>4 DEF RecordsNext

LEMMA RecordsInvariance == RecordsSpec => []RecordsIInv
BY InitRecords, StepRecords, PTL DEF RecordsSpec

----------------------------------------------------------------------------
(* Theorems *)

\* The types of both follow from their invariants.
LEMMA ConsoleTypes == ConsoleIInv => ConsoleTypeOK
<1> SUFFICES ASSUME ConsoleIInv PROVE ConsoleTypeOK
  OBVIOUS
<1>1. \A s \in Session :
        /\ saved[s] # NoForm => Fields(saved[s]) \in Config /\ saved[s].widget \in Tenant
        /\ draft[s] # NoDraft => draft[s] \in Config
  BY FormFields DEF ConsoleIInv, SessionsTyped, Form
<1> QED
  BY <1>1 DEF ConsoleIInv, ServerIInv, ConfigsTyped, OriginsKept, SessionsTyped, ConsoleTypeOK

LEMMA RecordsTypes == RecordsIInv => RecordsTypeOK
<1> SUFFICES ASSUME RecordsIInv PROVE RecordsTypeOK
  OBVIOUS
<1>1. \A s \in Saving : save[s].wanted \in Record
  <2> SUFFICES ASSUME NEW s \in Saving PROVE save[s].wanted \in Record
    OBVIOUS
  <2>1. s \in SaveId /\ save[s] \in SentSave \cup ReadSave
    BY SaveKinds DEF RecordsIInv, Saving
  <2> QED
    BY <2>1 DEF SentSave, ReadSave
<1>2. \A i \in DOMAIN rows : rows[i] \in Record /\ Takes(rows[i])
  BY DEF RecordsIInv, RecordsTyped
<1> QED
  BY <1>1, <1>2 DEF RecordsIInv, RecordsTyped, RecordsTypeOK

\* What a session of an admin calls saved is the tenant's committed row, or the
\* one that the request which answered is about to commit: a save that failed
\* leaves no other copy behind.  The copies of sessions that another commit of
\* the tenant passed, or whose answer came ahead of a commit that failed, are
\* left out.
THEOREM SavedIsCommitted == ConsoleSpec => []SavedIsTheServers
<1>1. ConsoleIInv => SavedIsTheServers
  BY DEF ConsoleIInv
<1> QED
  BY <1>1, ConsoleInvariance, PTL

\* A save leaves the fields nobody touched as they were last chosen, unless it
\* was sent or served over one it had not seen; and a tenant has one row of each
\* kind, unless first saves of the agent's configuration overlap.
THEOREM FieldsStay == RecordsSpec => []UntouchedFieldsStay
<1>1. RecordsIInv => UntouchedFieldsStay
  BY DEF RecordsIInv
<1> QED
  BY <1>1, RecordsInvariance, PTL

\* A behaviour of the back office is one of each of its parts.
LEMMA Parts == MCNext => /\ [InvitesNext]_inviteVars
                         /\ [ConsoleNext]_consoleVars
                         /\ [RecordsNext]_recordVars
BY DEF MCNext

LEMMA OfficeInvariance == MCSpec => [](InvitesIInv /\ ConsoleIInv /\ RecordsIInv)
<1> DEFINE IInv == InvitesIInv /\ ConsoleIInv /\ RecordsIInv
<1>1. MCInit => IInv
  BY InitInvitesIInv, InitConsole, InitRecords DEF MCInit
<1>2. IInv /\ [MCNext]_allVars => IInv'
  <2> SUFFICES ASSUME IInv, [MCNext]_allVars PROVE IInv'
    OBVIOUS
  <2>1. [InvitesNext]_inviteVars /\ [ConsoleNext]_consoleVars /\ [RecordsNext]_recordVars
    BY Parts DEF allVars
  <2> QED
    BY <2>1, StepInvitesIInv, StepConsole, StepRecords
<1> QED
  BY <1>1, <1>2, PTL DEF MCSpec

\* The audit rows of added and removed origins replay to the row's origins where
\* updates did not overlap, those of a ticket to its status and assignee always.
THEOREM AuditsReplayed == MCSpec => []AuditsReplay
<1>1. ConsoleIInv /\ RecordsIInv => AuditsReplay
  BY DEF ConsoleIInv, ServerIInv, RecordsIInv, AuditsReplay
<1> QED
  BY <1>1, OfficeInvariance, PTL

\* Type correctness of the three parts.
THEOREM OfficeTypeCorrect == MCSpec => []TypesOK
<1>1. InvitesIInv /\ ConsoleIInv /\ RecordsIInv => TypesOK
  BY InvitesTypes, ConsoleTypes, RecordsTypes DEF TypesOK
<1> QED
  BY <1>1, OfficeInvariance, PTL
=================================================================================
