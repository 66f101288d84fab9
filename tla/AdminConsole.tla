----------------------------- MODULE AdminConsole -----------------------------
(***************************************************************************)
(* The admins' browser sessions and the page on which a tenant's widget is *)
(* configured.  What a session keeps lives in Streamlit's session_state:   *)
(* the keys of widgets go when a run of the script does not show them, the *)
(* keys the code sets stay until the code deletes them.  One interaction   *)
(* of the admin is one run of the script.                                  *)
(***************************************************************************)
EXTENDS WidgetConfigs

CONSTANTS
    Session,    \* browser sessions
    Admin,
    TenantOf,   \* of an admin
    Budgets     \* bounds: who uses a session, sign-ins and edits of all of them

\* An admin is of one tenant; a request has a number, which no session waits
\* for when it waits for 0; the designer has a theme to start from.
ASSUME ConsoleAssumption ==
    /\ TenantOf \in [Admin -> Tenant]
    /\ Put \subseteq Nat \ {0}
    /\ Theme # {}

VARIABLES
    user,       \* who is signed in
    tab,        \* the widget page is shown
    saved,      \* widget_config_saved, with the widget_id it came with
    draft,      \* widget_config_draft
    text,       \* widget_config_theme_text, the raw JSON: a theme, "" or not one
    designer,   \* the keys of the theme designer
    call,       \* the request whose answer the script waits for
    early,      \* the request, not yet committed, that a session's copy came from
    budget,     \* what is left of the budget
    overtaken   \* history: sessions whose saved copy is not, or no more, the row

formVars == <<saved, draft, text, designer>>
consoleVars == <<configVars, user, tab, formVars, call, early, budget, overtaken>>

Nobody == "nobody"
NoKey == "no key"
NoForm == [widget |-> NoKey]
NoDraft == [origins |-> NoKey]
NoDesigner == [defaults |-> NoKey]
Empty == "empty"
Garbage == "garbage"

ConsoleInit ==
    /\ ConfigInit
    /\ user = [s \in Session |-> Nobody]
    /\ tab = [s \in Session |-> FALSE]
    /\ saved = [s \in Session |-> NoForm] /\ draft = [s \in Session |-> NoDraft]
    /\ text = [s \in Session |-> NoKey] /\ designer = [s \in Session |-> NoDesigner]
    /\ call = [s \in Session |-> 0] /\ early = [s \in Session |-> 0]
    /\ budget \in Budgets
    /\ overtaken = {}

At(f, s, v) == [f EXCEPT ![s] = v]
Idle(s) == call[s] = 0

\* set_session after a login; the page's radio starts at another tab.
SignIn(s, a) ==
    /\ user[s] = Nobody /\ a \in budget.users[s] /\ budget.signIns > 0
    /\ user' = At(user, s, a)
    /\ budget' = [budget EXCEPT !.signIns = @ - 1]
    /\ UNCHANGED <<configVars, tab, formVars, call, early, overtaken>>

\* A page that is not shown loses the keys of its widgets.
DropWidgets(s) == text' = At(text, s, NoKey) /\ designer' = At(designer, s, NoDesigner)

\* clear_session, for the five keys it names, then a run.
SignOut_withoutRun(s) ==
    /\ user[s] # Nobody /\ Idle(s)
    /\ user' = At(user, s, Nobody)
    /\ UNCHANGED <<configVars, tab, formVars, call, early, budget, overtaken>>
SignOut(s) ==
    /\ user[s] # Nobody /\ Idle(s)
    /\ user' = At(user, s, Nobody) /\ tab' = At(tab, s, FALSE)
    /\ DropWidgets(s)
    /\ UNCHANGED <<configVars, saved, draft, call, early, budget, overtaken>>

LeaveTab(s) ==
    /\ tab[s] /\ Idle(s)
    /\ tab' = At(tab, s, FALSE)
    /\ DropWidgets(s)
    /\ UNCHANGED <<configVars, user, saved, draft, call, early, budget, overtaken>>

\* _seed_theme_text_from_saved, and the designer's controls.
SeedText(theme) == IF theme = NoTheme THEN Empty ELSE theme
SeedDesigner(theme) ==
    [defaults |-> theme = NoTheme,
     theme |-> IF theme = NoTheme THEN CHOOSE t \in Theme : TRUE ELSE theme]

\* What a run leaves in draft["theme_json"]: the text's theme when it is one,
\* else the designer's.
Effective(d, t) == IF t \in Theme THEN t ELSE IF d.defaults THEN NoTheme ELSE d.theme

Fields(c) == [origins |-> c.origins, enabled |-> c.enabled, theme |-> c.theme]

\* The end of a run that shows the page with these values.
Rendered(s, sv, fields, t, d) ==
    /\ saved' = At(saved, s, sv)
    /\ draft' = At(draft, s, [fields EXCEPT !.theme = Effective(d, t)])
    /\ text' = At(text, s, t)
    /\ designer' = At(designer, s, d)

\* The page is fetched for once: only when the session has no saved copy.
Fetched(tenant) ==
    LET c == config[tenant] IN
    [widget |-> tenant, origins |-> c.origins, enabled |-> c.enabled, theme |-> c.theme]

OpenTab(s) ==
    /\ user[s] # Nobody /\ ~tab[s]
    /\ LET sv == IF saved[s] = NoForm THEN Fetched(TenantOf[user[s]]) ELSE saved[s] IN
       Rendered(s, sv, IF draft[s] = NoDraft THEN Fields(sv) ELSE draft[s],
                SeedText(sv.theme), SeedDesigner(sv.theme))
    /\ tab' = At(tab, s, TRUE)
    /\ overtaken' = IF saved[s] = NoForm THEN overtaken \ {s} ELSE overtaken
    /\ UNCHANGED <<configVars, user, call, early, budget>>

\* An edit of one control, then a run.
Edit(s) ==
    /\ tab[s] /\ Idle(s) /\ budget.edits > 0
    /\ budget' = [budget EXCEPT !.edits = @ - 1]
    /\ \/ \E o \in Origin : LET d == draft[s] IN
            Rendered(s, saved[s], [d EXCEPT !.origins = IF o \in @ THEN @ \ {o} ELSE @ \cup {o}],
                     text[s], designer[s])
       \/ Rendered(s, saved[s], [draft[s] EXCEPT !.enabled = ~@], text[s], designer[s])
       \/ \E t \in Theme \cup {Empty, Garbage} : 
            t # text[s] /\ Rendered(s, saved[s], draft[s], t, designer[s])
       \/ \E d \in [defaults : BOOLEAN, theme : Theme] :
            d # designer[s] /\ Rendered(s, saved[s], draft[s], text[s], d)
    /\ UNCHANGED <<configVars, user, tab, call, early, overtaken>>

\* The draft and the text are deleted and seeded again; the designer's keys
\* are not, and whether the toggle's is depends on Streamlit's version.
Discard(s) ==
    /\ tab[s] /\ Idle(s)
    /\ \E e \in {saved[s].enabled, draft[s].enabled} :
        Rendered(s, saved[s], [Fields(saved[s]) EXCEPT !.enabled = e],
                 SeedText(saved[s].theme), designer[s])
    /\ UNCHANGED <<configVars, user, tab, call, early, budget, overtaken>>

\* _draft_is_valid enables the button.
Save(s) ==
    /\ tab[s] /\ Idle(s)
    /\ Acceptable(draft[s]) /\ text[s] # Garbage
    /\ \E r \in Put : SendPut(r, TenantOf[user[s]], draft[s]) /\ call' = At(call, s, r)
    /\ UNCHANGED <<user, tab, formVars, early, budget, overtaken>>

\* 200 with the row as the request wrote it, before or with the commit.
Reply_keepsSaved(s, sv) ==
    Rendered(s, saved[s], Fields(saved[s]), SeedText(saved[s].theme), designer[s])
Reply(s, sv) == Rendered(s, sv, Fields(sv), SeedText(sv.theme), designer[s])

Written(r) ==
    LET b == put[r].body IN
    [widget |-> put[r].tenant, origins |-> b.origins, enabled |-> b.enabled, theme |-> b.theme]

AnswerPut(r) ==
    /\ put[r].pc = "written"
    /\ \E s \in Session :
        /\ call[s] = r /\ Reply(s, Written(r)) /\ call' = At(call, s, 0)
        /\ early' = At(early, s, r) /\ overtaken' = overtaken \ {s}
    /\ UNCHANGED <<configVars, user, tab, budget>>

Awaiting(r) == {s \in Session : call[s] = r}
AheadOf(r) == {s \in Session : early[s] = r}
Settled(S) == early' = [s \in Session |-> IF s \in S THEN 0 ELSE early[s]]

Commit(r) ==
    /\ CommitPut(r)
    /\ LET heard == Awaiting(r) \cup AheadOf(r) IN
       /\ Settled(heard)
       /\ overtaken' = (overtaken \ Awaiting(r)) \cup
                {s \in Session \ heard : saved[s].widget = put[r].tenant}
    /\ IF Awaiting(r) = {} THEN UNCHANGED <<formVars, call>>
       ELSE \E s \in Awaiting(r) : Reply(s, Written(r)) /\ call' = At(call, s, 0)
    /\ UNCHANGED <<user, tab, budget>>

\* Any other answer, or none in ten seconds: the form stays as it is.
Refused(s) == call' = At(call, s, 0) /\ UNCHANGED formVars

\* A commit that fails after the answer leaves the session a copy of nothing.
Refuse(r) ==
    /\ EndPut(r) /\ Settled(AheadOf(r))
    /\ IF \E s \in Session : call[s] = r THEN \E s \in Session : call[s] = r /\ Refused(s)
       ELSE UNCHANGED <<formVars, call>>
    /\ overtaken' = overtaken \cup AheadOf(r)
    /\ UNCHANGED <<user, tab, budget>>

GiveUp(s) ==
    ~Idle(s) /\ Refused(s) /\ UNCHANGED <<configVars, user, tab, early, budget, overtaken>>

Step(r) ==
    /\ ReadPrevious(r) \/ WriteRow(r)
    /\ UNCHANGED <<user, tab, formVars, call, early, budget, overtaken>>

ConsoleNext ==
    \/ \E s \in Session :
        \/ \E a \in Admin : SignIn(s, a)
        \/ SignOut(s) \/ OpenTab(s) \/ LeaveTab(s) \/ Edit(s) \/ Discard(s) \/ Save(s) \/ GiveUp(s)
    \/ \E r \in Put : Step(r) \/ AnswerPut(r) \/ Commit(r) \/ Refuse(r)

ConsoleSpec == ConsoleInit /\ [][ConsoleNext]_consoleVars

----------------------------------------------------------------------------
(* Properties *)

ConsoleTypeOK ==
    /\ config \in [Tenant -> Config]
    /\ \A t \in Tenant : Acceptable(config[t])
    /\ user \in [Session -> Admin \cup {Nobody}] /\ tab \in [Session -> BOOLEAN]
    /\ \A s \in Session :
        /\ saved[s] # NoForm => Fields(saved[s]) \in Config /\ saved[s].widget \in Tenant
        /\ draft[s] # NoDraft => draft[s] \in Config
        /\ text[s] \in Theme \cup {NoKey, Empty, Garbage}
        /\ call[s] \in Put \cup {0} /\ early[s] \in Put \cup {0}
        /\ tab[s] => user[s] # Nobody /\ saved[s] # NoForm /\ draft[s] # NoDraft

\* widget_page.py:180-188, 410-417: what a session holds as saved is what the
\* server has, or what the request that answered it is about to commit, unless
\* since then that commit failed or another update of that tenant was committed
\* (another session's, or one of its own whose answer it had given up).
SavedIsTheServers ==
    \A s \in Session \ overtaken : saved[s] # NoForm =>
        Fields(saved[s]) = IF early[s] # 0 THEN put[early[s]].body ELSE config[saved[s].widget]

\* widget_service.py:349-388: the audit rows of added and removed origins
\* replay to the row's origins, for a tenant whose updates did not overlap.
TrailReplays ==
    \A t \in Tenant \ crossed : \A o \in Origin :
        trail[t][o] = (IF o \in config[t].origins THEN 1 ELSE 0)

\* UI-spec.md:122, "Page-level state: filter values, form drafts. Wiped on
\* logout via auth_state.clear_session": the widget page shows a tenant's
\* admin that tenant's configuration.
FormIsTheTenants ==
    \A s \in Session : tab[s] => saved[s].widget = TenantOf[user[s]]
=============================================================================
