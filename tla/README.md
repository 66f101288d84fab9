# A verification project for the multi-tenant AI chatbot

The repository is a FastAPI service that answers the visitors of many tenants'
websites through an embedded widget, a Postgres database with row-level
security, Redis for session memory, a classifier service and a language model,
and admin pages for tenant managers and tenant admins. This directory holds
TLA+ modules of the parts where requests interleave, fail half-way or restart,
TLC configurations that check them on small instances, and TLAPS proofs of what
matters most for every instance.

Paths below are relative to `src/`; `app/` is `src/app/`.

## 1. Inventory

Every HTTP request runs as one coroutine with one SQLAlchemy session
(`app/db/session.py`): commit after the handler, rollback on an exception. Whether
the response leaves before that commit is FastAPI's choice (since 0.118 it does, before
it did not) and `pyproject.toml:7` does not pin the version.
Postgres runs at its default, READ COMMITTED, so two requests interleave at
every statement. Nothing else is shared by requests but process memory (the
limiters, the in-memory widget repository, one set of seen keys) and Redis.

| Component | State | Operations | What is hard | What makes it correct |
|---|---|---|---|---|
| Message router `app/agent/router.py` | none | classify, fall back to keyword rules, map label to route | the classifier is down or unsure | an unsure verdict never writes |
| Agent loop `app/agent/agent.py` | iteration and token counters of one turn | call the model, run its tool calls, hit a cap, hand over, fall back to a deterministic plan | the model's free choice; an exception after tools ran | caps hold, one exit audit, one hand-over and last, true claims |
| Chat service `app/services/chat_service.py` | Redis memory through `cache.py` | route, run a workflow or the agent, remember | three workflows and an agent must tell visitors the same truth | the contract of a turn |
| Chat tools `app/agent/tools.py` | leads, conversations, escalation_tickets, audit_logs | capture_lead, escalate, rag_search | two turns of one session; a failed insert in the middle | one ticket per session; leads within the cap |
| Rate limiters `app/services/rate_limiter.py` | token buckets and lead windows in process memory | refill, consume; check and increment | fractions of a refill, a window that restarts lazily, restarts of the process, rolled-back inserts | no more pass than the limit, nobody is refused before it is spent |
| CMS and index `app/services/cms_pages.py`, `app/rag/ingest.py` | cms_pages, rag_chunks | create, update, archive, re-index | concurrent edits, a SAVEPOINT that is given up, row locks in two orders | the index is one whole published body |
| Chunking and retrieval `app/rag/retriever.py` | none | cut a text; rank chunks | boundaries of the sliding window | no gap, no repetition, an end |
| Tenant lifecycle `app/services/tenant_service.py` | tenants.status, erasure_jobs | provision, suspend, erase, count usage | an erasure of several statements beside requests admitted before | rows accounted for, erasure final |
| Widget tokens and configuration `app/services/widget_service.py` | widget_configs, signed tokens | exchange, update | a token outlives what it was issued for | tokens only for active tenants |
| Admin login and tokens `app/services/admin_auth.py`, `app/api/deps.py` | admin_users, signed tokens | login, decode | likewise | only users in good standing act |
| Admin invites `app/services/admin_invite.py` | admin_invites, admin_users | create, accept, revoke, resend | requests that overlap, expiry, answers that are lost (a token is in its answer only) | an email gets one account, a dead link serves nobody, the pages tell what is so |
| Session memory `app/infra/cache.py` | a Redis list per session | append (push, trim, expire), read | three calls per append; Redis away | bounded, expiring, ordered |
| Tenant records: escalation inbox, agent configuration, settings | their rows | read, create on first use, patch | read-modify-write without locks, forms sent whole | audits replay; untouched fields stay; one row |
| Admin pages `admin/` | Streamlit's session_state of a browser session | sign in and out, fetch, edit, discard, save | keys that outlive their page or their admin; answers that never come | what a page calls saved is the server's; a form is its tenant's |
| Widget frontend `frontend/widget/` | the reducer's state | load, exchange, send, answer, fail, expire, retry, reset | an answer to a request sent before a reset; a retry of a turn that has run | one frame, one message in flight, answers below their questions, an end to every wait |
| Schema `app/db/models.py`, `app/db/migrations/` | tables, columns, keys, policies; alembic_version | six migrations up and down | two commands at once; rows that refuse a constraint; lists kept apart from what they list | the revision tells the schema, head is what the ORM maps, every tenant table is shielded |
| Guardrails, redaction, tracing; model server; configuration | none, or read once | functions of one message | none of the kind modelled here | unit tests |

How they meet: a chat request decodes the widget token (it never looks at the
tenant again), the chat service asks the router, runs a workflow or the agent,
both call the chat tools, which consult the lead limiter and write rows in the
request's transaction; `rag_search` reads the chunks that CMS edits write; an
erasure deletes the leads, conversations and pages all of them wrote.

`PROJECT.json` lists the components with their status, and under `hazards` each
place where one of the hard behaviours bites, with the properties that watch it.

## 2. Modules

| Module | Models | Code |
|---|---|---|
| `TurnContract` | what one turn promises: leads while open, at most one hand-over and nothing after it, "handed over" said exactly after a hand-over; a follow-up may be promised without a ticket | abstract |
| `AgentTurn` | one turn: router, the four workflows, the tool loop, both caps, the deterministic plan | `router.py`, `agent.py`, `chat_service.py` |
| `TicketRegistry` | what escalation promises a tenant's team: a session's one ticket never changes, a committed turn names that of its own session or none | abstract |
| `ChatData` | the rows of concurrent turns of one tenant, their transactions, the lead limiter, restarts | `tools.py`, `session.py`, `rate_limiter.py`, the repositories |
| `CmsIndex` | one page and its chunks, edited concurrently | `cms_pages.py`, `cms_repo.py`, `ingest.py` |
| `Chunking` | `chunk_text` | `retriever.py` |
| `TenantLifecycle` | one tenant, its managers, visitors and admins | `tenant_service.py`, `tenant_repo.py`, `widget_service.py`, `admin_auth.py`, `deps.py` |
| `WidgetClient` | the embedded widget in a page: the loader's tags and frame, the exchange at its start, the reducer and its requests in flight | `frontend/widget/public/widget.js`, `frontend/widget/src/` |
| `SessionMemory` | the turns of a session and the Redis list they share | `app/infra/cache.py`, `chat_service.py` |
| `WidgetVisit` | the two composed: a visit, from script tags to answers, over a network that loses requests and replies | also `deps.py`, `routes/chat.py` |
| `RateLimiters` | the token buckets of an exchange and the lead window, with a clock | `rate_limiter.py`, `widget_service.py` |
| `SchemaMigrations` | the six migrations as statements over facts (a table, a column with its key, a policy), run by concurrent commands | `app/db/migrations/`, `app/db/models.py` |
| `AdminInvites` | invites, the accounts made from them, and the two pages that send the requests | `admin_invite.py`, `admin_invite_repo.py`, `admin/invites_page.py`, `admin/accept_invite_page.py` |
| `WidgetConfigs` | the configuration's overlapping updates and their audits | `widget_service.py`, `widget_repo.py` |
| `AdminConsole` | extends `WidgetConfigs` by the admins' browser sessions and the widget page | `admin/auth_state.py`, `admin/widget_page.py`, `admin/login_page.py` |
| `TenantRecords` | a ticket, the settings or the agent's configuration, read and written back by overlapping saves of whole forms | `escalation.py`, `agent_config.py`, `tenant_settings.py`, their repositories and pages |
| `MC*` | the instances TLC checks | |
| `*Proofs` | the proofs (section 4): `AgentTurnProofs`, `ChatDataProofs`, `TenantContentProofs` (`CmsIndex`, `TenantLifecycle`, `Chunking`), `SchemaMigrationsProofs`, `AdminInvitesProofs`, `BackOfficeProofs`, `WidgetVisitProofs` (with `RateLimiters`) | |
| `FiniteSums` | lemmas on sums over finite sets, for the proofs about limits | |

### State and actions

**AgentTurn.** `pc` is the place in the handler; `iterations`, `tokens`, `pending`,
`lastLead`, `used` are the loop's locals (the last four are `cumulative_tokens`, the
rest of `tool_calls`, `last_capture_status`, `used_tools`). `leads`, `tickets` and
`audits` count what the turn has done to the outside. `RouteMessage` is the
router, `Blocked`, `WorkflowRag`, `WorkflowCapture`, `WorkflowEscalate` the four
branches of `_execute_decision`. `LlmText`, `LlmToolCalls`, `LlmRaises` are the
three outcomes of a completion; `RunTool`, `EscalateByModel`, `NextIteration`,
`TokenCapHit`, `IterationCapHit` what follows. `MakePlan`, `Planned*`,
`FinishPlan` are `_run_deterministic`. The classifier, the model, token usage and
tool results are free choices. The answer is the set of claims it makes to
the visitor (`Claims`); its wording is left out.

**ChatData.** A turn is a transaction (`txn`) with its uncommitted rows
(`newConv`, `newTickets`, `newLeads`); `conversations`, `tickets`, `leads` are
committed. Each SELECT and INSERT of `escalate` is an action, because another
turn can commit between them. An insert whose unique key another open
transaction holds is not enabled until that one ends (`KeyFree`); it then
succeeds or raises (`UniqueViolation`). `AuditFails` is the swallowed error of
`_emit_audit_safe`: SQLAlchemy has rolled the session back, so the transaction is
`"broken"` and its next statement raises (`PendingRollback`). `CheckAndIncrement`
is one action since the limiter has no await under its lock. `Restart` loses
open transactions and the limiter's counts. `DatabaseError` is any other failing
statement, a value too long for its column included.

**CmsIndex.** `page` and `index` are committed; `draft`, `removed`, `added` are
what each open transaction did. `Load*` reads the page, `Flush` sends the UPDATE
of the columns that differ from what was loaded and reads the row back (`seen`),
`DeleteChunks`/`ChunksDeleted` are the start and the end of the DELETE (it may
wait in between), `InsertChunk` and `CheckPage` an INSERT and its foreign key.
`Blockers(r)` says whom a statement waits for: `Deadlocked` is a cycle of it.
`SkipSync` is the SAVEPOINT rolled back and the error logged. A visitor sees
`ServedTexts`.

**TenantLifecycle.** A manager's request goes through `LoadTenant`,
`FlushStatus` (which takes the row lock, unless the status is what was loaded),
the three DELETEs of `erase_tenant_rows`, `Finish`, `CommitManager`. A DELETE is
refused when a visible row is referenced. A visitor's token request reads the
status (`AskForToken`) before it is answered (`IssueToken`, `RefuseToken`); a turn
asks only for an unexpired token. An admin logs in and creates one page.

**Chunking.** A text is its length, a chunk an interval; `TakeChunk` is one round.

**WidgetClient, SessionMemory, WidgetVisit.** `script`, `frames`, `greeted` are the
loader's; `app` and `session` the exchange; `chat` is the reducer's state and
`calls` the fetches in flight, each with its question. `SendStart`, `SendOk`,
`SendError`, `SessionExpired`, `RetryLast`, `Reset` are the reducer's cases, as
functions from state to state; `Send`, `Retry`, `Hide` and `Settle` dispatch them.
On the server a turn is at one of `Steps`, the Redis calls of its two appends
and its read; `LoseRedis` fails the call it is at, `RecordUnavailable` then marks the
session and adds the notice to the transaction, or its flush fails, is swallowed and
leaves the transaction `broken`: such a turn cannot commit. `CommitFails` is any failing
commit. `WidgetVisit` joins them: `Arrive`
starts a turn for a call (or answers 401 after `TokenExpires`), `Reply` brings its
outcome back, before the commit or after it, `LoseRequest` and `LoseReply` are the network's.

**RateLimiters.** Tokens are counted in parts, `Minute` of them to a token, so that
`elapsed * rate` is a whole number; `Tick` moves the monotonic clock. A behaviour
watches the buckets or the window (`watched`).

**SchemaMigrations.** A schema is a set of facts. `Up0001` .. `Up0006` and
`Down0001` .. `Down0006` are the scripts, statement for statement; `Legal`,
`After`, `Refused`, `Blockers` are what Postgres makes of a statement. A runner is
an alembic command: it reads the revision (`Begin`), runs statements in one
transaction (`added`, `dropped`, and `locked`, the tables it keeps until the end,
those included on which a statement had no effect), stamps, commits. `Leading` is
the script between two neighbouring revisions, `Views` what it sees statement by
statement when nothing runs beside it; `ScriptsAlone` says that each of the twelve
then does what it should. `twins` are rows a later unique constraint refuses, `marks`
values whose loss a migration would cause.

**AdminInvites.** A link is the number of an invite's token (`resend` makes the
next); a request is at `pc` from `Arrive` to `CommitRequest`, one SELECT, INSERT or
UPDATE to a step, and waits for the row or the email another one holds. `recent` is
the list the invites page keeps in its session, `page` the screen of the accept
page. `StopWaiting` is the client's timeout: the request runs on. `AnswerRequest` is the
answer that leaves before the commit, `answered` are the requests answered so; without it
`CommitRequest` answers. `Reload` is a browser reload of the invites page, which ends the
Streamlit session and its list; `EnterAccount` the sign-in the accept page tries next.
`drawn` counts an invite's tokens: of a resend that is answered and then fails, the page
has a token the row has not. `holder` is history: whose page was given the good link.

**WidgetConfigs, AdminConsole.** A PUT is `ReadPrevious`, `WriteRow`, `CommitPut`;
`trail` replays its audit rows. `saved`, `draft`, `text`, `designer` are the keys of
session_state behind the page; `Rendered` is what a run of the script leaves in
them. `SignOut` deletes the five keys `clear_session` names. `AnswerPut` answers before
`Commit`, and `early` is the request a session's copy then came from.

**TenantRecords.** One behaviour follows one of three tables, which share their
shape and differ in their unique key, in what an UPDATE names, and in what a page
sends. `form` is a page's values, `Send` takes them as a request's `wanted`. `AnswerSave`
answers before `CommitSave`.

### What is deliberately coarse

* A row is named after who inserted it; a turn inserts at most one conversation
  and one ticket, so that the name identifies it.
* Text is what the properties tell apart: a claim, a body, a length.
* `AgentTurn` and `ChatData` split a turn: which tools it calls, and what they
  write beside other turns. `ChatData` lets a turn capture leads in any number up
  to the bound and escalate last, which `TurnContract` says every turn does.
* `TenantLifecycle` keeps of a turn the rows it commits (a conversation stands for
  its ticket too: `ConversationHasTicket` of `ChatData` says why) and of a page
  whether it has chunks.
* `WidgetConfigs` leaves out the greeting, which travels with the other fields, and
  the spelling of origins. `AdminInvites` leaves out that the invites page forgets
  its oldest of 25 rows. `TenantRecords` has two fields of a record (of the
  configuration, one for each page that edits it).
* Audit rows are taken in the order of their commits.
* The Postgres rules (READ COMMITTED, unique keys, foreign-key locks, deadlock
  detection) and SQLAlchemy's unit of work (an UPDATE only for changed columns, a
  failed flush rolls back) are modelled as the code uses them.

## 3. Runs

| Run | Question | States | Properties |
|---|---|---|---|
| `turn_and_schema` | Does every way through a turn keep its contract and end? Do two overlapping alembic commands leave a schema that the revision tells and the ORM fits? | 231,398 | `TypeOK`, `OneExitAudit`, `NoCallPastACap`, `LoopLeadClaimIsTrue`, `UncertainNeverWrites`, `ContractSpec`, `Termination`; `RevisionTellsSchema`, `SchemaFitsTheApp`, `CommandsGoThrough`, `UpgradesKeepRows` |
| `chat_data` | Do concurrent turns share one ticket and one lead cap, and end? | 334,008 | `TypeOK`, `OneTicketPerSession`, `ConversationHasTicket`, `LeadsAdmitted`, `RegistrySpec`, `EveryTurnEnds` |
| `tenant_content` | What do concurrent edits make of a page's index, what does `chunk_text` cut, and what does an erasure leave? | 193,575 | `TypesOK`, `IndexIsOneText`, `OnlyPublishedServed`, `LoneEditRepairs`, `EveryEditEnds`; `ChunksCover`; `RowsAreAccounted`, `SettledErasureIsFinal`, `EveryRequestEnds` |
| `widget_visit` | Do widget and server stay in step through losses, retries and hidden pages, and do the limits hold? | 560,654 | `TypeOK`, `OneFrame`, `ConversationInStep`, `MemoryIsTidy`, `MemoryServesTheTurn`, `WaitsEnd`; `LimitsHold` |
| `back_office` | Do overlapping requests of admins, and their pages, tell the truth of invites, widget configurations and records? | 906,577 | `TypesOK`, `InvitesAreSingleUse`, `PagesTellTheTruth`; `SavedIsTheServers`, `AuditsReplay`; `UntouchedFieldsStay`, `WorkEnds` |
| `captured_claim`, `failed_audit`, `lead_ceiling`, `stale_index`, `erasure_refused`, `erased_not_empty`, `signed_out_form` | Is what a comment or a document says of the program so? | | one each, violated |

Parts that share no state share a run: its MC module has a variable (`follows`,
`watched`, `office`) that picks the part a behaviour follows, while the others keep
one initial state; in `turn_and_schema` the alembic commands follow the turn on a blank
message, which is over after one step. The states of such a run are the sum of its parts, not their
product. A property that joins others is the conjunction of named parts, each
with its own comment in the module.

What the passing runs show:

* **A turn.** `ContractSpec` is a refinement: with `outcome` read off `pc` and the
  answer, every step of `AgentTurn` is a step of `TurnContract` or a stutter. So a
  turn hands over at most once, writes nothing afterwards, and says that the visitor was
  handed over exactly when he was, through loop, caps, fallback and plan. It does promise
  follow-ups without a ticket: the fallback text (`app/agent/agent.py:504-505`), the plan's
  answers (`agent.py:585`, `agent.py:594`) and the workflow's at the lead limit
  (`chat_service.py:147`) say that the team will reach out or follow up. `TurnContract`
  has a closing of its own for these (`Promise`), which asks for no row.
  `OneExitAudit` counts the exit audits on all those ways. `UncertainNeverWrites`
  says the router alone never causes a write on an unsure verdict.
* **Rows of turns.** `escalation_tickets` has no unique key; one ticket per
  session holds because the conversation has one and because a conversation
  becomes visible only together with its ticket (`ConversationHasTicket`). The
  mutant that commits the conversation first breaks it. `RegistrySpec` is the
  same seen from outside: a turn belongs to one session, and what it names when its
  transaction commits is that session's ticket.
* **The index.** Whatever edits interleave, deadlock, fail or are rolled back, the
  committed chunks are all the chunks of one body (`IndexIsOneText`), a body the
  page was published with (`OnlyPublishedServed`), and any later edit that runs
  alone and whose index writes succeed repairs the index (`LoneEditRepairs`).
* **Erasure.** `RowsAreAccounted`: a row that was ever committed is there or in
  exactly one job's count. `SettledErasureIsFinal`: suspension, then the expiry of
  tokens, then erasure leaves no chat row for ever; nothing weaker does.
* **A visit.** However calls are lost, retried and answered late, the spinner shows
  a call, an answer stands below its question, and the server runs a question at
  most once more than the visitor was told of a failure (`ConversationInStep`);
  a hide while a call is out weakens each of these in the way the module says, and
  no further. Concurrent turns leave a bounded list; what has no expiry
  holds only messages whose append lost Redis or goes on, so one append that goes through
  is enough for the list to expire, and without one it may stay for ever. A loss has one
  notice however many turns meet it together, and for ever none when the turn that met
  it first fails or cannot write it (`MemoryIsTidy`). Each turn reads the message it
  answers unless its own append lost Redis or newer messages pushed it out
  (`MemoryServesTheTurn`).
* **Limits.** In no minute do more exchanges pass than a full bucket and its refill;
  in no hour more leads than twice the cap, which is what a window that restarts
  lazily gives, although `rate_limiter.py` calls it a hard ceiling (`lead_ceiling`); nobody is
  refused who has not spent a limit (`LimitsHold`).
* **Schema.** At every revision, whichever way it was reached and whoever raced, the
  schema is what that revision's scripts make of an empty database; at head it has
  every table and column of the ORM, and row-level security on every table with a
  tenant_id; two commands that wait for each other are parted
  (`CommandsGoThrough`). No upgrade loses a value.
* **Invites.** Whatever overlaps, an email gets one account, by one invite, and a
  request that arrives with a dead link changes nothing (`InvitesAreSingleUse`). An
  invite may end used and revoked, but only by requests that overlapped.
  `PagesTellTheTruth`: a page that was given the link that is good has it until the
  browser reloads it or its admin has the link replaced; a visitor who is signed in has
  an account of his own, and one told that his account was created has it unless his
  accept was answered before its commit and the commit is to come or has failed.
* **Widget configuration and records.** What a session calls saved is the committed
  row, or the one its answer was about to commit, unless that commit failed or another
  update passed it (`SavedIsTheServers`); a save of its own whose answer it gave up is
  another update too, and the page cannot tell. Audit rows replay to
  the row: for origins where updates did not overlap, for a ticket always
  (`AuditsReplay`). A save sends fields its admin never touched; unless it was sent or
  served over a save it had not seen, they stay (`UntouchedFieldsStay`). The settings page
  never fetches (`admin/settings_page.py:72`), so any later save of another admin is one
  it had not seen, however long after. Two rows come of overlapping first saves of the
  agent's configuration only, whose table has no unique key.

### Findings

Each is a run that TLC must find violated:

* `captured_claim`: a refused or malformed `capture_lead` (an extracted phone
  number with dots, for instance) is answered as captured.
* `failed_audit`: "swallow errors so a failed audit never breaks a tool" does not
  hold: the swallowed error has rolled the session back, and the turn fails at its
  next statement or at its commit, with its leads.
* `lead_ceiling`: "N writes per hour, hard ceiling" (`app/services/rate_limiter.py:94-96`)
  does not hold across two windows: the cap passes at the end of one and again at the
  start of the next.
* `stale_index`: "each successful mutation keeps the index in sync" does not hold
  of overlapping edits: a republish reads the body, another edit replaces body and
  chunks and commits, the first then replaces the chunks with the old body.
* `erasure_refused`: a conversation with a ticket, or a page with chunks, is
  referenced by rows the erasure does not delete, and refuses it.
* `erased_not_empty`: a turn or an admin admitted before the erasure writes after
  it.
* `signed_out_form`: "page-level state: filter values, form drafts. Wiped on logout
  via `auth_state.clear_session`" does not hold of the widget page: the next admin
  who signs in in that browser session sees the form of the one before, of another
  tenant, and may save it as his own.

Observed while reading, without a run of their own:

* A completion without tool calls ends the turn even when its tokens pass the cap
  (`app/agent/agent.py:255`), while the module's docstring (line 9) calls it hard.
* A refused `escalate` followed by a text reply sets `escalated` in the result
  (`app/agent/agent.py:272`).
* A blank message is refused by the router, whereas the query catalogue has it
  escalated.
* Suspending an erased tenant is allowed, against specs/005's data model.
* Admins of a suspended tenant can log in, against specs/009's user stories.
* The details of a revoked invite are a server error: its status is none of those
  the response may have (`app/domain/admin_invite.py:44`).
* The ticket service allows the status `pending` (`app/services/escalation.py:47`),
  which the table's CHECK refuses (`app/db/models.py:695`): `WriteFields` of
  `TenantRecords` has the failing UPDATE.
* Discard on the widget page keeps the theme designer's keys, and the raw JSON wins
  over the designer while it holds a theme (`admin/widget_page.py:337`).
* "If Redis is unavailable, chat continues without memory instead of failing the visitor
  turn" (`app/infra/cache.py:38`) holds but for a notice whose insert fails: the error is
  swallowed (`app/services/chat_service.py:246`), the transaction is lost, and the turn
  fails at its next statement or commit, as in `failed_audit`.
* The one-shot `memory.unavailable` audit that is to let the operator see an outage
  (`app/services/chat_service.py:14-15`) is never written when the turn that met the
  outage first rolls back: the session stays marked (line 234). `OneNotice` says so.
* A commit that fails after its response, where the framework orders them so, leaves the
  visitor with an answer whose rows are gone, an accepted invitee with "Account created"
  and no account, the invites page with a token that no row has.
* A message of the host's that arrives before the frame listens is lost, and the
  frame waits for it for ever (`greeted = "missed"` in `WidgetClient`).

### Bounds

* `turn_and_schema`: three iterations, one or two tool calls in a completion, a token
  cap of three with completions of 0, 1 and 3 tokens: the token cap is hit at once,
  gradually or never, and before, with or after the iteration cap. The code's caps are
  larger and reach no other combination. `AgentTurnProofs` drops the bounds.
* `chat_data`: three turns, of one session or two and one; a cap of one lead, one
  call in a turn, one restart: turns of a session compete for the cap, and a restart
  opens a second window. Three are
  enough for a turn to wait for another while a third finds its row; more repeat
  it. Turns and sessions are interchangeable, so two assignments stand for all.
* `tenant_content`: three edits, bodies of no, one and two chunks, changes of body,
  status, slug, and body with status: two edits make a race and a deadlock, the
  third edits afterwards, alone. Texts of 0 to 9 characters for a least chunk of 3,
  sizes and overlaps from below their clamps to above them; up to seven chunks (the
  proof drops these bounds). Two managers' requests, one visitor, one admin; a
  visitor commits a lead, a conversation or both, once.
  A turn on any other than a blank message is run from one revision only (`OnceAtHead`):
  the two share nothing. Of the schema, two runners, the goals head, base and the revision in the middle, from
  every revision; one troublesome row at a time. Two are enough for a race and a
  deadlock; a third waits behind them.
* `widget_visit`: two script tags; two questions, three calls and a hide, or one
  question asked twice with Redis lost twice; three turns, of which two run at the same
  time (`Pairwise`), and two messages kept, so that the list is trimmed under a turn that
  reads it. The clock runs for one and a
  half periods of a bucket and two hours of a window, capacities 2 and 3, caps 1 and 2.
* `lead_ceiling`: one address, a cap of two, an hour of three instants.
* `back_office`: two invites of one email, two visitors, a manager, whose page is reloaded
  in one of the plans, and an admin, two or three requests (`SmallPlans` lists who races whom); two sessions, admins of two
  tenants, two PUTs, two origins and one theme, one or two edits; two admins,
  alike (`FirstSends`: d1 is the first to send), and three saves of a record of two
  fields, the first of which may be answered before its commit (`Early`). Every pair of operations on one row
  overlaps in some behaviour, and a third comes after or between.

### Fairness

* `AgentTurn`: weak fairness of the turn. Its coroutine is resumed whenever a call
  it awaits returns or raises, and the clients carry timeouts. Nothing is assumed
  about what the model answers.
* `ChatData`, `CmsIndex`: weak fairness of each request's own steps, which stand
  for the event loop and for Postgres granting a lock that is free and detecting
  deadlocks. Failures, audits that fail, restarts and new requests are not fair.
  Weak suffices because a waiting statement stays enabled once its holder has ended
  and nobody else takes what it waits for for ever: requests are finite.
* `TenantLifecycle`: the same for managers' requests; visitors and admins may stop.
* `WidgetVisit`: weak fairness of the page's steps, of calls that arrive and are
  answered, and of turns. `fetch` has no timeout of its own in the widget: that it
  ends, in an answer or an error, is assumed (the browser and the server close idle
  connections). Visitors, losses and expiries are not fair.
* `AdminInvites`, `TenantRecords`: weak fairness of requests in service, without
  their failures. Admins and visitors may stop.
* `tenant_content`, `widget_visit`, `back_office` assume less than the above: one
  weak fairness of the union of the steps, that something in service goes on. It is
  enough because every instance is finite and none of these steps repeats for ever.
* `Chunking`, `RateLimiters`, `SchemaMigrations`, `WidgetConfigs` and `AdminConsole`
  state no liveness (of migrations: that one of two commands can always move is the
  invariant `CommandsGoThrough`); `RoundsAdvance` is the measure that ends the loop
  of `chunk_text`.

Deadlock checking is off in all runs: every instance has finitely many requests,
and stops when they have ended. That no request is stuck is what the liveness
properties say.

## 4. Theorems

| Module | Proved | From |
|---|---|---|
| `AgentTurnProofs` | `TypeOK`, `OneExitAudit`, `NoCallPastACap`, `LoopLeadClaimIsTrue`, `UncertainNeverWrites`, and the refinement of `TurnContract`, for every cap, usage and batch size | `CapsAssumption` |
| `ChatDataProofs` | `TypeOK`, `OneTicketPerSession`, `ConversationHasTicket`, `LeadsAdmitted`, and the refinement of `TicketRegistry`, for any number of turns, sessions, restarts | `ChatDataAssumption`; `LeadsAdmitted` also that the turns are finitely many (it adds up their leads) |
| `TenantContentProofs` | `IndexIsOneText`, `OnlyPublishedServed`, `LoneEditRepairs`, for any requests, bodies and chunk counts; `ChunkTypeOK`, `ChunksCover`, `RoundsAdvance`, for every text, size and overlap; `TenantTypeOK`, `RowsAreAccounted`, `SettledErasureIsFinal`, for any number of managers, visitors and admins; the types of page, text and rows together | `CmsIndexAssumption`, `ChunkingAssumption`, `TenantLifecycleAssumption` |
| `SchemaMigrationsProofs` | `RevisionTellsSchema`, `SchemaFitsTheApp`, `UpgradesKeepRows`, and that no script is refused by the schema it meets (`ScriptsApply`), for any number of commands and any goals; `CommandsGoThrough` for two commands | `MigrationsAssumption`; `ScriptsAlone`, for `SchemaFitsTheApp` also `RevisionsFit` |
| `AdminInvitesProofs` | `InvitesTypeOK`, `InvitesAreSingleUse`, `PagesTellTheTruth`, for any invites, emails, consoles and visitors | none |
| `BackOfficeProofs` | `SavedIsTheServers`, `UntouchedFieldsStay`, `AuditsReplay`, for any sessions, updates and saves; the types of the back office | `ConsoleAssumption`, `RecordsAssumption` |
| `WidgetVisitProofs` | `TypeOK`, `OneFrame`, `ConversationInStep`, `MemoryIsTidy`, `MemoryServesTheTurn`, for any tags, questions, calls, turns, hides and losses; `LimitsHold`, for any addresses, rates, caps and pauses | `ClientAssumption`, `MemoryAssumption`, `VisitAssumption`, `LimitersAssumption` |

The exact statements are in the modules and listed in `PROJECT.json`. What the
assumptions on the constants say of the program:

* a sentinel is not a value (`None` is no turn, no text and no page; the unfit value
  is not the default of a field), and a visitor's request is not an admin's (rows
  are named for who inserts them);
* caps, sizes and bounds are natural numbers, `max_messages` is not zero
  (`app/infra/cache.py:46`), an admin belongs to one tenant, updates are numbered
  from one, there is a theme to choose;
* there is a turn for each call that a visit's budget allows;
* a command is asked for one of the six revisions or for base;
* rates and periods are positive, an address is neither of the two other scopes, and
  the caps a tenant may set for leads have a largest one
  (`app/services/tenant_settings.py:44`). No setting forbids a rate of 0: its bucket
  holds nothing and refuses everyone, and the bound of `TokensBounded` would not
  be one.

TLC evaluates all of them on the instances it runs.

`ScriptsAlone` and `RevisionsFit` are hypotheses of another kind: they name no variable
and no constant, so they are true or false of the text of the six scripts once and for
all, and what they say is the value of a recursion over that text, which a prover
cannot compute and TLC does. The run `turn_and_schema` evaluates both on every check:
`ScriptsAlone` is a conjunct of `CommandsGoThrough`, and the initial states are the
seven revisions, in each of which `SchemaFitsTheApp` is a conjunct of `RevisionsFit`.
What the theorems add is everything that overlaps, failures and repetitions could do.

The shape of each argument:

* **AgentTurn.** None of the properties is inductive. The invariant adds what
  connects the program counter to the history: which route the verdict chose
  (`RouteFollowed`), that a hand-over leaves nothing more to execute
  (`HandOverIsLast`), that the loop is under its token cap whenever it is about to
  call the model (`LoopUnderTokenCap`), that the loop's memory of a captured lead
  is true (`LeadRemembered`), and that an exit audit has been emitted exactly when
  the turn has ended by the agent. The refinement has one case for each action:
  the step it maps to, or a stutter.
* **ChatData.** One ticket per session needs to know about uncommitted rows: who is
  at which statement has inserted what (`Inserted`), no two transactions together
  hold a session's key (`KeyUnique`), and a conversation, committed or not, that a
  turn holds is either its own and without a ticket yet, or committed with one
  (`TicketWithConversation`). The last is the inductive heart: a turn opens a ticket
  only for a conversation it inserted itself. The refinement uses the same invariant:
  a commit with a new ticket is the registry's step that opens it and reports it, a
  commit without one reports the ticket the turn found, everything else stutters.
  `LeadsAdmitted` is not inductive: between the limiter's yes and the insert a lead is
  counted and not there. `Admitted` adds it as the weight of a turn; a step changes the
  weight of one turn, and what the sum over a session's turns gains is what that term
  gains (`TotalChange` of `FiniteSums`).
* **Chunking.** The last chunk ends one overlap past `start` (`LoopPosition`), and
  the overlap is less than a chunk; the rest is arithmetic on `Append`.
* **TenantLifecycle.** The accounts need who has written and deleted what in an open
  transaction (`WrittenBy`), that the row lock makes erasures take turns (`OneLock`),
  and that rows are named for who inserts them (`NewRows`). The settled erasure needs
  more: once it is calm nobody is left who may write a chat row (`Quiet`), so what an
  erasure has yet to delete only shrinks (`CalmErasure`, `Settled`).
* **CmsIndex.** The index is one text because the DELETE of a request takes all the
  chunks there are or none (`FoundOrGone`), who has deleted has deleted all of them and
  alone (`DeletedAll`), and who inserts has deleted before and holds the first chunks
  of its own body (`InsertsAlone`, `Inserted`). Only published bodies are served
  because a request that indexes has seen either its own draft, which its commit
  publishes, or a published page (`SeenPage`, `PublishedTold`). That a lone edit
  repairs a stale index is a second invariant over the first (`Lone`): alone, a
  request loads the page as it is and finds the chunks as they are.
* **SchemaMigrations.** A transaction has changed only tables it holds (`ChangesLocked`),
  and no two hold one (`LocksExclude`); only one holds the row of alembic_version, and
  while it does the revision is the one it began from (`OneStamps`). The heart is
  `InStep`: of the tables a command does not hold its scripts have changed nothing,
  and of those it holds it has made what they make of them, if it found them as at its
  start. A command that may stamp therefore commits the schema of its goal, though
  the revision may have moved away and back while it waited. That two commands cannot
  both be stuck is the case of `SomeRunnerMoves` the model breaks: a cycle of two.
* **AdminInvites.** An email has one account because accepting holds the email's key
  to the commit; a link is dead for good because nothing clears `used` or `revoked`
  and a resend replaces the link. For the pages: a request about to commit is alone on
  its row (`RowHeld`), so a resend that has been answered has drawn the invite's last
  token, which its console's list has and its commit makes good (`Ahead`); every other
  link known anywhere was drawn before (`Drawn`). A visitor told of a success is kept by his
  account, by the request still to commit, or by its failure.
* **AdminConsole.** What a session calls saved is one of the rows the server had, and
  the one it has now unless another update was committed since: this is carried
  through the request in flight and its answer (`SavedIsTheServers` with `OneWaits`,
  at most one of a session's requests is waited for, and `SessionsTyped`), and, when the
  answer left first, through the commit that is to come of the row it told
  (`EarlyIsToCome`). The audit
  rows replay to the row while updates did not overlap (`ReadAlone`, `OriginsKept`,
  `TrailReplays`).
* **TenantRecords.** A save in flight knows which fields its form touched and which
  row it has read (`SavesKnow`); a field nobody has touched is as it was last chosen,
  or a save was sent or served over one it had not seen (`UntouchedFieldsStay`, with
  `FirstSettings` and `NothingChosen` for rows that a first use creates). A ticket's
  audits replay in any interleaving since each is written with the row it tells
  (`AuditsTellTheTicket`).
* **WidgetVisit.** Memory: a turn that is to read finds its question behind no more
  messages than were pushed since, so a trim that drops it has newer ones to show
  (`QuestionKept`); the bound on the list counts the turns between a push and its
  trim; a list without an expiry grows only by an append whose `expire` is still to come or
  was lost; and the one turn that is marked holds the row that reports the loss, has
  committed it, or can do neither any more (`NoticedOnce`).
  Widget: before a hide there is one call, of the question a retry would repeat
  (`OneCall`), and what may yet be answered is shown and has no answer
  (`AwaitedShown`). Both together: a question that may be sent again has no turn that
  the widget was not told had failed (`OpenTold`).
* **RateLimiters.** A token bucket keeps a balance from every instant on (`Balanced`):
  what passed since and what is left is at most a full bucket and what was gained since,
  and at least the smaller of the two. The upper half bounds a minute, the lower half says
  what a refused caller has had. The second half needs the bucket to refill whether or
  not it was asked, so the invariant speaks of the level it would have now
  (`Level`). For leads, a window's count is what passed since its start, and the hour
  before its start was under one cap too (`LeadsIInv`): an hour meets two windows at most.
* **FiniteSums.** The folds of the community modules are choices of a recursive function;
  the library proves such a function exists by an induction whose theorem takes an
  operator, which is out of reach here. The module starts from the well-foundedness of the
  naturals, stated on sets (`LeastElement`, `SetInduction`): the set of those
  sizes for which a function summing every subset exists has 0 and every
  successor (`SumsExist`). What the proofs use follows from it: adding, changing,
  dropping and comparing terms.

Each of these invariants was checked by TLC on the run of its module before it was
proved. The proof of `InStep` corrected the model in two places TLC had passed: a
statement without a net effect keeps its table's lock too, and row-level security
cannot be disabled on a table that is not there.

Only model-checked:

* all liveness (`Termination`, `EveryTurnEnds`, `EveryEditEnds`, `EveryRequestEnds`,
  `WorkEnds`, `WaitsEnd`): fairness and ENABLED are out of the prover's reach;
* `ScriptsAlone` and `RevisionsFit`, closed formulas that TLC evaluates (above).

## 5. Not modelled

* The arithmetic of ranking and embeddings, pattern matching of guardrails and
  redaction, cryptography, prompts and wording, rendering: functions of one input,
  without a state a property could relate.
* Usage, cost and rate-limit rows of a tenant: inserts and counts that no other code
  acts on.
* The statement that sets the tenant context of a session: which rows a policy then
  admits is a question about SQL; `SchemaMigrations` says which tables have one.
* The patch of a lead's status, a ticket's without an assignee; the admin pages for
  leads, CMS, usage and audit logs, which fetch on every run and keep only a page number or an open confirmation.
* The in-memory widget repository: the setting's default, which the source keeps for
  tests and for one tenant's demo fixture. `WidgetConfigs` models the SQL repository
  (`app/repositories/widget_repo.py:151`, "production"), where the compensation of a
  failed audit (`app/services/widget_service.py:390`) is rolled back with the rest; in
  memory it restores an old snapshot over what another update has written since.
* Evaluation, seeding and CI scripts; configuration, read once at the start.
* Redis losing its data while it answers (a restart without persistence): the list is
  then as after its expiry, but for a turn between its push and its read, which would
  find its question gone.
* An answer before its commit is modelled of invites, the widget's configuration, the
  records and visits, where a page keeps what it was told. `ChatData`, `CmsIndex` and
  `TenantLifecycle` follow the rows: what they call answered is committed.
* The values a downgrade drops: `revoked_at` goes with its column (0005), so that after
  another upgrade an invite that had been revoked is pending. `UpgradesKeepRows` is
  about upgrades only.

## 6. Plan

Every safety property and both refinements the runs check are proved; only liveness and
the two closed formulas on the scripts are not (end of section 4). What is left, in this
order:

1. `SchemaMigrations`: `Deadlocked` sees cycles of two. With cycles of any length,
   `SomeRunnerMoves` would be provable for any finite number of commands.
2. `CmsIndex`, `TenantRecords`: an abstract specification of what an edit and a save
   promise, as `TicketRegistry` is of a ticket, and the refinement of each.
3. Steps towards liveness that are safety: that what waits waits for a request in
   service, as an invariant beside `EveryEditEnds` and `EveryRequestEnds`.

The number of runs is kept small: parts that share no state share a run with all
their properties, liveness included, and a run of its own is for a claim that fails.
