--------------------------- MODULE SchemaMigrations ---------------------------
(***************************************************************************)
(* The six alembic migrations, run up and down by runners that may         *)
(* overlap, over a database that already holds rows.                       *)
(*                                                                         *)
(* A schema is a set of facts: tables, columns, keys, checks, indexes and  *)
(* row-level security.  The types and nullability of columns are left out, *)
(* but for the two that are made NOT NULL once filled.  env.py runs all    *)
(* migrations of a command in one transaction: a runner's statements       *)
(* change its own view, other runners and programs wait for the tables it  *)
(* has touched, and its commit makes the view the schema.  The SQL itself, *)
(* locks and alembic's version table are Postgres' and alembic's.          *)
(***************************************************************************)
EXTENDS Integers, Sequences, FiniteSets

LOCAL INSTANCE SequencesExt

CONSTANTS
    Runner,     \* processes that run an alembic command
    Goals,      \* the revisions a command may ask for
    MaxRows     \* bound: rows that stand out (twins and marks) at a time

Latest == 6   \* the revision alembic calls head

ASSUME MigrationsAssumption == Goals \subseteq 0..Latest /\ MaxRows \in Nat

VARIABLES
    schema,     \* the committed schema
    version,    \* the committed alembic_version, 0 for base
    twins,      \* tables with two rows alike in what a later revision makes unique
    marks,      \* <<table, column>> where some row differs from the default
    running,    \* the runners whose command has begun and not ended
    at,         \* the revision its open transaction has reached
    start,      \* the revision it read when it began
    goal,       \* the revision asked for
    next,       \* the statement of the current migration it runs next
    added,      \* facts its transaction has added
    dropped,    \* facts its transaction has dropped
    locked,     \* tables it holds until its transaction ends
    broken      \* history: a statement was refused by the migrations themselves

data == <<twins, marks>>
work == <<running, at, start, goal, next, added, dropped, locked>>
migrationVars == <<schema, version, data, work, broken>>

----------------------------------------------------------------------------
(* Facts and statements *)

Fact(kind, t, name, cols) ==
    [kind |-> kind, on |-> t, name |-> name, cols |-> cols, to |-> <<"", "">>]

Column(t, c) == Fact("column", t, c, {c})
Unique(t, name, cols) == Fact("unique", t, name, cols)
Check(t, name, c) == Fact("check", t, name, {c})
Index(t, name, cols) == Fact("index", t, name, cols)
Foreign(t, c, parent, key) ==
    [Fact("foreign", t, c, {c}) EXCEPT !.to = <<parent, key>>]
TenantKey(t) == Foreign(t, "tenant_id", "tenants", "id")

\* Every table has an id and its two timestamps.
Table(t, cols) ==
    {Fact("table", t, t, {})}
    \cup {Column(t, c) : c \in cols \cup {"id", "created_at", "updated_at"}}

Owned(t, cols) == Table(t, cols \cup {"tenant_id"}) \cup {TenantKey(t)}

Statement(do, t, name, facts) ==
    [do |-> do, on |-> t, name |-> name, facts |-> facts]

Create(t, facts) == Statement("create", t, "", facts)
Add(f) == Create(f.on, {f})
DropTable(t) == Statement("drop table", t, "", {})
DropColumn(t, c) == Statement("drop column", t, c, {})
DropIndex(t, name) == Statement("drop index", t, name, {})
DropConstraint(t, name) == Statement("drop constraint", t, name, {})

\* UPDATE of every row, then SET NOT NULL.  The migrating role is a superuser
\* (docker-compose.yml:124): row-level security hides no row from it.
Backfill(t, c) == Statement("backfill", t, c, {})

Rls(t) == {Fact("enabled", t, "", {}), Fact("forced", t, "", {}),
           Fact("policy", t, "tenant_isolation", {"tenant_id"})}
Shield(t) == Create(t, Rls(t))

\* DROP POLICY IF EXISTS and DISABLE ROW LEVEL SECURITY; FORCE stays.
Unshield(t) == Statement("unshield", t, "", {})

Gone(s, view) ==
    {f \in view :
        /\ f.on = s.on
        /\ \/ s.do = "drop table"
           \/ s.do = "drop column" /\ s.name \in f.cols
           \/ s.do = "drop index" /\ f.kind = "index" /\ f.name = s.name
           \/ /\ s.do = "drop constraint"
              /\ f.kind \in {"unique", "check"}
              /\ f.name = s.name
           \/ s.do = "unshield" /\ f.kind \in {"policy", "enabled"}}

After(s, view) == (view \ Gone(s, view)) \cup s.facts

\* What a fact is about is there, the key of another table included.
Grounded(f, view) ==
    /\ Fact("table", f.on, f.on, {}) \in view
    /\ \A c \in f.cols : Column(f.on, c) \in view
    /\ f.kind = "foreign" => Column(f.to[1], f.to[2]) \in view

\* Postgres accepts the statement, whatever the rows.
Legal(s, view) ==
    /\ s.facts \cap view = {}
    /\ s.do \in {"drop table", "drop column", "drop index", "drop constraint"}
          => Gone(s, view) # {}
    /\ s.do = "backfill" => Column(s.on, s.name) \in view
    /\ s.do = "unshield" => Fact("table", s.on, s.on, {}) \in view
    /\ LET view2 == After(s, view) IN
        \A f \in view2 : s.on \in {f.on, f.to[1]} => Grounded(f, view2)

\* The rows the statement finds refuse it.
Refused(s) == s.on \in twins /\ \E f \in s.facts : f.kind = "unique"

\* The tables a statement locks: its own and those its keys refer to.
Locks(s, view) ==
    {s.on} \cup {f.to[1] : f \in {g \in s.facts \cup Gone(s, view) :
                                      g.kind = "foreign"}}

Each(tables, Op(_)) == [i \in DOMAIN tables |-> Op(tables[i])]

----------------------------------------------------------------------------
(* The migrations *)

TenantOwned1 == <<"audit_logs", "tenant_usage", "tenant_rate_limits",
                  "erasure_jobs", "cms_pages", "leads", "conversations">>

Up0001 ==
    << Create("tenants", Table("tenants", {"name", "status"})
          \cup {Check("tenants", "ck_tenants_status", "status"),
                Unique("tenants", "uq_tenants_name", {"name"})}),
       Create("audit_logs", Owned("audit_logs",
          {"actor_id", "actor_role", "action", "metadata_json"})),
       Add(Index("audit_logs", "tenant_id", {"tenant_id"})),
       Create("tenant_usage", Owned("tenant_usage",
          {"feature", "units", "unit_type", "estimated_cost_usd", "trace_id"})
          \cup {Check("tenant_usage", "ck_tenant_usage_units_positive", "units"),
                Check("tenant_usage", "ck_tenant_usage_feature", "feature"),
                Check("tenant_usage", "ck_tenant_usage_unit_type", "unit_type"),
                Check("tenant_usage", "ck_tenant_usage_cost", "estimated_cost_usd")}),
       Add(Index("tenant_usage", "tenant_id", {"tenant_id"})),
       Add(Index("tenant_usage", "tenant_feature_created",
                 {"tenant_id", "feature", "created_at"})),
       Create("tenant_rate_limits", Owned("tenant_rate_limits",
          {"action", "limit_count", "window_seconds"})
          \cup {Check("tenant_rate_limits", "ck_limit_positive", "limit_count"),
                Check("tenant_rate_limits", "ck_window_positive", "window_seconds"),
                Unique("tenant_rate_limits", "uq_tenant_rate_limits_tenant_action",
                       {"tenant_id", "action"})}),
       Add(Index("tenant_rate_limits", "tenant_id", {"tenant_id"})),
       Create("erasure_jobs", Owned("erasure_jobs",
          {"requested_by", "status", "deleted_counts_json", "started_at", "completed_at"})
          \cup {Check("erasure_jobs", "ck_erasure_jobs_status", "status")}),
       Add(Index("erasure_jobs", "tenant_id", {"tenant_id"})),
       Create("cms_pages", Owned("cms_pages", {"title", "body"})),
       Add(Index("cms_pages", "tenant_id", {"tenant_id"})),
       Create("leads", Owned("leads", {"name", "contact", "intent"})),
       Add(Index("leads", "tenant_id", {"tenant_id"})),
       Create("conversations", Owned("conversations", {"session_id", "status"})),
       Add(Index("conversations", "tenant_id", {"tenant_id"})),
       Add(Index("conversations", "session_id", {"session_id"})) >>

Rls0001 == Each(TenantOwned1, Shield)
NoRls0001 == Each(TenantOwned1, Unshield)

Down0001 ==
    << DropIndex("conversations", "session_id"), DropIndex("conversations", "tenant_id"),
       DropTable("conversations"),
       DropIndex("leads", "tenant_id"), DropTable("leads"),
       DropIndex("cms_pages", "tenant_id"), DropTable("cms_pages"),
       DropIndex("erasure_jobs", "tenant_id"), DropTable("erasure_jobs"),
       DropIndex("tenant_rate_limits", "tenant_id"), DropTable("tenant_rate_limits"),
       DropIndex("tenant_usage", "tenant_feature_created"),
       DropIndex("tenant_usage", "tenant_id"), DropTable("tenant_usage"),
       DropIndex("audit_logs", "tenant_id"), DropTable("audit_logs"),
       DropTable("tenants") >>

Up0002 ==
    << Create("admin_users", Owned("admin_users", {"email", "password_hash", "role"})
          \cup {Check("admin_users", "ck_admin_users_role", "role"),
                Unique("admin_users", "uq_admin_users_email", {"email"})}),
       Add(Index("admin_users", "tenant_id", {"tenant_id"})),
       Add(Index("admin_users", "email", {"email"})),
       Shield("admin_users") >>

Down0002_tableFirst ==
    << Unshield("admin_users"), DropTable("admin_users"),
       DropIndex("admin_users", "email"), DropIndex("admin_users", "tenant_id") >>

Down0002 ==
    << Unshield("admin_users"), DropIndex("admin_users", "email"),
       DropIndex("admin_users", "tenant_id"), DropTable("admin_users") >>

Up0003 ==
    << Add(Column("admin_users", "full_name")), Add(Column("admin_users", "status")),
       Add(Check("admin_users", "ck_admin_users_status", "status")),
       Create("admin_invites", Owned("admin_invites",
          {"token", "email", "role", "invited_by", "expires_at", "used_at"})
          \cup {Check("admin_invites", "ck_admin_invites_role", "role"),
                Unique("admin_invites", "uq_admin_invites_token", {"token"})}),
       Add(Index("admin_invites", "tenant_id", {"tenant_id"})),
       Add(Index("admin_invites", "token", {"token"})),
       Add(Index("admin_invites", "email", {"email"})),
       Shield("admin_invites") >>

Down0003 ==
    << Unshield("admin_invites"), DropIndex("admin_invites", "email"),
       DropIndex("admin_invites", "token"), DropIndex("admin_invites", "tenant_id"),
       DropTable("admin_invites"),
       DropConstraint("admin_users", "ck_admin_users_status"),
       DropColumn("admin_users", "status"), DropColumn("admin_users", "full_name") >>

Up0005_recreates == << DropColumn("admin_invites", "used_at"),
                       Add(Column("admin_invites", "used_at")),
                       Add(Column("admin_invites", "revoked_at")) >>
Up0005 == << Add(Column("admin_invites", "revoked_at")) >>
Down0005 == << DropColumn("admin_invites", "revoked_at") >>

Up0006 ==
    << Create("tenant_settings", Owned("tenant_settings",
          {"default_invite_ttl_seconds", "rate_limit_chat_per_minute",
           "rate_limit_token_per_minute", "rate_limit_lead_per_session"})
          \cup {Unique("tenant_settings", "uq_tenant_settings_tenant_id", {"tenant_id"})}),
       Add(Index("tenant_settings", "tenant_id", {"tenant_id"})),
       Shield("tenant_settings") >>

Down0006 ==
    << Unshield("tenant_settings"), DropIndex("tenant_settings", "tenant_id"),
       DropTable("tenant_settings") >>

(* 0004, one definition per helper of the migration; the vector extension is left out. *)

AlterTenants ==
    << Add(Column("tenants", "slug")), Add(Column("tenants", "plan")),
       Backfill("tenants", "slug"), Backfill("tenants", "plan"),
       Add(Unique("tenants", "uq_tenants_slug", {"slug"})) >>

CreateUsers ==
    << Create("users", Table("users",
          {"email", "hashed_password", "is_active", "is_superuser", "is_verified"})
          \cup {Unique("users", "uq_users_email", {"email"})}),
       Add(Index("users", "email", {"email"})) >>

CreateMemberships ==
    << Create("tenant_memberships", Owned("tenant_memberships", {"user_id", "role"})
          \cup {Check("tenant_memberships", "ck_tenant_memberships_role", "role"),
                Foreign("tenant_memberships", "user_id", "users", "id"),
                Unique("tenant_memberships", "uq_tenant_memberships_tenant_user",
                       {"tenant_id", "user_id"})}),
       Add(Index("tenant_memberships", "tenant_id", {"tenant_id"})),
       Add(Index("tenant_memberships", "user_id", {"user_id"})) >>

CreateWidgetConfigs ==
    << Create("widget_configs", Owned("widget_configs",
          {"widget_id", "allowed_origins_json", "theme_json", "greeting", "enabled"})
          \cup {Unique("widget_configs", "uq_widget_configs_widget_id", {"widget_id"})}),
       Add(Index("widget_configs", "tenant_id", {"tenant_id"})),
       Add(Index("widget_configs", "widget_id", {"widget_id"})) >>

CreateAgentConfigs ==
    << Create("tenant_agent_configs", Owned("tenant_agent_configs",
          {"persona", "enabled_tools_json", "tenant_rails_json"})),
       Add(Index("tenant_agent_configs", "tenant_id", {"tenant_id"})) >>

AlterCmsPages ==
    << Add(Column("cms_pages", "slug")), Add(Column("cms_pages", "source_url")),
       Add(Column("cms_pages", "status")), Add(Column("cms_pages", "created_by")),
       Backfill("cms_pages", "slug"),
       Add(Unique("cms_pages", "uq_cms_pages_tenant_slug", {"tenant_id", "slug"})),
       Add(Check("cms_pages", "ck_cms_pages_status", "status")) >>

\* The embedding is created as an array, dropped and added as a vector.
CreateRagChunks ==
    << Create("rag_chunks", Owned("rag_chunks",
          {"page_id", "chunk_index", "text", "embedding", "metadata_json"})
          \cup {Foreign("rag_chunks", "page_id", "cms_pages", "id"),
                Unique("rag_chunks", "uq_rag_chunks_tenant_page_idx",
                       {"tenant_id", "page_id", "chunk_index"})}),
       DropColumn("rag_chunks", "embedding"), Add(Column("rag_chunks", "embedding")),
       Add(Index("rag_chunks", "tenant_id", {"tenant_id"})),
       Add(Index("rag_chunks", "page_id", {"page_id"})) >>

AlterConversations ==
    << Add(Column("conversations", "widget_id")),
       Add(Column("conversations", "started_at")),
       Add(Column("conversations", "last_message_at")),
       Add(Foreign("conversations", "widget_id", "widget_configs", "widget_id")),
       Add(Unique("conversations", "uq_conversations_tenant_session",
                  {"tenant_id", "session_id"})) >>

CreateMessages ==
    << Create("messages", Owned("messages",
          {"conversation_id", "role", "content_redacted", "tool_name", "metadata_json"})
          \cup {Check("messages", "ck_messages_role", "role"),
                Foreign("messages", "conversation_id", "conversations", "id")}),
       Add(Index("messages", "tenant_id", {"tenant_id"})),
       Add(Index("messages", "conversation_id", {"conversation_id"})) >>

AlterLeads ==
    << Add(Column("leads", "conversation_id")), Add(Column("leads", "status")),
       Add(Column("leads", "quality_score")),
       Add(Check("leads", "ck_leads_status", "status")),
       Add(Foreign("leads", "conversation_id", "conversations", "id")) >>

CreateTickets ==
    << Create("escalation_tickets", Owned("escalation_tickets",
          {"conversation_id", "reason", "status", "assigned_to"})
          \cup {Check("escalation_tickets", "ck_escalation_tickets_status", "status"),
                Foreign("escalation_tickets", "conversation_id", "conversations", "id")}),
       Add(Index("escalation_tickets", "tenant_id", {"tenant_id"})),
       Add(Index("escalation_tickets", "conversation_id", {"conversation_id"})) >>

CreateTraces ==
    << Create("traces", Owned("traces",
          {"trace_id", "component", "event_name", "redacted_payload_json"})),
       Add(Index("traces", "tenant_id", {"tenant_id"})),
       Add(Index("traces", "trace_id", {"trace_id"})) >>

TenantOwned4_withoutTraces ==
    <<"tenant_memberships", "widget_configs", "tenant_agent_configs",
      "rag_chunks", "messages", "escalation_tickets">>

TenantOwned4 ==
    <<"tenant_memberships", "widget_configs", "tenant_agent_configs",
      "rag_chunks", "messages", "escalation_tickets", "traces">>

Up0004 ==
    AlterTenants \o CreateUsers \o CreateMemberships \o CreateWidgetConfigs
    \o CreateAgentConfigs \o AlterCmsPages \o CreateRagChunks
    \o AlterConversations \o CreateMessages \o AlterLeads \o CreateTickets
    \o CreateTraces \o Each(TenantOwned4, Shield)

Down0004 ==
    Each(TenantOwned4, Unshield) \o
    << DropIndex("traces", "tenant_id"), DropIndex("traces", "trace_id"),
       DropTable("traces"),
       DropIndex("escalation_tickets", "tenant_id"),
       DropIndex("escalation_tickets", "conversation_id"),
       DropTable("escalation_tickets"),
       DropConstraint("leads", "ck_leads_status"), DropColumn("leads", "quality_score"),
       DropColumn("leads", "status"), DropColumn("leads", "conversation_id"),
       DropIndex("messages", "tenant_id"), DropIndex("messages", "conversation_id"),
       DropTable("messages"),
       DropConstraint("conversations", "uq_conversations_tenant_session"),
       DropColumn("conversations", "last_message_at"),
       DropColumn("conversations", "started_at"), DropColumn("conversations", "widget_id"),
       DropIndex("rag_chunks", "tenant_id"), DropIndex("rag_chunks", "page_id"),
       DropTable("rag_chunks"),
       DropConstraint("cms_pages", "ck_cms_pages_status"),
       DropConstraint("cms_pages", "uq_cms_pages_tenant_slug"),
       DropColumn("cms_pages", "created_by"), DropColumn("cms_pages", "status"),
       DropColumn("cms_pages", "source_url"), DropColumn("cms_pages", "slug"),
       DropIndex("tenant_agent_configs", "tenant_id"), DropTable("tenant_agent_configs"),
       DropIndex("widget_configs", "widget_id"), DropIndex("widget_configs", "tenant_id"),
       DropTable("widget_configs"),
       DropConstraint("tenant_memberships", "uq_tenant_memberships_tenant_user"),
       DropConstraint("tenant_memberships", "ck_tenant_memberships_role"),
       DropIndex("tenant_memberships", "user_id"),
       DropIndex("tenant_memberships", "tenant_id"), DropTable("tenant_memberships"),
       DropIndex("users", "email"), DropTable("users"),
       DropConstraint("tenants", "uq_tenants_slug"),
       DropColumn("tenants", "plan"), DropColumn("tenants", "slug") >>

\* Up[r] leads to revision r, Down[r] away from it.
Up == << Up0001 \o Rls0001, Up0002, Up0003, Up0004, Up0005, Up0006 >>
Down == << NoRls0001 \o Down0001, Down0002, Down0003, Down0004, Down0005, Down0006 >>

\* The schema each revision's script leaves, from that of the one before.
Ran(script, view) ==
    FoldLeft(LAMBDA v, s : After(s, v), view, script)

Schema1 == Ran(Up[1], {})
Schema2 == Ran(Up[2], Schema1)
Schema3 == Ran(Up[3], Schema2)
Schema4 == Ran(Up[4], Schema3)
Schema5 == Ran(Up[5], Schema4)
Schema6 == Ran(Up[6], Schema5)
SchemaAt(r) ==
    IF r = 0 THEN {}
    ELSE <<Schema1, Schema2, Schema3, Schema4, Schema5, Schema6>>[r]

\* The script that leads from a revision to the one next to it.
Leading(from, to) == IF to > from THEN Up[to] ELSE Down[from]

\* The schemas a script goes through.
Views(script, view) ==
    FoldLeft(LAMBDA vs, s : Append(vs, After(s, vs[Len(vs)])), <<view>>, script)

----------------------------------------------------------------------------
(* The ORM: the tables and columns the programs at head read and write *)

MappedPlatform ==
    Table("tenants", {"name", "slug", "status", "plan"})
    \cup {Unique("tenants", "uq_tenants_name", {"name"}),
          Unique("tenants", "uq_tenants_slug", {"slug"})}
    \cup Owned("admin_users",
               {"email", "full_name", "password_hash", "role", "status"})
    \cup {Unique("admin_users", "uq_admin_users_email", {"email"})}
    \cup Owned("admin_invites", {"token", "email", "role", "invited_by",
                                 "expires_at", "used_at", "revoked_at"})
    \cup {Unique("admin_invites", "uq_admin_invites_token", {"token"})}

MappedContent ==
    Owned("cms_pages", {"title", "slug", "body", "source_url", "status", "created_by"})
    \cup {Unique("cms_pages", "uq_cms_pages_tenant_slug", {"tenant_id", "slug"})}
    \cup Owned("leads", {"conversation_id", "name", "contact", "intent", "status",
                         "quality_score"})
    \cup {Foreign("leads", "conversation_id", "conversations", "id")}
    \cup Owned("conversations", {"widget_id", "session_id", "status", "started_at",
                                 "last_message_at"})
    \cup {Unique("conversations", "uq_conversations_tenant_session",
                 {"tenant_id", "session_id"})}

MappedAccounting ==
    Owned("audit_logs", {"actor_id", "actor_role", "action", "metadata_json"})
    \cup Owned("tenant_usage", {"feature", "units", "unit_type",
                                "estimated_cost_usd", "trace_id"})
    \cup Owned("tenant_rate_limits", {"action", "limit_count", "window_seconds"})
    \cup {Unique("tenant_rate_limits", "uq_tenant_rate_limits_tenant_action",
                 {"tenant_id", "action"})}
    \cup Owned("erasure_jobs", {"requested_by", "status", "deleted_counts_json",
                                "started_at", "completed_at"})

MappedConfiguration ==
    Table("users", {"email", "hashed_password", "is_active", "is_superuser",
                    "is_verified"})
    \cup {Unique("users", "uq_users_email", {"email"})}
    \cup Owned("tenant_memberships", {"user_id", "role"})
    \cup {Foreign("tenant_memberships", "user_id", "users", "id"),
          Unique("tenant_memberships", "uq_tenant_memberships_tenant_user",
                 {"tenant_id", "user_id"})}
    \cup Owned("widget_configs", {"widget_id", "allowed_origins_json", "theme_json",
                                  "greeting", "enabled"})
    \cup {Unique("widget_configs", "uq_widget_configs_widget_id", {"widget_id"})}
    \cup Owned("tenant_agent_configs", {"persona", "enabled_tools_json",
                                        "tenant_rails_json"})
    \cup Owned("tenant_settings",
               {"default_invite_ttl_seconds", "rate_limit_chat_per_minute",
                "rate_limit_token_per_minute", "rate_limit_lead_per_session"})
    \cup {Unique("tenant_settings", "uq_tenant_settings_tenant_id", {"tenant_id"})}

MappedChat ==
    Owned("rag_chunks", {"page_id", "chunk_index", "text", "embedding", "metadata_json"})
    \cup {Foreign("rag_chunks", "page_id", "cms_pages", "id"),
          Unique("rag_chunks", "uq_rag_chunks_tenant_page_idx",
                 {"tenant_id", "page_id", "chunk_index"})}
    \cup Owned("messages", {"conversation_id", "role", "content_redacted",
                            "tool_name", "metadata_json"})
    \cup {Foreign("messages", "conversation_id", "conversations", "id")}
    \cup Owned("escalation_tickets", {"conversation_id", "reason", "status",
                                      "assigned_to"})
    \cup {Foreign("escalation_tickets", "conversation_id", "conversations", "id")}
    \cup Owned("traces", {"trace_id", "component", "event_name",
                          "redacted_payload_json"})

Declared == MappedPlatform \cup MappedContent \cup MappedAccounting
            \cup MappedConfiguration \cup MappedChat

----------------------------------------------------------------------------
(* Runners *)

MigrationsInit ==
    /\ version \in 0..Latest
    /\ schema = SchemaAt(version)
    /\ twins = {}
    /\ marks = {}
    /\ running = {}
    /\ at = [r \in Runner |-> 0]
    /\ start = [r \in Runner |-> 0]
    /\ goal = [r \in Runner |-> 0]
    /\ next = [r \in Runner |-> 1]
    /\ added = [r \in Runner |-> {}]
    /\ dropped = [r \in Runner |-> {}]
    /\ locked = [r \in Runner |-> {}]
    /\ broken = FALSE

View(r) == (schema \ dropped[r]) \cup added[r]

Following(r) == IF goal[r] > at[r] THEN at[r] + 1 ELSE at[r] - 1
Script(r) == Leading(at[r], Following(r))

Stamped(q) == q \in running /\ at[q] # start[q]

\* Who r waits for: for a table, or for the row of alembic_version.
Blockers(r) ==
    IF r \notin running \/ at[r] = goal[r] THEN {}
    ELSE IF next[r] > Len(Script(r)) THEN {q \in Runner \ {r} : Stamped(q)}
    ELSE {q \in Runner \ {r} :
            locked[q] \cap Locks(Script(r)[next[r]], View(r)) # {}}

Begin(r) ==
    /\ r \notin running
    /\ \E g \in Goals \ {version} : goal' = [goal EXCEPT ![r] = g]
    /\ running' = running \cup {r}
    /\ at' = [at EXCEPT ![r] = version]
    /\ start' = [start EXCEPT ![r] = version]
    /\ next' = [next EXCEPT ![r] = 1]
    /\ UNCHANGED <<schema, version, data, added, dropped, locked, broken>>

\* The transaction is over; nothing of it stays with the runner.
Forget(r) ==
    /\ running' = running \ {r}
    /\ at' = [at EXCEPT ![r] = 0]
    /\ start' = [start EXCEPT ![r] = 0]
    /\ goal' = [goal EXCEPT ![r] = 0]
    /\ next' = [next EXCEPT ![r] = 1]
    /\ added' = [added EXCEPT ![r] = {}]
    /\ dropped' = [dropped EXCEPT ![r] = {}]
    /\ locked' = [locked EXCEPT ![r] = {}]

\* It is rolled back, and the command fails.
Abort(r) == Forget(r) /\ UNCHANGED <<schema, version, data>>

RunStatement(r) ==
    /\ r \in running /\ at[r] # goal[r] /\ next[r] <= Len(Script(r))
    /\ Blockers(r) = {}
    /\ LET s == Script(r)[next[r]] IN
        IF ~Legal(s, View(r)) \/ Refused(s)
        THEN /\ Abort(r)
             /\ broken' = (broken \/ (version = start[r] /\ ~Refused(s)))
        ELSE /\ added' = [added EXCEPT ![r] = (@ \ Gone(s, View(r))) \cup s.facts]
             /\ dropped' = [dropped EXCEPT ![r] = @ \cup (Gone(s, View(r)) \cap schema)]
             /\ locked' = [locked EXCEPT ![r] = @ \cup Locks(s, View(r))]
             /\ next' = [next EXCEPT ![r] = @ + 1]
             /\ UNCHANGED <<schema, version, data, running, at, start, goal, broken>>

\* After each migration alembic updates the row that holds the revision it
\* came from, and gives up if there is none.
Stamp_anyRow(r) ==
    /\ r \in running /\ at[r] # goal[r] /\ next[r] > Len(Script(r))
    /\ Blockers(r) = {}
    /\ at' = [at EXCEPT ![r] = Following(r)]
    /\ next' = [next EXCEPT ![r] = 1]
    /\ UNCHANGED <<schema, version, data, running, start, goal, added, dropped, locked>>
    /\ UNCHANGED broken

Stamp(r) ==
    /\ r \in running /\ at[r] # goal[r] /\ next[r] > Len(Script(r))
    /\ Blockers(r) = {}
    /\ IF version # start[r]
       THEN Abort(r)
       ELSE /\ at' = [at EXCEPT ![r] = Following(r)]
            /\ next' = [next EXCEPT ![r] = 1]
            /\ UNCHANGED <<schema, version, data, running, start, goal, added, dropped,
                           locked>>
    /\ UNCHANGED broken

\* Rows go with their table, values with their column.
Commit(r) ==
    /\ r \in running /\ at[r] = goal[r]
    /\ schema' = View(r)
    /\ version' = goal[r]
    /\ twins' = {t \in twins : Fact("table", t, t, {}) \notin dropped[r]}
    /\ marks' = {m \in marks : Column(m[1], m[2]) \notin dropped[r]}
    /\ Forget(r)
    /\ UNCHANGED broken

\* Two runners that wait for each other: Postgres ends one of them.
Deadlocked(r) == \E q \in Blockers(r) : r \in Blockers(q)

BreakDeadlock(r) == Deadlocked(r) /\ Abort(r) /\ UNCHANGED broken

\* The container is stopped, or the connection lost.
Crash(r) == r \in running /\ Abort(r) /\ UNCHANGED broken

----------------------------------------------------------------------------
(* The programs that use the database between migrations *)

\* Nobody's open transaction holds the table.
Free(t) ==
    /\ Fact("table", t, t, {}) \in schema
    /\ \A r \in Runner : t \notin locked[r]

LaterUnique == {Unique("tenants", "uq_tenants_slug", {"slug"}),
                Unique("cms_pages", "uq_cms_pages_tenant_slug", {"tenant_id", "slug"}),
                Unique("conversations", "uq_conversations_tenant_session",
                       {"tenant_id", "session_id"})}

\* Names, titles or sessions that only the constraint of 0004 keeps apart.
InsertTwin ==
    \E u \in LaterUnique \ schema :
        /\ Cardinality(twins) + Cardinality(marks) < MaxRows
        /\ u.on \notin twins /\ Free(u.on)
        /\ twins' = twins \cup {u.on}
        /\ UNCHANGED <<schema, version, marks, work, broken>>

Watched == {<<"admin_invites", "used_at">>, <<"admin_invites", "revoked_at">>}

UpdateRow ==
    \E m \in Watched \ marks :
        /\ Cardinality(twins) + Cardinality(marks) < MaxRows
        /\ Free(m[1]) /\ Column(m[1], m[2]) \in schema
        /\ marks' = marks \cup {m}
        /\ UNCHANGED <<schema, version, twins, work, broken>>

----------------------------------------------------------------------------
RunnerStep(r) == RunStatement(r) \/ Stamp(r) \/ Commit(r) \/ BreakDeadlock(r)

MigrationsNext ==
    \/ \E r \in Runner : Begin(r) \/ RunnerStep(r) \/ Crash(r)
    \/ InsertTwin \/ UpdateRow

MigrationsSpec == MigrationsInit /\ [][MigrationsNext]_migrationVars

----------------------------------------------------------------------------
(* Properties *)

\* 0001-0006, downgrade(): after any commands, overlapping, failing half-way
\* and run again, the recorded revision alone tells the schema: no downgrade
\* leaves or loses anything its upgrade did not bring.
RevisionTellsSchema == schema = SchemaAt(version)

\* 0004:28, "All new tenant-owned tables enable RLS": at every revision a
\* table with a tenant_id has the tenant_isolation policy, enabled and forced
\* on its owner, and only such tables have it.
Shielded(facts) ==
    \A t \in {f.on : f \in facts} :
        IF Column(t, "tenant_id") \in facts
        THEN Rls(t) \subseteq facts
        ELSE Rls(t) \cap facts = {}

\* models.py: at head the ORM's tables, columns and keys are the database's:
\* no program selects a column that is not there, and none is without a mapping.
ServesModels(facts) ==
    /\ Declared \subseteq facts
    /\ \A f \in facts : f.kind = "column" => f \in Declared

Fits(revision, facts) ==
    Shielded(facts) /\ (revision = Latest => ServesModels(facts))

\* models.py, 0004:28: what the programs need of the schema.
SchemaFitsTheApp == Fits(version, schema)

\* The same of the revisions themselves.
RevisionsFit == \A v \in 0..Latest : Fits(v, SchemaAt(v))

\* A script on its own leads from its revision to the one next to it, every
\* statement on its table and accepted, and an upgrade drops nothing that an
\* earlier revision had: what 0001-0006 do to each other's schemas, before any
\* overlap.
ScriptsAlone ==
    \A from, to \in 0..Latest : to = from + 1 \/ from = to + 1 =>
        LET script == Leading(from, to)
            views == Views(script, SchemaAt(from))
        IN  /\ views[1] = SchemaAt(from)
            /\ views[Len(script) + 1] = SchemaAt(to)
            /\ \A k \in 1..Len(script) :
                  /\ Legal(script[k], views[k])
                  /\ views[k + 1] = After(script[k], views[k])
                  /\ \A f \in script[k].facts : f.on = script[k].on
                  /\ \A v \in 0..from : to > from =>
                        Gone(script[k], views[k]) \cap SchemaAt(v) = {}

\* No command fails by the migrations themselves, in either direction and from
\* any revision: only rows a later constraint refuses, another command that
\* overtook it, a deadlock or a crash end it.
ScriptsApply == ~broken

\* Of two commands that wait for each other's tables one can always go on or
\* is ended.
SomeRunnerMoves ==
    \A r \in Runner : r \in running =>
        \E q \in {r} \cup Blockers(r) : Blockers(q) = {} \/ Deadlocked(q)

\* env.py:58 and docker-compose.yml:52, service_completed_successfully: what
\* waits for a command is told how it ended, and it ended well if it could.
CommandsGoThrough == ScriptsAlone /\ ScriptsApply /\ SomeRunnerMoves

\* 0005:12, "existing rows are treated as not-revoked": an upgrade loses no
\* row and no value that a program has written.
UpgradesKeepRows ==
    [][version' >= version =>
        twins \subseteq twins' /\ marks \subseteq marks']_migrationVars
=============================================================================
