---------------------------- MODULE WidgetConfigs -----------------------------
(***************************************************************************)
(* The widget configuration of each tenant and the PUT requests on it: a   *)
(* request reads the row, updates it, writes one audit row per origin      *)
(* added to or removed from what it had read, and commits.  Requests       *)
(* overlap under READ COMMITTED.                                           *)
(***************************************************************************)
EXTENDS Integers, FiniteSets

CONSTANTS
    Tenant,
    Origin,
    Theme,      \* custom themes
    Put         \* requests: 1..n

NoTheme == "no theme"
Config == [origins : SUBSET Origin, enabled : BOOLEAN, theme : Theme \cup {NoTheme}]

VARIABLES
    config,     \* the committed row of a tenant
    trail,      \* origins of a tenant as its committed audit rows tell them
    put,        \* the requests
    crossed     \* history: tenants with updates that overlapped

configVars == <<config, trail, put, crossed>>

\* WidgetConfigUpdateRequest: the rest of its checks is about spelling.
Acceptable(c) == c.enabled => c.origins # {}

\* Every tenant starts with the same row: the widget is on, for one origin.
ConfigInit ==
    /\ \E c \in Config :
        /\ c.enabled /\ c.origins = {CHOOSE o \in Origin : TRUE}
        /\ config = [t \in Tenant |-> c]
    /\ trail = [t \in Tenant |-> [o \in Origin |-> IF o \in config[t].origins THEN 1 ELSE 0]]
    /\ put = [r \in Put |-> [pc |-> "free"]]
    /\ crossed = {}

InService(r) == put[r].pc \in {"sent", "read", "written"}

\* Requests are numbered as they are sent.
Free(r) == put[r].pc = "free" /\ \A q \in Put : q < r => put[q].pc # "free"
SendPut(r, tenant, body) ==
    /\ Free(r)
    /\ put' = [put EXCEPT ![r] = [pc |-> "sent", tenant |-> tenant, body |-> body]]
    /\ UNCHANGED <<config, trail, crossed>>

\* update_widget_config: the row as it is committed now.
ReadPrevious(r) ==
    /\ put[r].pc = "sent" /\ Acceptable(put[r].body)
    /\ put' = [put EXCEPT ![r] = [pc |-> "read", tenant |-> @.tenant, body |-> @.body,
                                  previous |-> config[@.tenant].origins]]
    /\ crossed' = IF \E q \in Put \ {r} :
                        put[q].pc \in {"read", "written"} /\ put[q].tenant = put[r].tenant
                  THEN crossed \cup {put[r].tenant} ELSE crossed
    /\ UNCHANGED <<config, trail>>

\* The UPDATE waits for the row.
WriteRow(r) ==
    /\ put[r].pc = "read"
    /\ \A q \in Put : put[q].pc = "written" => put[q].tenant # put[r].tenant
    /\ put' = [put EXCEPT ![r].pc = "written"]
    /\ UNCHANGED <<config, trail, crossed>>

\* One widget.origin_added per added origin, one widget.origin_removed per
\* removed one, counted together for an origin.
Audited_addedOnly(r) ==
    LET new == put[r].body.origins
        old == put[r].previous
    IN [trail EXCEPT ![put[r].tenant] =
            [o \in Origin |-> @[o] + (IF o \in new \ old THEN 1 ELSE 0)]]
Audited(r) ==
    LET new == put[r].body.origins
        old == put[r].previous
    IN [trail EXCEPT ![put[r].tenant] =
            [o \in Origin |-> @[o] + (IF o \in new \ old THEN 1
                                      ELSE IF o \in old \ new THEN -1 ELSE 0)]]

PutDone(r, how) == put' = [put EXCEPT ![r] = [pc |-> how]]

CommitPut(r) ==
    /\ put[r].pc = "written"
    /\ config' = [config EXCEPT ![put[r].tenant] = put[r].body]
    /\ trail' = Audited(r)
    /\ PutDone(r, "committed")
    /\ UNCHANGED crossed

\* 403, 422, or an exception: the row is as it was.  (The compensating update
\* of an audit that failed is in the transaction that failed with it.)
EndPut(r) == InService(r) /\ PutDone(r, "failed") /\ UNCHANGED <<config, trail, crossed>>
=============================================================================
