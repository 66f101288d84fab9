----------------------------- MODULE RateLimiters -----------------------------
(***************************************************************************)
(* The in-process rate limiters of the api: the token buckets in front of  *)
(* the widget token exchange, one per source address and one per widget,   *)
(* and the hourly window of capture_lead.  Each check is atomic under the  *)
(* limiter's lock.  Time is counted in ticks; a bucket counts its tokens   *)
(* in parts of one Minute-th, so that a tick brings Capacity of them.      *)
(* A behaviour watches one kind of limiter: they share nothing.            *)
(***************************************************************************)
EXTENDS Integers, FiniteSets, Functions

CONSTANTS
    Address,    \* source addresses
    PerAddress, PerWidget,  \* capacity of a bucket: exchanges per minute
    Minute,     \* ticks in a minute of the buckets
    Hour,       \* ticks in a window of capture_lead
    Caps,       \* the caps tenant_settings may hold for capture_lead
    MaxTime     \* bound: ticks

VARIABLES
    watched,    \* "tokens", "leads", or "none" of the limiters
    now,        \* time.monotonic()
    buckets,    \* scope -> its bucket, for the scopes that have one
    granted,    \* history: checks that passed, by scope and tick
    refused     \* history: the scopes the last request was refused by, and its cap

limiterVars == <<watched, now, buckets, granted, refused>>

Widget == "widget"
Session == "session"

\* A rate that is not positive admits nobody; tenant_settings.py:44 bounds the caps.
ASSUME LimitersAssumption ==
    /\ Address \cap {Widget, Session} = {}
    /\ {PerAddress, PerWidget, Minute, Hour} \subseteq Nat \ {0}
    /\ Caps \subseteq Nat /\ \E c \in Caps : \A d \in Caps : d <= c
    /\ MaxTime \in Nat

Scope == IF watched = "leads" THEN {Session} ELSE Address \cup {Widget}
NoBucket == [scope \in {} |-> 0]
Nobody == [scope |-> "nobody", cap |-> 0]

Capacity(scope) == IF scope = Widget THEN PerWidget ELSE PerAddress

LimiterInit ==
    /\ watched \in {"tokens", "leads", "none"}
    /\ now = 0
    /\ buckets = NoBucket
    /\ granted = [s \in Scope |-> [t \in 0..MaxTime |-> 0]]
    /\ refused = Nobody

Put(all, s, b) == [x \in DOMAIN all \cup {s} |-> IF x = s THEN b ELSE all[x]]
Count(log, s) == [log EXCEPT ![s][now] = @ + 1]

----------------------------------------------------------------------------
(* InMemoryTokenBucketRateLimiter *)

Full(scope) == [parts |-> Capacity(scope) * Minute, last_refill |-> now]
BucketOf(scope) == IF scope \in DOMAIN buckets THEN buckets[scope] ELSE Full(scope)

Least(m, n) == IF m < n THEN m ELSE n

Refilled_keepsClock(b, scope) ==
    [parts |-> Least(Capacity(scope) * Minute,
                     b.parts + (now - b.last_refill) * Capacity(scope)),
     last_refill |-> b.last_refill]
Refilled(b, scope) ==
    [parts |-> Least(Capacity(scope) * Minute,
                     b.parts + (now - b.last_refill) * Capacity(scope)),
     last_refill |-> now]

Admits(b) == b.parts >= Minute
Consumed(b) == [b EXCEPT !.parts = @ - Minute]

\* issue_token: the address first; only who passes it is counted for the widget.
Exchange(a) ==
    LET mine == Refilled(BucketOf(a), a)
        widgets == Refilled(BucketOf(Widget), Widget)
    IN
    /\ watched = "tokens"
    /\ IF ~Admits(mine)
       THEN /\ buckets' = Put(buckets, a, mine)
            /\ refused' = [scope |-> a, cap |-> Capacity(a)]
            /\ UNCHANGED granted
       ELSE IF ~Admits(widgets)
       THEN /\ buckets' = Put(Put(buckets, a, Consumed(mine)), Widget, widgets)
            /\ refused' = [scope |-> Widget, cap |-> Capacity(Widget)]
            /\ granted' = Count(granted, a)
       ELSE /\ buckets' = Put(Put(buckets, a, Consumed(mine)), Widget, Consumed(widgets))
            /\ refused' = Nobody
            /\ granted' = Count(Count(granted, a), Widget)
    /\ UNCHANGED <<watched, now>>

----------------------------------------------------------------------------
(* LeadCaptureRateLimiter *)

NewWindow == [count |-> 0, window_started_at |-> now]

Window(cap) ==
    IF Session \in DOMAIN buckets /\ now - buckets[Session].window_started_at < Hour
    THEN buckets[Session] ELSE NewWindow

\* check_and_increment, with the cap the tenant has now.
Lead(cap) ==
    /\ watched = "leads"
    /\ IF Window(cap).count >= cap
       THEN /\ buckets' = Put(buckets, Session, Window(cap))
            /\ refused' = [scope |-> Session, cap |-> cap]
            /\ UNCHANGED granted
       ELSE /\ buckets' = Put(buckets, Session, [Window(cap) EXCEPT !.count = @ + 1])
            /\ refused' = Nobody
            /\ granted' = Count(granted, Session)
    /\ UNCHANGED <<watched, now>>

Tick ==
    /\ watched # "none" /\ now < MaxTime /\ now' = now + 1
    /\ refused' = Nobody
    /\ UNCHANGED <<watched, buckets, granted>>

LimiterNext == Tick \/ (\E a \in Address : Exchange(a)) \/ (\E c \in Caps : Lead(c))

LimiterSpec == LimiterInit /\ [][LimiterNext]_limiterVars

----------------------------------------------------------------------------
(* Properties *)

\* Checks of scope s passed in the ticks from..to.
Passed(s, from, to) == FoldFunctionOnSet(+, 0, granted[s], (from..to) \cap (0..MaxTime))

MaxCap == CHOOSE c \in Caps : \A d \in Caps : d <= c

\* In no minute do more requests pass than a full bucket and what it gains
\* meanwhile, whatever the pauses between them.
TokensBounded ==
    \A s \in Scope \ {Session} : Passed(s, now - Minute + 1, now) <= 2 * Capacity(s) - 1

\* A window passes no more than the highest cap.  An hour touches two windows
\* at most, and passes no more than twice the cap: what the code gives, not the
\* ceiling its comment states (HardCeiling).
LeadsBounded ==
    watched = "leads" =>
        /\ Passed(Session, now - Hour + 1, now) <= 2 * MaxCap
        /\ Session \in DOMAIN buckets =>
              LET start == buckets[Session].window_started_at
              IN Passed(Session, start, start + Hour - 1) <= MaxCap

\* Nobody is refused who has not had the limit's worth within its period: no
\* bucket forgets to refill, no window fails to end.
RefusedOnlyWhenSpent ==
    refused # Nobody =>
        LET period == IF refused.scope = Session THEN Hour ELSE Minute
        IN Passed(refused.scope, now - period, now) >= refused.cap

\* rate_limiter.py:37-48, 119-157: what passes in any minute, window and hour
\* at most, and what nobody is denied.
LimitsHold == TokensBounded /\ LeadsBounded /\ RefusedOnlyWhenSpent

\* rate_limiter.py:94-96, "a fixed 1-hour rolling count ... N writes per hour,
\* hard ceiling": in no hour does a session pass more leads than its cap.
HardCeiling ==
    watched = "leads" => Passed(Session, now - Hour + 1, now) <= MaxCap
=============================================================================
