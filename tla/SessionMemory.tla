---------------------------- MODULE SessionMemory ----------------------------
(***************************************************************************)
(* The turns of one chat session and the memory they share in Redis: each  *)
(* appends the visitor's message, reads the list, does its work and        *)
(* appends the answer.  An append is three calls (rpush, ltrim, expire),   *)
(* and any of them may find Redis gone: the turn goes on without memory,   *)
(* and the first that does so in a session writes its one                  *)
(* memory.unavailable audit.  A flush of that audit that fails is          *)
(* swallowed and leaves the turn's transaction broken: the turn ends with  *)
(* an error at its next statement or at its commit.  The turn's work       *)
(* (routing, agent, tools) comes with the append of the answer, unless it  *)
(* fails; its database session commits at the end, or fails to.            *)
(***************************************************************************)
EXTENDS Integers, Sequences, FiniteSets

CONSTANTS
    Turn,           \* requests of the session
    MaxMessages     \* SessionMemory's max_messages

ASSUME MemoryAssumption == MaxMessages \in Nat \ {0}

VARIABLES
    list,       \* the messages under the session's key: who wrote them
    ttl,        \* the key has an expiry
    losses,     \* calls of Redis that failed (a visit's budget bounds them)
    pc,         \* where a turn is
    seen,       \* the turn that put the session in _SEEN_MEMORY_UNAVAILABLE_KEYS
    notice,     \* turns with a memory.unavailable row in their transaction
    notices,    \* memory.unavailable rows committed
    broken,     \* turns whose transaction the failed audit has broken
    cut,        \* history: messages whose append lost Redis on the way
    newer       \* history: messages pushed after the one the turn is to read

memoryVars == <<list, ttl, losses, pc, seen, notice, notices, broken, cut, newer>>

MemoryInit ==
    /\ list = << >>
    /\ ttl = FALSE
    /\ losses = 0
    /\ pc = [t \in Turn |-> "new"]
    /\ seen = {}
    /\ notice = {}
    /\ notices = 0
    /\ broken = {}
    /\ cut = {}
    /\ newer = [t \in Turn |-> 0]

\* The steps of a turn, in order.
Steps == << "user.rpush", "user.ltrim", "user.expire", "lrange",
            "assistant.rpush", "assistant.ltrim", "assistant.expire", "commit" >>
Following(s) == LET i == CHOOSE i \in DOMAIN Steps : Steps[i] = s IN Steps[i + 1]

Pushes == {"user.rpush", "assistant.rpush"}
Trims == {"user.ltrim", "assistant.ltrim"}
Expires == {"user.expire", "assistant.expire"}

UserSteps == {"user.rpush", "user.ltrim", "user.expire"}

\* After a failed call the rest of the append is skipped.
AfterAppend(s) ==
    IF s \in UserSteps THEN "lrange"
    ELSE IF s = "lrange" THEN "assistant.rpush" ELSE "commit"

Goto(t, s) == pc' = [pc EXCEPT ![t] = s]
Message(t, s) == [turn |-> t, role |-> IF s \in UserSteps THEN "user" ELSE "assistant"]
Minimum(m, n) == IF m < n THEN m ELSE n
Last(n, s) == IF Len(s) <= n THEN s ELSE SubSeq(s, Len(s) - n + 1, Len(s))

Begin(t) ==
    /\ pc[t] = "new" /\ Goto(t, Steps[1])
    /\ UNCHANGED <<list, ttl, losses, seen, notice, notices, broken, cut, newer>>

\* What a call of Redis does to the key.
Apply_keepsOldest(t) ==
    /\ list' = IF pc[t] \in Pushes THEN Append(list, Message(t, pc[t]))
               ELSE IF pc[t] \in Trims THEN SubSeq(list, 1, Minimum(MaxMessages, Len(list)))
               ELSE list
    /\ ttl' = (IF pc[t] \in Expires THEN list # << >> ELSE ttl)
Apply(t) ==
    /\ list' = IF pc[t] \in Pushes THEN Append(list, Message(t, pc[t]))
               ELSE IF pc[t] \in Trims THEN Last(MaxMessages, list)
               ELSE list
    /\ ttl' = (IF pc[t] \in Expires THEN list # << >> ELSE ttl)

\* Bound: counted up to MaxMessages, while a turn is yet to read.
CountNewer(t) ==
    newer' = [u \in Turn |->
                IF /\ pc[t] \in Pushes /\ list' # list
                   /\ u # t /\ pc[u] \in {"user.ltrim", "user.expire", "lrange"}
                THEN Minimum(MaxMessages, newer[u] + 1)
                ELSE IF u = t /\ pc[t] = "lrange" THEN 0 ELSE newer[u]]

CallRedis(t) ==
    /\ pc[t] \in Pushes \cup Trims \cup Expires \cup {"lrange"}
    /\ Apply(t) /\ CountNewer(t)
    /\ Goto(t, Following(pc[t]))
    /\ UNCHANGED <<losses, seen, notice, notices, broken, cut>>

\* Every turn looks for the key before the first has marked it.
RecordUnavailable_raced(t) ==
    \/ seen' = seen \cup {t} /\ notice' = notice \cup {t} /\ UNCHANGED broken
    \/ seen' = seen \cup {t} /\ broken' = broken \cup {t} /\ UNCHANGED notice

\* _record_memory_unavailable: nothing is awaited between the look and the
\* mark.  The audit row is in the turn's transaction, or its flush fails: the
\* exception is logged, the transaction is lost.
RecordUnavailable(t) ==
    \/ seen # {} /\ UNCHANGED <<seen, notice, broken>>
    \/ seen = {} /\ seen' = {t} /\ notice' = notice \cup {t} /\ UNCHANGED broken
    \/ seen = {} /\ seen' = {t} /\ broken' = broken \cup {t} /\ UNCHANGED notice

\* MemoryUnavailableError, caught by _safe_append_memory or
\* _safe_get_memory: the call may have been carried out all the same.
LoseRedis(t) ==
    /\ pc[t] \in Pushes \cup Trims \cup Expires \cup {"lrange"}
    /\ losses' = losses + 1
    /\ Apply(t) \/ UNCHANGED <<list, ttl>>
    /\ CountNewer(t)
    /\ cut' = IF pc[t] = "lrange" THEN cut ELSE cut \cup {Message(t, pc[t])}
    /\ RecordUnavailable(t)
    /\ Goto(t, AfterAppend(pc[t]))
    /\ UNCHANGED notices

\* The session's TTL passes without a message.
Forget ==
    /\ ttl /\ \A t \in Turn : pc[t] \in {"new", "replied", "failed"}
    /\ list' = << >> /\ ttl' = FALSE
    /\ UNCHANGED <<losses, pc, seen, notice, notices, broken, cut, newer>>

\* Before the answer is appended the model, a tool or the database fails the
\* turn, as it does when a query meets the broken transaction: its rows are
\* rolled back; what it has appended and marked stays.
WorkFails(t) ==
    /\ pc[t] = "assistant.rpush" /\ Goto(t, "failed")
    /\ notice' = notice \ {t}
    /\ UNCHANGED <<list, ttl, losses, seen, notices, broken, cut, newer>>

Commit(t) ==
    /\ pc[t] = "commit" /\ t \notin broken /\ Goto(t, "replied")
    /\ notices' = notices + (IF t \in notice THEN 1 ELSE 0)
    /\ notice' = notice \ {t}
    /\ UNCHANGED <<list, ttl, losses, seen, broken, cut, newer>>

\* The commit raises after the handler has returned: for certain when the
\* transaction is broken, and whenever the database is lost.
CommitFails(t) ==
    /\ pc[t] = "commit" /\ Goto(t, "failed")
    /\ notice' = notice \ {t}
    /\ UNCHANGED <<list, ttl, losses, seen, notices, broken, cut, newer>>

TurnStep(t) ==
    CallRedis(t) \/ LoseRedis(t) \/ WorkFails(t) \/ Commit(t) \/ CommitFails(t)
=============================================================================
