--------------------------- MODULE WidgetVisitProofs ---------------------------
(***************************************************************************)
(* Proofs about a visit: types, one iframe, the conversation in step with  *)
(* the server, and the session's memory, for any number of tags, questions,*)
(* calls, turns, hides and losses.                                         *)
(*                                                                         *)
(* The invariant has three parts.  Of the memory: a turn that is to read   *)
(* finds its question behind no more messages than were pushed since       *)
(* (QuestionKept), and the turn that met the loss first holds the one row  *)
(* that reports it, has committed it, or never will (NoticedOnce).  Of the *)
(* widget: before a hide there is one call, of the question a retry would  *)
(* repeat (OneCall), and what may be answered yet is shown and has no      *)
(* answer (AwaitedShown).  Of both: a question that may be sent again has  *)
(* no turn the widget was not told had failed (OpenTold).                  *)
(*                                                                         *)
(* And about the rate limiters: what passed is what the limit allows.  A   *)
(* bucket is a balance of what it held, gained and let pass (Balanced); a  *)
(* window counts what passed since it started, and the hour before it was  *)
(* counted by one window too (LeadsIInv).                                  *)
(***************************************************************************)
EXTENDS MCWidgetVisit, FiniteSums

(* Session memory *)

Place == {"new", "replied", "failed"} \cup {Steps[i] : i \in DOMAIN Steps}
Messages == [turn : Turn, role : {"user", "assistant"}]
Begun == {t \in Turn : pc[t] # "new"}

MemoryTyped ==
    /\ list \in Seq(Messages)
    /\ ttl \in BOOLEAN
    /\ losses \in Nat
    /\ pc \in [Turn -> Place]
    /\ notice \subseteq Turn /\ seen \subseteq Turn /\ broken \subseteq Turn
    /\ newer \in [Turn -> Nat]
    /\ IsFiniteSet(Begun)

\* The first turn that lost Redis holds the row that reports it, has committed
\* it, or has failed or broken its transaction and never will.
NoticedBy(t) ==
    /\ seen = {t} /\ losses > 0
    /\ \/ notice = {t} /\ notices = 0 /\ broken = {} /\ pc[t] \notin {"failed", "replied"}
       \/ notice = {} /\ notices = 1 /\ broken = {} /\ pc[t] = "replied"
       \/ notice = {} /\ notices = 0 /\ broken \in {{}, {t}} /\ pc[t] = "failed"
       \/ notice = {} /\ notices = 0 /\ broken = {t} /\ pc[t] # "replied"
NoticedOnce ==
    \/ /\ seen = {} /\ notice = {} /\ notices = 0 /\ broken = {} /\ losses = 0
    \/ \E t \in Turn : NoticedBy(t)

\* A turn that is to read finds its question behind at most as many messages as
\* were pushed since.
Reading == {"user.ltrim", "user.expire", "lrange"}
QuestionAt(t, i) ==
    /\ i \in DOMAIN list /\ list[i] = Message(t, "user.rpush")
    /\ Len(list) - i <= newer[t]
QuestionKept ==
    \A t \in Turn :
        pc[t] \in Reading /\ Message(t, "user.rpush") \notin cut =>
            newer[t] >= MaxMessages \/ \E i \in Nat : QuestionAt(t, i)

MemoryIInv == MemoryTyped /\ MemoryBounded /\ NoticedOnce /\ QuestionKept

----------------------------------------------------------------------------
(* The widget *)

Said == [role : {"user", "assistant"}, question : Nat]
Call == [id : Nat, question : Nat]

ClientTyped ==
    /\ budget \in Budgets
    /\ script \in [Script -> {"new", "waiting", "done"}]
    /\ frames \in 0..1
    /\ greeted \in {"no", "posted", "got", "missed"}
    /\ app \in {"waiting_for_host_origin", "exchanging", "ready", "unavailable"}
    /\ chat \in [messages : Seq(Said), status : Statuses, pendingPrompt : Nat]
    /\ chat.pendingPrompt <= asked
    /\ \A i \in DOMAIN chat.messages : chat.messages[i].question \in 1..asked
    /\ calls \subseteq Call
    /\ \A c \in calls : c.id \in 1..made /\ c.question \in 1..asked
    /\ asked \in Nat /\ asked <= budget.asked
    /\ made \in Nat /\ made <= budget.calls
    /\ hides \in Nat
    /\ orphans \subseteq 1..asked

\* What spins is a call, and before a hide the one call there is, of the question
\* that a retry would repeat.
OneCall ==
    /\ chat.status = "sending" => calls # {}
    /\ hides = 0 =>
          IF chat.status = "sending"
          THEN \E c \in calls : calls = {c} /\ chat.pendingPrompt = c.question
          ELSE calls = {}

\* What may be answered yet: a question that is shown, without an answer unless
\* the page was hidden.
Shows(m) == \E i \in DOMAIN chat.messages : chat.messages[i] = m
Awaited == {c.question : c \in calls} \cup ({chat.pendingPrompt} \ {None})
AwaitedShown ==
    \A q \in Awaited : /\ q \in orphans \/ Shows(User(q))
                       /\ hides = 0 => ~Shows(Assistant(q))

\* Before a hide a question that may be sent again, or has not arrived, has no
\* turn that the widget was not told had failed.
OpenTold ==
    /\ open \in [Question -> Int]
    /\ hides = 0 =>
          /\ \A q \in Question : open[q] <= 1 /\ (q > asked => open[q] <= 0)
          /\ \A c \in calls : pc[c.id] = "new" => open[c.question] <= 0
          /\ chat.status = "error" /\ chat.pendingPrompt # None =>
                open[chat.pendingPrompt] <= 0

ClientIInv == ClientTyped /\ OneCall /\ AwaitedShown /\ AnswersFollowQuestions
VisitIInv == MemoryIInv /\ ClientIInv /\ OpenTold

----------------------------------------------------------------------------
(* What the calls of Redis do *)

\* The order of a turn's calls.
LEMMA Order ==
    /\ Following("user.rpush") = "user.ltrim"
    /\ Following("user.ltrim") = "user.expire"
    /\ Following("user.expire") = "lrange"
    /\ Following("lrange") = "assistant.rpush"
    /\ Following("assistant.rpush") = "assistant.ltrim"
    /\ Following("assistant.ltrim") = "assistant.expire"
    /\ Following("assistant.expire") = "commit"
<1> DEFINE At(s) == CHOOSE i \in 1..8 : Steps[i] = s
<1>1. DOMAIN Steps = 1..8
  BY DEF Steps
<1>2. \A i \in 1..8 : At(Steps[i]) \in 1..8 /\ Steps[At(Steps[i])] = Steps[i]
  OBVIOUS
<1>3. \A i, j \in 1..8 : Steps[i] = Steps[j] => i = j
  BY DEF Steps
<1>4. \A i \in 1..8 : At(Steps[i]) = i
  BY <1>2, <1>3
<1>5. \A i \in 1..7 : Following(Steps[i]) = Steps[i + 1]
  <2>1. \A s : Following(s) = Steps[At(s) + 1]
    BY <1>1 DEF Following
  <2>2. 1..7 \subseteq 1..8
    OBVIOUS
  <2> QED
    BY <1>4, <2>1, <2>2
<1>6. /\ Steps[1] = "user.rpush" /\ Steps[2] = "user.ltrim" /\ Steps[3] = "user.expire"
      /\ Steps[4] = "lrange" /\ Steps[5] = "assistant.rpush"
      /\ Steps[6] = "assistant.ltrim" /\ Steps[7] = "assistant.expire" /\ Steps[8] = "commit"
  BY DEF Steps
<1>7. /\ Following("user.rpush") = Steps[2] /\ Following("user.ltrim") = Steps[3]
      /\ Following("user.expire") = Steps[4] /\ Following("lrange") = Steps[5]
      /\ Following("assistant.rpush") = Steps[6] /\ Following("assistant.ltrim") = Steps[7]
      /\ Following("assistant.expire") = Steps[8]
  <2> HIDE DEF Following
  <2>1. 1 \in 1..7 /\ 2 \in 1..7 /\ 3 \in 1..7 /\ 4 \in 1..7 /\ 5 \in 1..7 /\ 6 \in 1..7
        /\ 7 \in 1..7
    OBVIOUS
  <2>2. 1 + 1 = 2 /\ 2 + 1 = 3 /\ 3 + 1 = 4 /\ 4 + 1 = 5 /\ 5 + 1 = 6 /\ 6 + 1 = 7 /\ 7 + 1 = 8
    OBVIOUS
  <2> QED
    BY <1>5, <1>6, <2>1, <2>2
<1> QED
  BY <1>6, <1>7

LEMMA Places ==
    Place = {"new", "replied", "failed", "user.rpush", "user.ltrim", "user.expire", "lrange",
             "assistant.rpush", "assistant.ltrim", "assistant.expire", "commit"}
<1>1. DOMAIN Steps = 1..8
  BY DEF Steps
<1>2. /\ Steps[1] = "user.rpush" /\ Steps[2] = "user.ltrim" /\ Steps[3] = "user.expire"
      /\ Steps[4] = "lrange" /\ Steps[5] = "assistant.rpush"
      /\ Steps[6] = "assistant.ltrim" /\ Steps[7] = "assistant.expire" /\ Steps[8] = "commit"
  BY DEF Steps
<1>3. 1..8 = {1, 2, 3, 4, 5, 6, 7, 8}
  OBVIOUS
<1>4. {Steps[i] : i \in DOMAIN Steps} =
        {"user.rpush", "user.ltrim", "user.expire", "lrange", "assistant.rpush",
         "assistant.ltrim", "assistant.expire", "commit"}
  BY <1>1, <1>2, <1>3
<1> QED
  BY <1>4 DEF Place

\* Calls is where a turn talks to Redis.
Calls == Pushes \cup Trims \cup Expires \cup {"lrange"}

\* A call carried out is one of these.
LEMMA Carried ==
  ASSUME MemoryTyped, NEW t \in Turn, pc[t] \in Calls, Apply(t)
  PROVE  \/ /\ pc[t] \in Pushes /\ ttl' = ttl
            /\ list' = Append(list, Message(t, pc[t]))
         \/ pc[t] \in Trims /\ list' = Last(MaxMessages, list) /\ ttl' = ttl
         \/ pc[t] \in Expires /\ list' = list /\ ttl' \in BOOLEAN /\ (ttl' <=> list # << >>)
         \/ pc[t] = "lrange" /\ list' = list /\ ttl' = ttl
<1>1. CASE pc[t] \in Pushes
  BY <1>1 DEF Apply, Pushes, Trims, Expires
<1>2. CASE pc[t] \in Trims
  BY <1>2 DEF Apply, Pushes, Trims, Expires
<1>3. CASE pc[t] \in Expires
  <2>1. list' = list
    BY <1>3 DEF Apply, Pushes, Trims, Expires
  <2>2. ttl' = (list # << >>)
    BY <1>3 DEF Apply
  <2>3. ttl' \in BOOLEAN
    BY <2>2, Zenon
  <2>4. ttl' <=> list # << >>
    BY <2>2, Zenon
  <2> QED
    BY <1>3, <2>1, <2>3, <2>4
<1>4. CASE pc[t] = "lrange"
  BY <1>4 DEF Apply, Pushes, Trims, Expires
<1> QED
  BY <1>1, <1>2, <1>3, <1>4 DEF Calls

LEMMA AppendOf ==
  ASSUME NEW S, NEW s \in Seq(S), NEW e \in S
  PROVE  /\ Append(s, e) \in Seq(S) /\ Len(Append(s, e)) = Len(s) + 1
         /\ Append(s, e)[Len(s) + 1] = e
         /\ \A i \in DOMAIN s : i \in DOMAIN Append(s, e) /\ Append(s, e)[i] = s[i]
OBVIOUS

\* The last n messages.
LEMMA LastOf ==
  ASSUME NEW S, NEW s \in Seq(S), NEW n \in Nat \ {0}
  PROVE  /\ Last(n, s) \in Seq(S)
         /\ Len(Last(n, s)) = IF Len(s) <= n THEN Len(s) ELSE n
         /\ \A i \in DOMAIN s : Len(s) - i < n =>
               \E j \in DOMAIN Last(n, s) :
                  Last(n, s)[j] = s[i] /\ Len(Last(n, s)) - j = Len(s) - i
<1>1. CASE Len(s) <= n
  BY <1>1 DEF Last
<1>2. CASE ~(Len(s) <= n)
  <2> DEFINE k == Len(s) - n
             u == SubSeq(s, k + 1, Len(s))
  <2>1. k \in Nat /\ Last(n, s) = u /\ Len(s) \in Nat
    BY <1>2 DEF Last
  <2>2. u \in Seq(S) /\ Len(u) = n /\ \A j \in 1..n : u[j] = s[k + j]
    BY <1>2, <2>1
  <2>3. ASSUME NEW i \in DOMAIN s, Len(s) - i < n
        PROVE  \E j \in DOMAIN u : u[j] = s[i] /\ Len(u) - j = Len(s) - i
    <3>1. i - k \in 1..n /\ DOMAIN u = 1..n /\ k + (i - k) = i
      BY <2>1, <2>2, <2>3
    <3>2. Len(u) - (i - k) = Len(s) - i
      BY <2>1, <2>2
    <3> QED
      BY <2>2, <3>1, <3>2
  <2> HIDE DEF u
  <2> QED
    BY <1>2, <2>1, <2>2, <2>3
<1> QED
  BY <1>1, <1>2

----------------------------------------------------------------------------
(* Session memory: its invariant *)

Trimming == {t \in Turn : pc[t] \in Trims}

LEMMA MoveTrims ==
  ASSUME MemoryTyped, NEW t \in Turn, NEW s, Goto(t, s)
  PROVE  /\ Cardinality(Trimming) \in Nat
         /\ Cardinality(Trimming)' =
              IF s \in Trims
              THEN IF pc[t] \in Trims THEN Cardinality(Trimming) ELSE Cardinality(Trimming) + 1
              ELSE IF pc[t] \in Trims THEN Cardinality(Trimming) - 1 ELSE Cardinality(Trimming)
<1>1. IsFiniteSet(Trimming)
  <2>1. Trimming \subseteq Begun
    BY DEF Trimming, Begun, Trims
  <2> QED
    BY <2>1, FS_Subset DEF MemoryTyped
<1>2. Trimming' = IF s \in Trims THEN Trimming \cup {t} ELSE Trimming \ {t}
  BY DEF Goto, Trimming, MemoryTyped
<1>3. Cardinality(Trimming) \in Nat
  BY <1>1, FS_CardinalityType
<1>4. Cardinality(Trimming \cup {t}) =
        IF t \in Trimming THEN Cardinality(Trimming) ELSE Cardinality(Trimming) + 1
  BY <1>1, FS_AddElement
<1>5. Cardinality(Trimming \ {t}) =
        IF t \in Trimming THEN Cardinality(Trimming) - 1 ELSE Cardinality(Trimming)
  BY <1>1, FS_RemoveElement
<1>6. t \in Trimming <=> pc[t] \in Trims
  BY DEF Trimming
<1> HIDE DEF Trimming
<1> QED
  BY <1>2, <1>3, <1>4, <1>5, <1>6

\* Types, whatever a turn does.
LEMMA MoveTyped ==
  ASSUME MemoryTyped, NEW t \in Turn, NEW s \in Place, Goto(t, s),
         list' \in Seq(Messages), ttl' \in BOOLEAN, losses' \in Nat,
         notice' \subseteq Turn, seen' \subseteq Turn, broken' \subseteq Turn,
         newer' \in [Turn -> Nat]
  PROVE  MemoryTyped'
<1>1. pc' \in [Turn -> Place]
  BY DEF MemoryTyped, Goto
<1>2. Begun' \subseteq Begun \cup {t}
  BY DEF Begun, Goto, MemoryTyped
<1>3. IsFiniteSet(Begun \cup {t})
  BY FS_AddElement DEF MemoryTyped
<1>4. IsFiniteSet(Begun')
  BY <1>2, <1>3, FS_Subset
<1> QED
  BY <1>1, <1>4 DEF MemoryTyped, Place, Messages

\* The bound on the list, whatever a turn does.
LEMMA MoveBounded ==
  ASSUME MemoryTyped, MemoryBounded, NEW t \in Turn, NEW s, Goto(t, s),
         Len(list') \in Nat, losses' \in {losses, losses + 1},
         \/ losses' = losses /\ s \in Trims /\ pc[t] \notin Trims /\ Len(list') <= Len(list) + 1
         \/ losses' = losses + 1 /\ s \notin Trims /\ pc[t] \notin Trims
            /\ Len(list') <= Len(list) + 1
         \/ s \notin Trims /\ Len(list') <= MaxMessages
         \/ losses' = losses + 1 /\ s \notin Trims /\ Len(list') <= Len(list)
         \/ losses' = losses /\ pc[t] \notin Trims /\ Len(list') <= Len(list)
  PROVE  Len(list') <= MaxMessages + losses' + Cardinality(Trimming)'
<1>1. Len(list) \in Nat /\ losses \in Nat /\ MaxMessages \in Nat
  BY MemoryAssumption DEF MemoryTyped
<1>2. Len(list) <= MaxMessages + losses + Cardinality(Trimming)
  BY DEF MemoryBounded, Trimming
<1> DEFINE n == Cardinality(Trimming)
           m == Cardinality(Trimming)'
<1>3. n \in Nat
      /\ m = IF s \in Trims THEN IF pc[t] \in Trims THEN n ELSE n + 1
             ELSE IF pc[t] \in Trims THEN n - 1 ELSE n
  BY MoveTrims
<1>4. m \in Nat
  <2>1. IsFiniteSet(Trimming')
    <3>1. Trimming' \subseteq Begun \cup {t}
      BY DEF Trimming, Begun, Goto, MemoryTyped, Trims
    <3>2. IsFiniteSet(Begun \cup {t})
      BY FS_AddElement DEF MemoryTyped
    <3> QED
      BY <3>1, <3>2, FS_Subset
  <2> QED
    BY <2>1, FS_CardinalityType
<1> HIDE DEF n, m
<1>5. Len(list) <= MaxMessages + losses + n
  BY <1>2 DEF n
<1>6. Len(list') <= MaxMessages + losses' + m
  BY <1>1, <1>3, <1>4, <1>5
<1> QED
  BY <1>6 DEF m

\* The second half of MemoryBounded.
Unexpired == ~ttl => \A i \in DOMAIN list : list[i] \in cut \/ UnderWay(list[i])

LEMMA BoundedAfter ==
  ASSUME Len(list') <= MaxMessages + losses' + Cardinality(Trimming)', Unexpired'
  PROVE  MemoryBounded'
BY DEF MemoryBounded, Trimming, Unexpired

\* Messages of an expiry-less list stay accounted for when a turn moves on: its
\* own goes on with its append or loses Redis, and the expiry stays as it is.
LEMMA UnexpiredFrame ==
  ASSUME MemoryTyped, Unexpired, NEW t \in Turn, NEW s, Goto(t, s),
         cut \subseteq cut', ttl' = ttl,
         \A i \in DOMAIN list' : \/ \E j \in DOMAIN list : list'[i] = list[j]
                                 \/ list'[i] \in cut'
                                 \/ s \in Trims /\ list'[i] = Message(t, s),
         pc[t] \in Trims \cup Expires =>
            \/ Message(t, pc[t]) \in cut'
            \/ s \in Trims \cup Expires /\ Message(t, s) = Message(t, pc[t])
  PROVE  Unexpired'
<1> SUFFICES ASSUME ~ttl', NEW i \in DOMAIN list', list'[i] \notin cut'
             PROVE  \E z \in Trims \cup Expires :
                       pc'[list'[i].turn] = z /\ list'[i] = Message(list'[i].turn, z)
  BY DEF Unexpired, UnderWay
<1>1. pc'[t] = s /\ \A u \in Turn \ {t} : pc'[u] = pc[u]
  BY DEF Goto, MemoryTyped
<1>2. CASE s \in Trims /\ list'[i] = Message(t, s)
  <2>1. list'[i].turn = t
    BY <1>2 DEF Message
  <2> QED
    BY <1>1, <1>2, <2>1
<1>3. ASSUME NEW j \in DOMAIN list, list'[i] = list[j]
      PROVE  \E z \in Trims \cup Expires :
                pc'[list'[i].turn] = z /\ list'[i] = Message(list'[i].turn, z)
  <2>1. list[j] \notin cut
    BY <1>3
  <2>2. UnderWay(list[j])
    <3>1. ~ttl
      OBVIOUS
    <3> QED
      BY <2>1, <3>1 DEF Unexpired
  <2>3. PICK z \in Trims \cup Expires :
           pc[list[j].turn] = z /\ list[j] = Message(list[j].turn, z)
    BY <2>2 DEF UnderWay
  <2>4. list[j].turn \in Turn
    <3>1. list \in Seq(Messages)
      BY DEF MemoryTyped
    <3>2. list[j] \in Messages
      BY <3>1
    <3> QED
      BY <3>2 DEF Messages
  <2>5. CASE list[j].turn = t
    <3>1. list[j] = Message(t, pc[t]) /\ pc[t] \in Trims \cup Expires
      BY <2>3, <2>5
    <3>2. s \in Trims \cup Expires /\ list'[i] = Message(t, s)
      BY <1>3, <3>1
    <3>3. list'[i].turn = t
      BY <1>3, <2>5
    <3> QED
      BY <1>1, <3>2, <3>3
  <2>6. CASE list[j].turn # t
    <3>1. pc'[list'[i].turn] = z /\ list'[i] = Message(list'[i].turn, z)
      BY <1>1, <1>3, <2>3, <2>4, <2>6
    <3> QED
      BY <3>1
  <2> QED
    BY <2>5, <2>6
<1> QED
  BY <1>2, <1>3

\* A question that is kept stays so when a turn goes elsewhere and the list stays.
LEMMA KeptFrame ==
  ASSUME MemoryTyped, QuestionKept, NEW t \in Turn, NEW s, Goto(t, s),
         s \notin Reading, list' = list, cut' = cut, newer' = newer
  PROVE  QuestionKept'
<1> SUFFICES ASSUME NEW u \in Turn, pc'[u] \in Reading, Message(u, "user.rpush") \notin cut'
             PROVE  newer'[u] >= MaxMessages \/ \E i \in Nat : QuestionAt(u, i)'
  BY DEF QuestionKept
<1>1. pc[u] \in Reading /\ Message(u, "user.rpush") \notin cut
  BY DEF MemoryTyped, Goto
<1>2. newer[u] >= MaxMessages \/ \E i \in Nat : QuestionAt(u, i)
  BY <1>1 DEF QuestionKept
<1> QED
  BY <1>2 DEF QuestionAt

\* A turn that touches neither Redis nor the mark.
LEMMA RestMemory ==
  ASSUME MemoryIInv, NEW t \in Turn, NEW s \in Place, Goto(t, s),
         pc[t] \notin Trims \cup Expires, s \notin Trims \cup Expires \cup Reading,
         UNCHANGED <<list, ttl, losses, seen, broken, cut, newer>>,
         notice' \subseteq Turn
  PROVE  MemoryTyped' /\ MemoryBounded' /\ QuestionKept'
<1> USE DEF MemoryIInv
<1>1. MemoryTyped'
  BY MoveTyped DEF MemoryTyped
<1>2. MemoryBounded'
  <2>1. Len(list') <= MaxMessages + losses' + Cardinality(Trimming)'
    BY MoveBounded DEF MemoryTyped
  <2>2. Unexpired'
    BY UnexpiredFrame DEF MemoryBounded, Unexpired
  <2> QED
    BY <2>1, <2>2, BoundedAfter
<1>3. QuestionKept'
  BY KeptFrame
<1> QED
  BY <1>1, <1>2, <1>3

LEMMA BeginMemory ==
  ASSUME MemoryIInv, NEW t \in Turn, Begin(t)
  PROVE  MemoryIInv'
<1> USE DEF MemoryIInv
<1>1. Goto(t, "user.rpush") /\ pc[t] = "new" /\ pc' = [pc EXCEPT ![t] = "user.rpush"]
  BY DEF Begin, Steps, Goto
<1>2. MemoryTyped' /\ MemoryBounded' /\ QuestionKept'
  BY <1>1, RestMemory, Places DEF Begin, Trims, Expires, Reading, MemoryTyped
<1>3. NoticedOnce'
  <2>1. ASSUME NEW u \in Turn, NoticedBy(u) PROVE NoticedBy(u)'
    BY <1>1, <2>1 DEF Begin, NoticedBy, MemoryTyped
  <2> QED
    BY <2>1 DEF Begin, NoticedOnce
<1> QED
  BY <1>2, <1>3

LEMMA CountTyped ==
  ASSUME MemoryTyped, NEW t \in Turn, CountNewer(t)
  PROVE  newer' \in [Turn -> Nat]
BY MemoryAssumption DEF CountNewer, MemoryTyped, Minimum

\* A call carried out or not, as far as types go.
LEMMA ApplyTyped ==
  ASSUME MemoryTyped, NEW t \in Turn, pc[t] \in Calls, Apply(t)
  PROVE  list' \in Seq(Messages) /\ ttl' \in BOOLEAN
<1>1. list \in Seq(Messages) /\ ttl \in BOOLEAN /\ Message(t, pc[t]) \in Messages
  BY DEF MemoryTyped, Messages, Message
<1>2. Last(MaxMessages, list) \in Seq(Messages)
  BY <1>1, LastOf, MemoryAssumption
<1>3. CASE pc[t] \in Pushes
  <2>1. Append(list, Message(t, pc[t])) \in Seq(Messages)
    BY <1>1, AppendOf
  <2> QED
    BY <1>1, <1>3, <2>1 DEF Apply, Pushes, Expires
<1>4. CASE pc[t] \notin Pushes
  <2>1. list' \in {list, Last(MaxMessages, list)}
    BY <1>4, Carried
  <2>2. ttl' \in BOOLEAN
    BY <1>1, <1>4, Carried
  <2> QED
    BY <1>1, <1>2, <2>1, <2>2
<1> QED
  BY <1>3, <1>4

\* Every message of the list after a call was there, or is the one it pushed.
LEMMA MessagesAfter ==
  ASSUME MemoryTyped, NEW t \in Turn, pc[t] \in Calls, Apply(t), NEW i \in DOMAIN list'
  PROVE  \/ \E j \in DOMAIN list : list'[i] = list[j]
         \/ pc[t] \in Pushes /\ list'[i] = Message(t, pc[t])
<1>1. list \in Seq(Messages) /\ MaxMessages \in Nat \ {0} /\ Message(t, pc[t]) \in Messages
  BY MemoryAssumption DEF MemoryTyped, Messages, Message
<1>2. CASE pc[t] \in Pushes
  <2>1. list' = Append(list, Message(t, pc[t]))
    BY <1>2, Carried DEF Pushes, Trims, Expires
  <2> QED
    BY <1>1, <1>2, <2>1
<1>3. CASE pc[t] \in Trims
  <2>1. list' = Last(MaxMessages, list)
    BY <1>3, Carried DEF Pushes, Trims, Expires
  <2>2. CASE Len(list) <= MaxMessages
    BY <2>1, <2>2 DEF Last
  <2>3. CASE ~(Len(list) <= MaxMessages)
    <3> DEFINE k == Len(list) - MaxMessages
    <3>1. k \in Nat /\ k < Len(list) /\ list' = SubSeq(list, k + 1, Len(list))
      BY <1>1, <2>1, <2>3 DEF Last
    <3>2. i \in 1..(Len(list) - k) /\ list'[i] = list[k + i]
      BY <1>1, <3>1
    <3>3. k + i \in DOMAIN list
      BY <1>1, <3>1, <3>2
    <3> QED
      BY <3>2, <3>3
  <2> QED
    BY <2>2, <2>3
<1>4. CASE pc[t] \notin Pushes \cup Trims
  <2>1. list' = list
    BY <1>4, Carried
  <2> QED
    BY <2>1
<1> QED
  BY <1>2, <1>3, <1>4

\* A call of Redis, heard of or not, leaves every question that is to be read.
LEMMA CallKeeps ==
  ASSUME MemoryTyped, MemoryTyped', QuestionKept, NEW t \in Turn, NEW s, Goto(t, s),
         pc[t] \in Calls, Apply(t) \/ UNCHANGED <<list, ttl>>, CountNewer(t),
         cut \subseteq cut',
         s \in Reading => \/ Message(t, "user.rpush") \in cut'
                          \/ pc[t] \in Reading \ {"lrange"}
                          \/ pc[t] = "user.rpush" /\ Apply(t)
  PROVE  QuestionKept'
<1>1. list \in Seq(Messages) /\ Len(list) \in Nat /\ MaxMessages \in Nat
      /\ list' \in Seq(Messages) /\ Len(list') \in Nat /\ Message(t, pc[t]) \in Messages
  BY MemoryAssumption DEF MemoryTyped, Messages, Message
<1>2. pc'[t] = s /\ \A u \in Turn \ {t} : pc'[u] = pc[u]
  BY DEF Goto, MemoryTyped
<1> SUFFICES ASSUME NEW u \in Turn, pc'[u] \in Reading, Message(u, "user.rpush") \notin cut'
             PROVE  newer'[u] >= MaxMessages \/ \E i \in Nat : QuestionAt(u, i)'
  BY DEF QuestionKept
<1>3. newer[u] \in Nat /\ newer'[u] \in Nat
  BY DEF MemoryTyped
<1>4. CASE u = t /\ pc[t] = "user.rpush" /\ Apply(t)
  <2>1. list' = Append(list, Message(t, "user.rpush"))
    BY <1>4, Carried DEF Pushes, Trims, Expires
  <2>2. Len(list') = Len(list) + 1 /\ list'[Len(list) + 1] = Message(t, "user.rpush")
    BY <1>1, <1>4, <2>1, AppendOf
  <2>3. PICK n \in Nat : n = Len(list) + 1
    BY <1>1
  <2>4. n \in DOMAIN list'
    BY <1>1, <2>2, <2>3
  <2>5. QuestionAt(u, n)'
    BY <1>1, <1>3, <1>4, <2>2, <2>3, <2>4 DEF QuestionAt
  <2> QED
    BY <2>5
<1>5. CASE ~(u = t /\ pc[t] = "user.rpush" /\ Apply(t))
  <2>1. pc[u] \in Reading /\ (u = t => pc[t] \in Reading \ {"lrange"})
    BY <1>2, <1>5
  <2>2. newer[u] >= MaxMessages \/ \E i \in Nat : QuestionAt(u, i)
    BY <2>1 DEF QuestionKept
  <2>3. CASE list' = list
    <3>1. newer'[u] = newer[u]
      BY <2>1, <2>3 DEF CountNewer
    <3> QED
      BY <2>2, <2>3, <3>1 DEF QuestionAt
  <2>4. CASE pc[t] \in Pushes /\ list' = Append(list, Message(t, pc[t]))
    <3>1. u # t
      BY <2>1, <2>4 DEF Pushes, Reading
    <3>2. list' # list
      <4>1. Len(list') = Len(list) + 1
        BY <1>1, <2>4, AppendOf
      <4> QED
        BY <1>1, <4>1
    <3>3. newer'[u] = Minimum(MaxMessages, newer[u] + 1)
      BY <2>1, <2>4, <3>1, <3>2 DEF CountNewer, Reading
    <3>4. CASE newer'[u] >= MaxMessages
      BY <3>4
    <3>5. CASE ~(newer'[u] >= MaxMessages)
      <4>1. newer'[u] = newer[u] + 1 /\ newer[u] < MaxMessages
        BY <1>1, <1>3, <3>3, <3>5 DEF Minimum
      <4>2. PICK i \in Nat : QuestionAt(u, i)
        BY <1>1, <1>3, <2>2, <4>1
      <4>3. QuestionAt(u, i)'
        BY <1>1, <1>3, <2>4, <4>1, <4>2 DEF QuestionAt
      <4> QED
        BY <4>3
    <3> QED
      BY <3>4, <3>5
  <2>5. CASE pc[t] \in Trims /\ list' = Last(MaxMessages, list)
    <3>1. newer'[u] = newer[u]
      BY <2>5 DEF CountNewer, Trims, Pushes
    <3>2. CASE newer[u] >= MaxMessages
      BY <3>1, <3>2
    <3>3. CASE ~(newer[u] >= MaxMessages)
      <4>1. PICK i \in Nat : QuestionAt(u, i)
        BY <2>2, <3>3
      <4>2. i \in DOMAIN list /\ Len(list) - i < MaxMessages
        BY <1>1, <1>3, <3>3, <4>1 DEF QuestionAt
      <4>3. PICK j \in DOMAIN list' : list'[j] = list[i] /\ Len(list') - j = Len(list) - i
        BY <1>1, <2>5, <4>2, LastOf, MemoryAssumption
      <4>4. j \in Nat
        BY <1>1
      <4> QED
        BY <3>1, <4>1, <4>3, <4>4 DEF QuestionAt
    <3> QED
      BY <3>2, <3>3
  <2> QED
    BY <2>3, <2>4, <2>5, Carried
<1> QED
  BY <1>4, <1>5

LEMMA CallRedisMemory ==
  ASSUME MemoryIInv, NEW t \in Turn, CallRedis(t)
  PROVE  MemoryIInv'
<1> USE DEF MemoryIInv
<1> DEFINE s == Following(pc[t])
<1>1. pc[t] \in Calls /\ Apply(t) /\ Goto(t, s) /\ CountNewer(t)
      /\ UNCHANGED <<losses, seen, notice, notices, broken, cut>>
  BY DEF CallRedis, Calls
<1>2. /\ s \in Place
      /\ s \notin {"failed", "replied"}
      /\ s \in Trims <=> pc[t] \in Pushes
      /\ s \in Expires <=> pc[t] \in Trims
      /\ s \in Trims \cup Expires => Message(t, s) = Message(t, pc[t])
      /\ s \in Reading <=> pc[t] \in {"user.rpush", "user.ltrim", "user.expire"}
      /\ pc'[t] = s /\ \A u \in Turn \ {t} : pc'[u] = pc[u]
  <2>1. /\ s \in Place /\ s \notin {"failed", "replied"}
        /\ s \in Trims <=> pc[t] \in Pushes
        /\ s \in Expires <=> pc[t] \in Trims
        /\ s \in Reading <=> pc[t] \in {"user.rpush", "user.ltrim", "user.expire"}
    BY <1>1, Order, Places DEF Calls, Pushes, Trims, Expires, Reading
  <2>2. s \in Trims \cup Expires => Message(t, s) = Message(t, pc[t])
    BY <1>1, Order DEF Calls, Pushes, Trims, Expires, Message, UserSteps
  <2> QED
    BY <1>1, <2>1, <2>2 DEF Goto, MemoryTyped
<1> HIDE DEF s
<1>3. list \in Seq(Messages) /\ Len(list) \in Nat /\ MaxMessages \in Nat
      /\ Message(t, pc[t]) \in Messages
  BY MemoryAssumption DEF MemoryTyped, Messages, Message
<1>4. MemoryTyped'
  BY <1>1, <1>2, ApplyTyped, CountTyped, MoveTyped DEF MemoryTyped
<1>5. MemoryBounded'
  <2>1. Len(list') <= MaxMessages + losses' + Cardinality(Trimming)'
    <3>1. CASE pc[t] \in Pushes
      <4>1. list' = Append(list, Message(t, pc[t]))
        BY <1>1, <3>1, Carried DEF Pushes, Trims, Expires
      <4>2. Len(list') = Len(list) + 1
        BY <1>3, <4>1, AppendOf
      <4> QED
        BY <1>1, <1>2, <1>3, <3>1, <4>2, MoveBounded DEF Pushes, Trims
    <3>2. CASE pc[t] \in Trims
      <4>1. list' = Last(MaxMessages, list)
        BY <1>1, <3>2, Carried DEF Pushes, Trims, Expires
      <4>2. Len(list') \in Nat /\ Len(list') <= MaxMessages
        BY <1>3, <4>1, LastOf, MemoryAssumption
      <4> QED
        BY <1>1, <1>2, <3>2, <4>2, MoveBounded DEF Pushes, Trims
    <3>3. CASE pc[t] \in Expires \cup {"lrange"}
      <4>1. list' = list
        BY <1>1, <3>3, Carried DEF Pushes, Trims, Expires
      <4> QED
        BY <1>1, <1>2, <1>3, <3>3, <4>1, MoveBounded DEF Pushes, Trims, Expires
    <3> QED
      BY <1>1, <3>1, <3>2, <3>3 DEF Calls
  <2>2. CASE pc[t] \in Expires
    <3>1. list' = list /\ (ttl' <=> list # << >>)
      BY <1>1, <2>2, Carried DEF Pushes, Trims, Expires
    <3>2. Unexpired'
      BY <1>3, <3>1 DEF Unexpired
    <3> QED
      BY <2>1, <3>2, BoundedAfter
  <2>3. CASE pc[t] \notin Expires
    <3>1. ttl' = ttl
      BY <1>1, <2>3, Carried
    <3>2. \A i \in DOMAIN list' : \/ \E j \in DOMAIN list : list'[i] = list[j]
                                  \/ s \in Trims /\ list'[i] = Message(t, s)
      BY <1>1, <1>2, MessagesAfter
    <3>3. pc[t] \in Trims => s \in Trims \cup Expires /\ Message(t, s) = Message(t, pc[t])
      BY <1>2
    <3>4. Unexpired'
      BY <1>1, <2>3, <3>1, <3>2, <3>3, UnexpiredFrame DEF MemoryBounded, Unexpired
    <3> QED
      BY <2>1, <3>4, BoundedAfter
  <2> QED
    BY <2>2, <2>3
<1>6. NoticedOnce'
  <2>1. pc[t] \notin {"failed", "replied"}
    BY <1>1 DEF Calls, Pushes, Trims, Expires
  <2>2. ASSUME NEW u \in Turn, NoticedBy(u) PROVE NoticedBy(u)'
    BY <1>1, <1>2, <2>1, <2>2 DEF NoticedBy
  <2> QED
    BY <1>1, <2>2 DEF NoticedOnce
<1>7. QuestionKept'
  <2>1. s \in Reading => pc[t] \in Reading \ {"lrange"} \/ pc[t] = "user.rpush"
    BY <1>2 DEF Reading
  <2> QED
    BY <1>1, <1>4, <2>1, CallKeeps
<1> QED
  BY <1>4, <1>5, <1>6, <1>7

LEMMA LoseRedisMemory ==
  ASSUME MemoryIInv, NEW t \in Turn, LoseRedis(t)
  PROVE  MemoryIInv'
<1> USE DEF MemoryIInv
<1> DEFINE s == AfterAppend(pc[t])
<1>1. /\ pc[t] \in Calls /\ Goto(t, s) /\ CountNewer(t) /\ RecordUnavailable(t)
      /\ Apply(t) \/ UNCHANGED <<list, ttl>>
      /\ losses' = losses + 1 /\ notices' = notices
      /\ cut' = IF pc[t] = "lrange" THEN cut ELSE cut \cup {Message(t, pc[t])}
  BY DEF LoseRedis, Calls
<1>2. /\ s \in Place /\ s \notin Trims /\ s \notin {"failed", "replied"}
      /\ s \in Reading <=> pc[t] \in UserSteps
      /\ pc'[t] = s /\ \A u \in Turn \ {t} : pc'[u] = pc[u]
  <2>1. s \in Place /\ s \notin Trims /\ s \notin {"failed", "replied"}
        /\ (s \in Reading <=> pc[t] \in UserSteps)
    BY Places DEF AfterAppend, Trims, Reading, UserSteps
  <2> QED
    BY <1>1, <2>1 DEF Goto, MemoryTyped
<1> HIDE DEF s
<1>3. list \in Seq(Messages) /\ Len(list) \in Nat /\ MaxMessages \in Nat /\ losses \in Nat
      /\ Message(t, pc[t]) \in Messages /\ ttl \in BOOLEAN
  BY MemoryAssumption DEF MemoryTyped, Messages, Message
<1>4. MemoryTyped'
  <2>1. list' \in Seq(Messages) /\ ttl' \in BOOLEAN
    BY <1>1, <1>3, ApplyTyped
  <2>2. notice' \subseteq Turn /\ seen' \subseteq Turn /\ broken' \subseteq Turn
    BY <1>1 DEF RecordUnavailable, MemoryTyped
  <2> QED
    BY <1>1, <1>2, <1>3, <2>1, <2>2, CountTyped, MoveTyped
<1>5. Len(list') <= MaxMessages + losses' + Cardinality(Trimming)'
  <2>1. CASE pc[t] \in Trims /\ Apply(t)
    <3>1. list' = Last(MaxMessages, list)
      BY <1>1, <2>1, Carried DEF Pushes, Trims, Expires
    <3>2. Len(list') \in Nat /\ Len(list') <= MaxMessages
      BY <1>3, <3>1, LastOf, MemoryAssumption
    <3> QED
      BY <1>1, <1>2, <1>3, <3>2, MoveBounded
  <2>2. CASE pc[t] \in Trims /\ UNCHANGED list
    BY <1>1, <1>2, <1>3, <2>2, MoveBounded
  <2>3. CASE pc[t] \notin Trims
    <3>1. list' = list \/ list' = Append(list, Message(t, pc[t]))
      BY <1>1, <2>3, Carried
    <3>2. Len(list') \in Nat /\ Len(list') <= Len(list) + 1
      BY <1>3, <3>1, AppendOf
    <3> QED
      BY <1>1, <1>2, <1>3, <2>3, <3>2, MoveBounded
  <2> QED
    BY <1>1, <2>1, <2>2, <2>3
<1>6. Unexpired'
  <2>1. CASE pc[t] \in Expires /\ Apply(t)
    <3>1. list' = list /\ (ttl' <=> list # << >>)
      BY <1>1, <2>1, Carried DEF Pushes, Trims, Expires
    <3> QED
      BY <1>3, <3>1 DEF Unexpired
  <2>2. CASE ~(pc[t] \in Expires /\ Apply(t))
    <3>1. ttl' = ttl
      BY <1>1, <2>2, Carried
    <3>2. cut \subseteq cut' /\ (pc[t] # "lrange" => Message(t, pc[t]) \in cut')
      BY <1>1
    <3>3. \A i \in DOMAIN list' : \/ \E j \in DOMAIN list : list'[i] = list[j]
                                  \/ list'[i] \in cut'
      <4>1. CASE UNCHANGED list
        BY <4>1
      <4>2. CASE Apply(t)
        BY <1>1, <3>2, <4>2, MessagesAfter DEF Pushes
      <4> QED
        BY <1>1, <4>1, <4>2
    <3>4. pc[t] \in Trims \cup Expires => Message(t, pc[t]) \in cut'
      BY <3>2 DEF Trims, Expires
    <3> QED
      BY <1>1, <3>1, <3>2, <3>3, <3>4, UnexpiredFrame DEF MemoryBounded, Unexpired
  <2> QED
    BY <2>1, <2>2
<1>7. NoticedOnce'
  <2>1. pc[t] \notin {"failed", "replied"} /\ losses' > 0
    BY <1>1, <1>3 DEF Calls, Pushes, Trims, Expires
  <2>2. CASE seen # {}
    <3>1. PICK u \in Turn : NoticedBy(u)
      BY <2>2 DEF NoticedOnce
    <3>2. UNCHANGED <<seen, notice, notices, broken>>
      BY <1>1, <2>2 DEF RecordUnavailable
    <3>3. NoticedBy(u)'
      BY <1>2, <2>1, <3>1, <3>2 DEF NoticedBy
    <3> QED
      BY <3>3 DEF NoticedOnce
  <2>3. CASE seen = {}
    <3>1. notice = {} /\ notices = 0 /\ broken = {}
      BY <2>3 DEF NoticedOnce, NoticedBy
    <3>2. NoticedBy(t)'
      BY <1>1, <1>2, <2>1, <2>3, <3>1 DEF RecordUnavailable, NoticedBy
    <3> QED
      BY <3>2 DEF NoticedOnce
  <2> QED
    BY <2>2, <2>3
<1>8. QuestionKept'
  <2>1. s \in Reading => Message(t, "user.rpush") \in cut'
    <3> SUFFICES ASSUME s \in Reading PROVE Message(t, "user.rpush") \in cut'
      OBVIOUS
    <3>1. pc[t] \in UserSteps
      BY <1>2
    <3>2. Message(t, pc[t]) = Message(t, "user.rpush") /\ pc[t] # "lrange"
      BY <3>1 DEF Message, UserSteps
    <3> QED
      BY <1>1, <3>2
  <2> QED
    BY <1>1, <1>4, <2>1, CallKeeps
<1> QED
  BY <1>4, <1>5, <1>6, <1>7, <1>8, BoundedAfter

LEMMA ForgetMemory ==
  ASSUME MemoryIInv, Forget
  PROVE  MemoryIInv'
<1> USE DEF MemoryIInv
<1>1. MemoryTyped'
  <2>1. Begun' = Begun
    BY DEF Forget, Begun
  <2>2. list' = << >> /\ ttl' = FALSE
    BY DEF Forget
  <2>3. list' \in Seq(Messages)
    BY <2>2
  <2> QED
    BY <2>1, <2>2, <2>3 DEF Forget, MemoryTyped, Place, Messages
<1>2. MemoryBounded'
  <2>1. list' = << >> /\ Len(list') = 0 /\ losses' = losses /\ Trimming' = Trimming
    BY DEF Forget, Trimming
  <2>2. IsFiniteSet(Trimming)
    <3>1. Trimming \subseteq Begun
      BY DEF Trimming, Begun, Trims
    <3> QED
      BY <3>1, FS_Subset DEF MemoryTyped
  <2>3. Cardinality(Trimming) \in Nat
    BY <2>2, FS_CardinalityType
  <2>4. Len(list') <= MaxMessages + losses' + Cardinality(Trimming)'
    BY <2>1, <2>3, MemoryAssumption DEF MemoryTyped
  <2>5. Unexpired'
    BY <2>1 DEF Unexpired
  <2> QED
    BY <2>4, <2>5, BoundedAfter
<1>3. NoticedOnce'
  BY DEF Forget, NoticedOnce, NoticedBy
<1>4. QuestionKept'
  BY DEF Forget, QuestionKept, Reading
<1> QED
  BY <1>1, <1>2, <1>3, <1>4

\* The end of a turn, answered or not.
LEMMA EndMemory ==
  ASSUME MemoryIInv, NEW t \in Turn, WorkFails(t) \/ Commit(t) \/ CommitFails(t)
  PROVE  MemoryIInv'
<1> USE DEF MemoryIInv
<1>1. PICK s \in {"failed", "replied"} : Goto(t, s) /\ (s = "replied" <=> Commit(t))
  <2>1. CASE Commit(t)
    BY <2>1 DEF Commit
  <2>2. CASE ~Commit(t)
    BY <2>2 DEF WorkFails, CommitFails
  <2> QED
    BY <2>1, <2>2
<1>2. /\ pc[t] \in {"assistant.rpush", "commit"} /\ s \in Place
      /\ notice' = notice \ {t}
      /\ UNCHANGED <<list, ttl, losses, seen, broken, cut, newer>>
  BY Places DEF WorkFails, Commit, CommitFails
<1>3. MemoryTyped' /\ MemoryBounded' /\ QuestionKept'
  BY <1>1, <1>2, RestMemory DEF MemoryTyped, Trims, Expires, Reading
<1>4. NoticedOnce'
  <2>1. pc'[t] = s /\ \A u \in Turn \ {t} : pc'[u] = pc[u]
    BY <1>1 DEF Goto, MemoryTyped
  <2>2. notices' = IF s = "replied" /\ t \in notice THEN notices + 1 ELSE notices
    <3>1. CASE Commit(t)
      <4>1. notices \in Nat
        BY DEF NoticedOnce, NoticedBy
      <4> QED
        BY <1>1, <3>1, <4>1 DEF Commit
    <3>2. CASE ~Commit(t)
      BY <1>1, <3>2 DEF WorkFails, CommitFails
    <3> QED
      BY <3>1, <3>2
  <2>3. CASE seen = {}
    BY <1>2, <2>2, <2>3 DEF NoticedOnce, NoticedBy
  <2>4. ASSUME NEW u \in Turn, NoticedBy(u) PROVE NoticedBy(u)'
    <3>1. CASE u # t
      BY <1>2, <2>1, <2>2, <2>4, <3>1 DEF NoticedBy
    <3>2. CASE u = t
      <4>1. s = "replied" => t \notin broken
        BY <1>1 DEF Commit
      <4> QED
        BY <1>2, <2>1, <2>2, <2>4, <3>2, <4>1 DEF NoticedBy
    <3> QED
      BY <3>1, <3>2
  <2> QED
    BY <2>3, <2>4 DEF NoticedOnce
<1> QED
  BY <1>3, <1>4

LEMMA MemoryStep ==
  ASSUME MemoryIInv,
         \/ \E t \in Turn : Begin(t) \/ TurnStep(t)
         \/ Forget
         \/ UNCHANGED memoryVars
  PROVE  MemoryIInv'
<1>1. ASSUME NEW t \in Turn, Begin(t) \/ TurnStep(t) PROVE MemoryIInv'
  BY <1>1, BeginMemory, CallRedisMemory, LoseRedisMemory, EndMemory DEF TurnStep
<1>2. CASE UNCHANGED memoryVars
  BY <1>2 DEF memoryVars, MemoryIInv, MemoryTyped, MemoryBounded, UnderWay, NoticedOnce,
              NoticedBy, QuestionKept, QuestionAt, Begun
<1> QED
  BY <1>1, <1>2, ForgetMemory

LEMMA MemoryStart == MemoryInit => MemoryIInv
<1> SUFFICES ASSUME MemoryInit PROVE MemoryIInv
  OBVIOUS
<1>1. Begun = {} /\ {t \in Turn : pc[t] \in Trims} = {}
  BY DEF MemoryInit, Begun, Trims
<1>0. list = << >> /\ list \in Seq(Messages) /\ Len(list) = 0
  BY DEF MemoryInit
<1>2. MemoryTyped
  <2>1. IsFiniteSet(Begun)
    BY <1>1, FS_EmptySet
  <2> QED
    BY <1>0, <2>1, Places DEF MemoryInit, MemoryTyped
<1>3. MemoryBounded
  <2>1. Cardinality({t \in Turn : pc[t] \in Trims}) = 0
    BY <1>1, FS_EmptySet
  <2> QED
    BY <1>0, <2>1, MemoryAssumption DEF MemoryInit, MemoryBounded
<1>4. NoticedOnce /\ QuestionKept
  BY DEF MemoryInit, NoticedOnce, QuestionKept, Reading
<1> QED
  BY <1>2, <1>3, <1>4 DEF MemoryIInv

----------------------------------------------------------------------------
(* The widget: what its steps have in common *)

LEMMA AskedAreQuestions ==
  ASSUME ClientTyped
  PROVE  1..asked \subseteq Question
<1>1. 1..asked \subseteq 1..budget.asked
  BY ClientAssumption DEF ClientTyped
<1> QED
  BY <1>1 DEF ClientTyped, Question

LEMMA MadeAreTurns ==
  ASSUME ClientTyped
  PROVE  1..made \subseteq Turn
<1>1. 1..made \subseteq 1..budget.calls
  BY ClientAssumption DEF ClientTyped
<1> QED
  BY <1>1, VisitAssumption DEF ClientTyped

\* Another message is shown after those there are.
LEMMA ShowsMore ==
  ASSUME ClientTyped, NEW m \in Said, chat'.messages = Append(chat.messages, m)
  PROVE  /\ chat'.messages \in Seq(Said)
         /\ \A n : (Shows(n) \/ n = m) <=> Shows(n)'
         /\ \A i \in DOMAIN chat'.messages :
               \/ i \in DOMAIN chat.messages /\ chat'.messages[i] = chat.messages[i]
               \/ i = Len(chat.messages) + 1 /\ chat'.messages[i] = m
         /\ \A i \in DOMAIN chat.messages :
               i \in DOMAIN chat'.messages /\ chat'.messages[i] = chat.messages[i]
<1> DEFINE s == chat.messages
           u == chat'.messages
<1>1. s \in Seq(Said) /\ DOMAIN s = 1..Len(s) /\ Len(s) \in Nat
  BY DEF ClientTyped
<1>2. u \in Seq(Said) /\ Len(u) = Len(s) + 1 /\ u[Len(s) + 1] = m
      /\ DOMAIN u = 1..(Len(s) + 1)
      /\ \A i \in DOMAIN s : i \in DOMAIN u /\ u[i] = s[i]
  BY <1>1, AppendOf
<1> HIDE DEF s, u
<1>3. \A i \in DOMAIN u : (i \in DOMAIN s /\ u[i] = s[i]) \/ (i = Len(s) + 1 /\ u[i] = m)
  BY <1>1, <1>2
<1>4. Len(s) + 1 \in DOMAIN u
  BY <1>1, <1>2
<1>5. \A n : ((\E i \in DOMAIN s : s[i] = n) \/ n = m) <=> \E i \in DOMAIN u : u[i] = n
  BY <1>2, <1>3, <1>4
<1> QED
  BY <1>2, <1>3, <1>5 DEF s, u, Shows

\* Answers are where they should be after another message, if it is.
LEMMA AnswersAfter ==
  ASSUME ClientTyped, AnswersFollowQuestions, NEW m \in Said,
         chat'.messages = Append(chat.messages, m),
         UNCHANGED <<orphans, hides>>,
         m.role = "assistant" =>
            /\ m.question \in orphans \/ Shows(User(m.question))
            /\ hides = 0 => ~Shows(m)
  PROVE  AnswersFollowQuestions'
<1> DEFINE s == chat.messages
           u == chat'.messages
<1>1. /\ \A i \in DOMAIN u : (i \in DOMAIN s /\ u[i] = s[i]) \/ (i = Len(s) + 1 /\ u[i] = m)
      /\ \A i \in DOMAIN s : i \in DOMAIN u /\ u[i] = s[i]
  BY ShowsMore
<1>2. DOMAIN s = 1..Len(s) /\ Len(s) \in Nat
  BY DEF ClientTyped
<1>3. \A i \in DOMAIN s : s[i].role = "assistant" =>
        /\ s[i].question \in orphans \/ \E j \in 1..(i - 1) : s[j] = User(s[i].question)
        /\ hides = 0 => \A j \in DOMAIN s : s[j].role = "assistant" /\ s[j] = s[i] => j = i
  BY DEF AnswersFollowQuestions
<1>4. m.role = "assistant" =>
        /\ m.question \in orphans \/ \E j \in DOMAIN s : s[j] = User(m.question)
        /\ hides = 0 => \A j \in DOMAIN s : s[j] # m
  BY DEF Shows
<1> HIDE DEF s, u
<1>5. ASSUME NEW i \in DOMAIN u, u[i].role = "assistant"
      PROVE  /\ \/ u[i].question \in orphans
                \/ \E j \in 1..(i - 1) : u[j] = User(u[i].question)
             /\ hides = 0 => \A j \in DOMAIN u : u[j].role = "assistant" /\ u[j] = u[i] => j = i
  <2>1. CASE i \in DOMAIN s /\ u[i] = s[i]
    <3>1. ASSUME NEW j \in 1..(i - 1), s[j] = User(s[i].question)
          PROVE  u[j] = User(u[i].question)
      BY <1>1, <1>2, <2>1, <3>1
    <3>2. hides = 0 => \A j \in DOMAIN u : u[j].role = "assistant" /\ u[j] = u[i] => j = i
      BY <1>1, <1>3, <1>4, <1>5, <2>1
    <3> QED
      BY <1>3, <1>5, <2>1, <3>1, <3>2
  <2>2. CASE i = Len(s) + 1 /\ u[i] = m
    <3>1. ASSUME NEW j \in DOMAIN s, s[j] = User(m.question)
          PROVE  j \in 1..(i - 1) /\ u[j] = User(u[i].question)
      BY <1>1, <1>2, <2>2, <3>1
    <3>2. hides = 0 => \A j \in DOMAIN u : u[j].role = "assistant" /\ u[j] = u[i] => j = i
      BY <1>1, <1>4, <1>5, <2>2
    <3> QED
      BY <1>4, <1>5, <2>2, <3>1, <3>2
  <2> QED
    BY <1>1, <2>1, <2>2
<1> QED
  BY <1>5 DEF u, AnswersFollowQuestions

\* What is said does not concern the page, nor the handshake.
LEMMA TalkFrame ==
  ASSUME ClientIInv, UNCHANGED talk
  PROVE  OneCall' /\ AwaitedShown' /\ AnswersFollowQuestions'
BY DEF ClientIInv, talk, OneCall, AwaitedShown, Awaited, Shows, AnswersFollowQuestions

LEMMA PageKeeps ==
  ASSUME ClientIInv, PageStep \/ UNCHANGED clientVars
  PROVE  ClientIInv'
<1>1. UNCHANGED <<talk, budget>>
  BY DEF PageStep, RunScript, BodyParsed, ContentLoaded, Listen, Load, HostOrigin, TokenGranted,
         TokenRefused, ConfigLoaded, page, clientVars
<1>2. ASSUME NEW t \in Script, Mount(t)
      PROVE  script' \in [Script -> {"new", "waiting", "done"}] /\ frames' \in 0..1
  BY <1>2 DEF ClientIInv, ClientTyped, Mount
<1>3. script' \in [Script -> {"new", "waiting", "done"}] /\ frames' \in 0..1
  BY <1>2 DEF ClientIInv, ClientTyped, PageStep, RunScript, BodyParsed, ContentLoaded, Listen,
     Load, HostOrigin, TokenGranted, TokenRefused, ConfigLoaded, page, clientVars
<1>4. /\ greeted' \in {"no", "posted", "got", "missed"}
      /\ app' \in {"waiting_for_host_origin", "exchanging", "ready", "unavailable"}
  BY DEF ClientIInv, ClientTyped, PageStep, RunScript, BodyParsed, ContentLoaded, Listen,
     Load, HostOrigin, TokenGranted, TokenRefused, ConfigLoaded, hello, clientVars
<1>5. ClientTyped'
  BY <1>1, <1>3, <1>4 DEF ClientIInv, ClientTyped, talk
<1> QED
  BY <1>1, <1>5, TalkFrame DEF ClientIInv

----------------------------------------------------------------------------
(* The widget: the visitor's steps and the outcomes of calls *)

LEMMA PostTyped ==
  ASSUME ClientTyped, NEW q \in Nat, q \in 1..asked', asked' \in Nat, asked <= asked', Post(q)
  PROVE  /\ made' \in Nat /\ made' <= budget.calls
         /\ calls' \subseteq Call
         /\ \A c \in calls' : c.id \in 1..made' /\ c.question \in 1..asked'
<1>1. budget.calls \in Nat /\ made \in Nat /\ made' = made + 1 /\ made < budget.calls
  BY ClientAssumption DEF ClientTyped, Post
<1>2. calls' = calls \cup {[id |-> made + 1, question |-> q]}
  BY DEF Post
<1>3. ASSUME NEW d \in calls' PROVE d \in Call /\ d.id \in 1..made' /\ d.question \in 1..asked'
  <2>1. CASE d \in calls
    <3>1. d \in Call /\ d.id \in 1..made /\ d.question \in 1..asked
      BY <2>1 DEF ClientTyped
    <3>2. asked \in Nat
      BY DEF ClientTyped
    <3> QED
      BY <1>1, <3>1, <3>2
  <2>2. CASE d = [id |-> made + 1, question |-> q]
    BY <1>1, <2>2 DEF Call
  <2> QED
    BY <1>2, <2>1, <2>2
<1> QED
  BY <1>1, <1>3

LEMMA SendKeeps ==
  ASSUME ClientIInv, Send
  PROVE  ClientIInv'
<1> USE DEF ClientIInv
<1> DEFINE q == asked + 1
           c == [id |-> made + 1, question |-> q]
<1>1. /\ asked' = q /\ q \in Nat /\ q \in 1..asked' /\ asked <= asked' /\ q <= budget.asked
      /\ UNCHANGED <<Surface, hides, orphans>>
      /\ Post(q) /\ calls' = calls \cup {c}
      /\ chat.status \notin {"sending", "expired"}
  BY ClientAssumption DEF Send, ClientTyped, Post, Busy
<1>2. /\ User(q) \in Said /\ User(q).question = q /\ User(q).role = "user"
      /\ c.question = q /\ q # None /\ None \in Nat
  BY <1>1 DEF User, Said, ClientTyped, None
<1> HIDE DEF q
<1>3. /\ chat'.messages = Append(chat.messages, User(q))
      /\ chat'.status = "sending" /\ chat'.pendingPrompt = q
      /\ chat' = [messages |-> chat'.messages, status |-> "sending", pendingPrompt |-> q]
  BY <1>1 DEF Send, q, Dispatch, SendStart, Busy, ClientTyped
<1>4. /\ chat'.messages \in Seq(Said)
      /\ \A i \in DOMAIN chat'.messages :
               \/ i \in DOMAIN chat.messages /\ chat'.messages[i] = chat.messages[i]
               \/ i = Len(chat.messages) + 1 /\ chat'.messages[i] = User(q)
  BY <1>2, <1>3, ShowsMore
<1>5. \A n : (Shows(n) \/ n = User(q)) <=> Shows(n)'
  BY <1>2, <1>3, ShowsMore
<1>6. ClientTyped'
  <2>1. chat' \in [messages : Seq(Said), status : Statuses, pendingPrompt : Nat]
    BY <1>1, <1>3, <1>4 DEF Statuses
  <2>2. \A i \in DOMAIN chat'.messages : chat'.messages[i].question \in 1..asked'
    BY <1>1, <1>2, <1>4 DEF ClientTyped
  <2>3. orphans' \subseteq 1..asked'
    BY <1>1 DEF ClientTyped
  <2>4. chat'.pendingPrompt <= asked' /\ asked' \in Nat /\ asked' <= budget'.asked /\ budget' = budget
    BY <1>1, <1>3 DEF Surface, page
  <2>5. UNCHANGED <<script, frames, greeted, app, hides>>
    BY <1>1 DEF Surface, page, hello
  <2>6. /\ made' \in Nat /\ made' <= budget'.calls
        /\ calls' \subseteq Call
        /\ \A d \in calls' : d.id \in 1..made' /\ d.question \in 1..asked'
    BY <1>1, <2>4, PostTyped
  <2> QED
    BY <2>1, <2>2, <2>3, <2>4, <2>5, <2>6 DEF ClientTyped, Said, Call, Statuses
<1>7. OneCall'
  BY <1>1, <1>2, <1>3 DEF OneCall
<1>8. AwaitedShown'
  <2>1. Awaited' \subseteq Awaited \cup {q}
    BY <1>1, <1>2, <1>3 DEF Awaited
  <2>2. ASSUME NEW p \in Awaited'
        PROVE  (p \in orphans \/ Shows(User(p)))' /\ (hides' = 0 => ~Shows(Assistant(p))')
    <3>1. CASE p = q
      <4>1. \A i \in DOMAIN chat.messages : chat.messages[i] # Assistant(q)
        BY <1>1 DEF ClientTyped, Assistant, q
      <4>2. ~Shows(Assistant(p))'
        BY <3>1, <4>1, <1>5 DEF Shows, User, Assistant
      <4> QED
        BY <3>1, <4>2, <1>5
    <3>2. CASE p \in Awaited
      <4>1. p \in orphans \/ Shows(User(p))
        BY <3>2 DEF AwaitedShown
      <4>2. hides = 0 => ~Shows(Assistant(p))
        BY <3>2 DEF AwaitedShown
      <4>3. Assistant(p) # User(q)
        BY DEF Assistant, User
      <4> QED
        BY <1>1, <1>5, <4>1, <4>2, <4>3
    <3> QED
      BY <2>1, <3>1, <3>2
  <2> QED
    BY <2>2 DEF AwaitedShown
<1>9. AnswersFollowQuestions'
  BY <1>1, <1>2, <1>3, AnswersAfter
<1> QED
  BY <1>6, <1>7, <1>8, <1>9

LEMMA RetryKeeps ==
  ASSUME ClientIInv, Retry
  PROVE  ClientIInv'
<1> USE DEF ClientIInv
<1> DEFINE q == chat.pendingPrompt
           c == [id |-> made + 1, question |-> q]
<1>1. /\ chat.status = "error" /\ q \in Nat /\ q # None /\ q \in 1..asked
      /\ Post(q) /\ calls' = calls \cup {c} /\ c.question = q
      /\ UNCHANGED <<Surface, asked, hides, orphans>>
  BY DEF Retry, MayRetry, ClientTyped, Post, None
<1>2. /\ chat' = [messages |-> chat.messages, status |-> "sending", pendingPrompt |-> q]
      /\ chat'.messages = chat.messages /\ chat'.status = "sending" /\ chat'.pendingPrompt = q
  BY DEF Retry, RetryLast, Dispatch, ClientTyped
<1> HIDE DEF q
<1>3. ClientTyped'
  <2>1. chat' \in [messages : Seq(Said), status : Statuses, pendingPrompt : Nat]
    BY <1>1, <1>2 DEF Statuses, ClientTyped
  <2>2. UNCHANGED <<budget, script, frames, greeted, app, hides, asked, orphans>>
    BY <1>1 DEF Surface, page, hello
  <2>3. /\ made' \in Nat /\ made' <= budget.calls
        /\ calls' \subseteq Call
        /\ \A d \in calls' : d.id \in 1..made' /\ d.question \in 1..asked'
    BY <1>1, <2>2, PostTyped DEF ClientTyped
  <2>4. chat'.pendingPrompt <= asked
        /\ \A i \in DOMAIN chat'.messages : chat'.messages[i].question \in 1..asked
    BY <1>1, <1>2 DEF ClientTyped
  <2> QED
    BY <2>1, <2>2, <2>3, <2>4 DEF ClientTyped, Said, Call, Statuses
<1>4. OneCall'
  BY <1>1, <1>2 DEF OneCall
<1>5. AwaitedShown'
  <2>1. Awaited' = Awaited
    BY <1>1, <1>2 DEF Awaited, q
  <2> QED
    BY <1>1, <1>2, <2>1 DEF AwaitedShown, Shows
<1>6. AnswersFollowQuestions'
  BY <1>1, <1>2 DEF AnswersFollowQuestions
<1> QED
  BY <1>3, <1>4, <1>5, <1>6

LEMMA HideKeeps ==
  ASSUME ClientIInv, Hide
  PROVE  ClientIInv'
<1> USE DEF ClientIInv
<1>1. /\ hides' = hides + 1 /\ hides \in Nat
      /\ orphans' = orphans \cup {c.question : c \in calls}
      /\ UNCHANGED <<budget, script, frames, greeted, app, calls, asked, made>>
  BY DEF Hide, ClientTyped, Surface, page, hello
<1>2. /\ chat' = [messages |-> << >>, status |-> "idle", pendingPrompt |-> None]
      /\ chat'.messages = << >> /\ chat'.status = "idle" /\ chat'.pendingPrompt = None
      /\ DOMAIN chat'.messages = {}
  BY DEF Hide, Reset, InitialState, Dispatch
<1>3. ClientTyped'
  <2>1. chat' \in [messages : Seq(Said), status : Statuses, pendingPrompt : Nat]
    BY <1>2 DEF Statuses, None
  <2>2. orphans' \subseteq 1..asked
    BY <1>1 DEF ClientTyped
  <2>3. chat'.pendingPrompt <= asked
    BY <1>2 DEF ClientTyped, None
  <2> QED
    BY <1>1, <1>2, <2>1, <2>2, <2>3 DEF ClientTyped, Said, Call, Statuses
<1>4. OneCall'
  BY <1>1, <1>2 DEF OneCall
<1>5. AwaitedShown'
  <2>1. Awaited' \subseteq orphans' /\ hides' # 0
    BY <1>1, <1>2 DEF Awaited
  <2> QED
    BY <2>1 DEF AwaitedShown
<1>6. AnswersFollowQuestions'
  BY <1>2 DEF AnswersFollowQuestions
<1> QED
  BY <1>3, <1>4, <1>5, <1>6

LEMMA SettleKeeps ==
  ASSUME ClientIInv, NEW c, NEW outcome \in Outcomes, Settle(c, outcome)
  PROVE  ClientIInv'
<1> USE DEF ClientIInv
<1> DEFINE q == c.question
<1>1. /\ c \in calls /\ calls' = calls \ {c} /\ q \in 1..asked /\ q \in Nat /\ asked \in Nat
      /\ q \in Awaited
      /\ UNCHANGED <<budget, script, frames, greeted, app, asked, made, hides, orphans>>
  BY DEF Settle, ClientTyped, Call, Surface, page, hello, Awaited
<1>2. hides = 0 => calls = {c}
  BY <1>1 DEF OneCall
<1>3. CASE outcome = "ok"
  <2>1. /\ chat'.messages = Append(chat.messages, Assistant(q))
        /\ chat'.status = "idle" /\ chat'.pendingPrompt = None
        /\ chat' = [messages |-> chat'.messages, status |-> "idle", pendingPrompt |-> None]
    BY <1>3 DEF Settle, SendOk, Dispatch, ClientTyped
  <2>2. /\ Assistant(q) \in Said /\ Assistant(q).question = q
        /\ None \in Nat /\ None <= asked
    BY <1>1 DEF Assistant, Said, None
  <2>3. /\ q \in orphans \/ Shows(User(q))
        /\ hides = 0 => ~Shows(Assistant(q))
    BY <1>1 DEF AwaitedShown
  <2> HIDE DEF q
  <2>4. /\ chat'.messages \in Seq(Said)
        /\ \A i \in DOMAIN chat'.messages :
               \/ i \in DOMAIN chat.messages /\ chat'.messages[i] = chat.messages[i]
               \/ i = Len(chat.messages) + 1 /\ chat'.messages[i] = Assistant(q)
    BY <2>1, <2>2, ShowsMore
  <2>5. \A n : (Shows(n) \/ n = Assistant(q)) <=> Shows(n)'
    BY <2>1, <2>2, ShowsMore
  <2>6. ClientTyped'
    <3>1. chat' \in [messages : Seq(Said), status : Statuses, pendingPrompt : Nat]
      BY <2>1, <2>2, <2>4 DEF Statuses
    <3>2. \A i \in DOMAIN chat'.messages : chat'.messages[i].question \in 1..asked
      BY <1>1, <2>2, <2>4 DEF ClientTyped
    <3> QED
      BY <1>1, <2>1, <2>2, <3>1, <3>2 DEF ClientTyped, Said, Call, Statuses
  <2>7. OneCall'
    BY <1>1, <1>2, <2>1 DEF OneCall
  <2>8. AwaitedShown'
    <3>1. Awaited' \subseteq Awaited /\ (hides = 0 => Awaited' = {})
      BY <1>1, <1>2, <2>1 DEF Awaited
    <3> QED
      BY <1>1, <2>5, <3>1 DEF AwaitedShown
  <2>9. AnswersFollowQuestions'
    BY <1>1, <2>1, <2>2, <2>3, AnswersAfter
  <2> QED
    BY <2>6, <2>7, <2>8, <2>9
<1>4. CASE outcome # "ok"
  <2>1. /\ chat'.messages = chat.messages
        /\ \/ chat'.status = "error" /\ chat'.pendingPrompt = chat.pendingPrompt
           \/ chat'.status = "expired" /\ chat'.pendingPrompt = None
        /\ chat' = [messages |-> chat.messages, status |-> chat'.status,
                    pendingPrompt |-> chat'.pendingPrompt]
    BY <1>4 DEF Settle, HandleApiError, SendError, SessionExpired, Dispatch, ClientTyped
  <2> HIDE DEF q
  <2>2. ClientTyped'
    <3>1. chat'.pendingPrompt \in Nat /\ chat'.pendingPrompt <= asked
      BY <2>1 DEF ClientTyped, None
    <3>2. chat' \in [messages : Seq(Said), status : Statuses, pendingPrompt : Nat]
      BY <2>1, <3>1 DEF Statuses, ClientTyped
    <3> QED
      BY <1>1, <2>1, <3>1, <3>2 DEF ClientTyped, Said, Call, Statuses
  <2>3. OneCall'
    BY <1>1, <1>2, <2>1 DEF OneCall
  <2>4. AwaitedShown'
    <3>1. Awaited' \subseteq Awaited
      BY <1>1, <2>1 DEF Awaited
    <3> QED
      BY <1>1, <2>1, <3>1 DEF AwaitedShown, Shows
  <2>5. AnswersFollowQuestions'
    BY <1>1, <2>1 DEF AnswersFollowQuestions
  <2> QED
    BY <2>2, <2>3, <2>4, <2>5
<1> QED
  BY <1>3, <1>4

LEMMA ClientStarts == ClientInit => ClientIInv
<1> SUFFICES ASSUME ClientInit PROVE ClientIInv
  OBVIOUS
<1>1. /\ chat = [messages |-> << >>, status |-> "idle", pendingPrompt |-> None]
      /\ chat.messages = << >> /\ chat.status = "idle" /\ chat.pendingPrompt = None
      /\ DOMAIN chat.messages = {}
  BY DEF ClientInit, InitialState
<1>2. ClientTyped
  BY <1>1, ClientAssumption DEF ClientInit, ClientTyped, Statuses, None
<1>3. OneCall /\ AwaitedShown /\ AnswersFollowQuestions
  BY <1>1 DEF ClientInit, OneCall, AwaitedShown, Awaited, AnswersFollowQuestions
<1> QED
  BY <1>2, <1>3 DEF ClientIInv

----------------------------------------------------------------------------
(* The visit *)

\* No turn begins but by arriving.
LEMMA TurnMoves ==
  ASSUME MemoryTyped, NEW t \in Turn, TurnStep(t), NEW u \in Turn
  PROVE  pc'[u] = "new" => pc[u] = "new"
<1>1. CASE CallRedis(t)
  <2>1. pc[t] \in Calls /\ Following(pc[t]) # "new"
    BY <1>1, Order DEF CallRedis, Calls, Pushes, Trims, Expires
  <2> QED
    BY <1>1, <2>1 DEF CallRedis, Goto, MemoryTyped
<1>2. CASE LoseRedis(t)
  <2>1. AfterAppend(pc[t]) # "new"
    BY DEF AfterAppend
  <2> QED
    BY <1>2, <2>1 DEF LoseRedis, Goto, MemoryTyped
<1>3. CASE WorkFails(t) \/ Commit(t) \/ CommitFails(t)
  BY <1>3 DEF WorkFails, Commit, CommitFails, Goto, MemoryTyped
<1> QED
  BY <1>1, <1>2, <1>3 DEF TurnStep

LEMMA PostOpens ==
  ASSUME ClientIInv, OpenTold, Send \/ Retry, UNCHANGED <<memoryVars, open>>
  PROVE  OpenTold'
<1> USE DEF ClientIInv
<1> SUFFICES ASSUME hides = 0 PROVE OpenTold'
  BY DEF OpenTold, Send, Retry, ClientTyped
<1>1. PICK q \in 1..asked' :
        /\ chat.status # "sending" /\ chat'.status = "sending"
        /\ calls' = calls \cup {[id |-> made + 1, question |-> q]}
        /\ q = asked + 1 \/ (q = chat.pendingPrompt /\ q # None /\ chat.status = "error")
        /\ asked <= asked' /\ asked \in Nat /\ asked' \in Nat
        /\ q \in Question
  <2>1. CASE Send
    <3>1. asked' = asked + 1 /\ asked \in Nat /\ asked + 1 \in 1..asked' /\ asked + 1 \in Question
      <4>1. asked' = asked + 1 /\ asked \in Nat /\ asked' <= budget.asked /\ budget.asked \in Nat
        BY <2>1, ClientAssumption DEF Send, ClientTyped
      <4>2. asked + 1 \in 1..budget.asked
        BY <4>1
      <4> QED
        BY <4>1, <4>2 DEF Question, ClientTyped
    <3>2. chat.status # "sending" /\ chat'.status = "sending"
      BY <2>1 DEF Send, SendStart, Busy, Dispatch, ClientTyped
    <3>3. calls' = calls \cup {[id |-> made + 1, question |-> asked + 1]}
      BY <2>1 DEF Send, Post
    <3>4. asked <= asked' /\ asked' \in Nat
      BY <3>1
    <3> QED
      BY <3>1, <3>2, <3>3, <3>4
  <2>2. CASE Retry
    <3>1. asked' = asked /\ asked \in Nat /\ chat.pendingPrompt \in 1..asked
      BY <2>2 DEF Retry, MayRetry, ClientTyped, None
    <3> QED
      BY <2>2, <3>1, AskedAreQuestions DEF Retry, Post, RetryLast, MayRetry, Dispatch, ClientTyped
  <2> QED
    BY <2>1, <2>2
<1>2. open[q] <= 0
  <2>1. CASE q = asked + 1
    BY <1>1, <2>1 DEF OpenTold
  <2>2. CASE q # asked + 1
    BY <1>1, <2>2 DEF OpenTold
  <2> QED
    BY <2>1, <2>2
<1>3. calls = {}
  BY <1>1 DEF OneCall
<1>4. /\ open' \in [Question -> Int]
      /\ \A p \in Question : open'[p] <= 1 /\ (p > asked' => open'[p] <= 0)
  <2>1. \A p \in Question : p \in Nat
    BY ClientAssumption DEF Question
  <2> QED
    BY <1>1, <2>1 DEF OpenTold
<1> QED
  BY <1>1, <1>2, <1>3, <1>4 DEF OpenTold, Question

\* What is known of a call, and before a hide of the only call.
LEMMA CallKnown ==
  ASSUME ClientIInv, MemoryTyped, OpenTold, NEW c \in calls
  PROVE  /\ c.id \in Turn /\ c.question \in Question /\ c.question \in 1..asked
         /\ c.question \in Nat /\ asked \in Nat
         /\ hides = 0 => calls = {c} /\ chat.pendingPrompt = c.question
BY AskedAreQuestions, MadeAreTurns DEF ClientIInv, ClientTyped, OneCall, Call

LEMMA ToldKeepsOpen ==
  ASSUME ClientIInv, MemoryTyped, OpenTold, NEW c \in calls, NEW outcome \in Outcomes,
         Told(c, outcome), UNCHANGED pc
  PROVE  OpenTold'
<1>1. /\ c.question \in Question /\ c.question \in 1..asked /\ asked \in Nat
      /\ hides = 0 => calls = {c} /\ chat.pendingPrompt = c.question
  BY CallKnown
<1>2. /\ calls' = calls \ {c} /\ UNCHANGED <<asked, hides>>
      /\ outcome # "ok" => chat'.pendingPrompt \in {chat.pendingPrompt, None}
      /\ outcome = "ok" => chat'.status = "idle"
  BY DEF Told, Settle, HandleApiError, SendOk, SendError, SessionExpired, Dispatch, ClientIInv,
         ClientTyped
<1>3. open' = IF outcome = "ok" THEN open ELSE [open EXCEPT ![c.question] = @ - 1]
  BY DEF Told
<1>4. /\ open' \in [Question -> Int]
      /\ \A p \in Question : open'[p] <= open[p]
      /\ outcome # "ok" => open'[c.question] = open[c.question] - 1
  BY <1>1, <1>3 DEF OpenTold
<1>5. ASSUME hides = 0, NEW p \in Question
      PROVE  open'[p] <= 1 /\ (p > asked => open'[p] <= 0)
  <2>1. open[p] <= 1 /\ (p > asked => open[p] <= 0) /\ open[p] \in Int /\ open'[p] \in Int
    BY <1>4, <1>5 DEF OpenTold
  <2> QED
    BY <1>4, <2>1
<1>6. hides = 0 /\ chat'.status = "error" /\ chat'.pendingPrompt # None =>
        open'[chat'.pendingPrompt] <= 0
  <2> SUFFICES ASSUME hides = 0, chat'.status = "error", chat'.pendingPrompt # None
               PROVE  open'[chat'.pendingPrompt] <= 0
    OBVIOUS
  <2>1. outcome # "ok" /\ chat'.pendingPrompt = c.question
    BY <1>1, <1>2
  <2>2. open[c.question] <= 1 /\ open[c.question] \in Int
    BY <1>1 DEF OpenTold
  <2> QED
    BY <1>4, <2>1, <2>2
<1>7. hides = 0 => calls' = {}
  BY <1>1, <1>2
<1> QED
  BY <1>2, <1>4, <1>5, <1>6, <1>7 DEF OpenTold, Question

LEMMA ArriveKeepsOpen ==
  ASSUME ClientIInv, MemoryTyped, OpenTold, NEW c \in calls, pc[c.id] = "new", Begin(c.id),
         open' = [open EXCEPT ![c.question] = @ + 1], UNCHANGED clientVars
  PROVE  OpenTold'
<1>1. /\ c.id \in Turn /\ c.question \in Question /\ c.question \in 1..asked /\ asked \in Nat
      /\ c.question \in Nat
      /\ hides = 0 => calls = {c}
  BY CallKnown
<1>2. pc'[c.id] = "user.rpush"
  BY <1>1 DEF Begin, Goto, Steps, MemoryTyped
<1>3. hides = 0 => chat.status = "sending"
  BY DEF ClientIInv, OneCall
<1>4. open' \in [Question -> Int]
  BY <1>1 DEF OpenTold
<1>5. ASSUME hides = 0, NEW p \in Question
      PROVE  open'[p] <= 1 /\ (p > asked => open'[p] <= 0)
  <2>1. open[p] <= 1 /\ (p > asked => open[p] <= 0) /\ open[p] \in Int
        /\ open[c.question] <= 0
    BY <1>5 DEF OpenTold
  <2>2. CASE p = c.question
    BY <1>1, <2>1, <2>2 DEF OpenTold
  <2>3. CASE p # c.question
    BY <1>1, <2>1, <2>3 DEF OpenTold
  <2> QED
    BY <2>2, <2>3
<1> QED
  BY <1>1, <1>2, <1>3, <1>4, <1>5 DEF OpenTold, Question, clientVars, talk

LEMMA VisitStep == VisitIInv /\ [Next]_vars => VisitIInv'
<1> SUFFICES ASSUME VisitIInv, [Next]_vars PROVE VisitIInv'
  OBVIOUS
<1> USE DEF VisitIInv
<1>0. MemoryTyped
  BY DEF MemoryIInv
<1>1. CASE AtPage \/ UNCHANGED vars
  <2>1. /\ PageStep \/ UNCHANGED clientVars
        /\ UNCHANGED <<memoryVars, open>>
    BY <1>1 DEF AtPage, vars
  <2>2. UNCHANGED talk
    BY <2>1 DEF PageStep, RunScript, BodyParsed, ContentLoaded, Listen, Load, HostOrigin,
                TokenGranted, TokenRefused, ConfigLoaded, clientVars
  <2>3. OpenTold'
    BY <2>1, <2>2 DEF OpenTold, Question, talk, memoryVars
  <2> QED
    BY <2>1, <2>3, PageKeeps, MemoryStep
<1>2. CASE AtVisitor
  <2>1. VisitorStep /\ UNCHANGED <<memoryVars, open>>
    BY <1>2 DEF AtVisitor
  <2>2. ClientIInv'
    BY <2>1, SendKeeps, RetryKeeps, HideKeeps DEF VisitorStep
  <2>3. OpenTold'
    <3>1. CASE Hide
      BY <2>1, <3>1 DEF Hide, OpenTold, ClientIInv, ClientTyped, Question
    <3> QED
      BY <2>1, <3>1, PostOpens DEF VisitorStep
  <2> QED
    BY <2>1, <2>2, <2>3, MemoryStep
<1>3. ASSUME NEW c \in calls, Arrive(c) PROVE VisitIInv'
  <2>1. c.id \in Turn
    BY <1>0, CallKnown
  <2>2. CASE live
    BY <1>0, <1>3, <2>1, <2>2, MemoryStep, PageKeeps, ArriveKeepsOpen DEF Arrive
  <2>3. CASE ~live
    <3>1. Told(c, "expired") /\ UNCHANGED memoryVars
      BY <1>3, <2>3 DEF Arrive
    <3> QED
      BY <1>0, <3>1, MemoryStep, SettleKeeps, ToldKeepsOpen DEF Told, Outcomes, memoryVars
  <2> QED
    BY <2>2, <2>3
<1>4. ASSUME NEW c \in calls, LoseRequest(c) \/ Reply(c) \/ LoseReply(c) PROVE VisitIInv'
  <2>1. PICK outcome \in Outcomes : Told(c, outcome) /\ UNCHANGED memoryVars
    BY <1>4 DEF LoseRequest, Reply, LoseReply, Outcomes
  <2> QED
    BY <1>0, <2>1, MemoryStep, SettleKeeps, ToldKeepsOpen DEF Told, memoryVars
<1>5. ASSUME NEW t \in Turn, RunTurn(t) PROVE VisitIInv'
  <2>1. MemoryIInv' /\ ClientIInv'
    BY <1>5, MemoryStep, PageKeeps DEF RunTurn
  <2>2. OpenTold'
    <3>1. \A c \in calls : pc'[c.id] = "new" => pc[c.id] = "new"
      BY <1>0, <1>5, CallKnown, TurnMoves DEF RunTurn
    <3> QED
      BY <1>5, <3>1 DEF RunTurn, OpenTold, Question, clientVars, talk
  <2> QED
    BY <2>1, <2>2
<1>6. CASE TokenExpires \/ MemoryExpires
  <2>1. UNCHANGED <<clientVars, open, pc>> /\ (Forget \/ UNCHANGED memoryVars)
    BY <1>6 DEF TokenExpires, MemoryExpires, Forget, memoryVars
  <2>2. OpenTold'
    BY <2>1 DEF OpenTold, Question, clientVars, talk
  <2> QED
    BY <2>1, <2>2, MemoryStep, PageKeeps
<1> QED
  BY <1>1, <1>2, <1>3, <1>4, <1>5, <1>6 DEF Next

LEMMA VisitInvariance == Spec => []VisitIInv
<1>1. Init => VisitIInv
  <2> SUFFICES ASSUME Init PROVE VisitIInv
    OBVIOUS
  <2>1. OpenTold
    BY DEF Init, OpenTold, ClientInit, InitialState
  <2> QED
    BY <2>1, MemoryStart, ClientStarts DEF Init, VisitIInv
<1> QED
  BY <1>1, VisitStep, PTL DEF Spec

----------------------------------------------------------------------------
(* Theorems *)

\* However many tags load the script, before or after the body, the page has one
\* iframe of the widget.
THEOREM OneFrameOnly == Spec => []OneFrame
<1>1. VisitIInv => OneFrame
  BY DEF VisitIInv, ClientIInv, ClientTyped, OneFrame
<1> QED
  BY <1>1, VisitInvariance, PTL

\* The spinner tells the call that is out, answers stay below their questions,
\* and only failures are repeated, whatever is lost, retried or hidden.
THEOREM ConversationStays == Spec => []ConversationInStep
<1>1. VisitIInv => SpinnerTellsTheCall
  <2> SUFFICES ASSUME VisitIInv PROVE SpinnerTellsTheCall
    OBVIOUS
  <2>1. Cardinality({}) = 0 /\ \A c : Cardinality({c}) = 1
    BY FS_EmptySet, FS_Singleton
  <2> QED
    BY <2>1 DEF VisitIInv, ClientIInv, OneCall, SpinnerTellsTheCall
<1>2. VisitIInv => AnswersFollowQuestions /\ QuestionsRepeatOnlyFailures
  BY DEF VisitIInv, ClientIInv, OpenTold, QuestionsRepeatOnlyFailures
<1> QED
  BY <1>1, <1>2, VisitInvariance, PTL DEF ConversationInStep

\* However turns interleave and whatever calls of Redis are lost: the session's
\* list stays bounded, without an expiry it is made only of messages whose append
\* lost Redis or still goes on, and the loss has one report, by the turn that met
\* it first, or none for ever when that turn fails or cannot write it.
THEOREM MemoryTidy == Spec => []MemoryIsTidy
<1>1. VisitIInv => OneNotice
  <2> SUFFICES ASSUME VisitIInv PROVE OneNotice
    OBVIOUS
  <2>1. Cardinality({}) = 0 /\ \A t : Cardinality({t}) = 1
    BY FS_EmptySet, FS_Singleton
  <2>2. CASE seen = {}
    BY <2>2 DEF VisitIInv, MemoryIInv, NoticedOnce, NoticedBy, OneNotice
  <2>3. ASSUME NEW t \in Turn, NoticedBy(t) PROVE OneNotice
    <3>1. seen = {t} /\ losses # 0
      BY <2>3 DEF NoticedBy, VisitIInv, MemoryIInv, MemoryTyped
    <3>2. CASE notice = {t}
      <4>1. Cardinality(notice) = 1
        BY <2>1, <3>2
      <4>2. notices = 0 /\ t \notin broken /\ pc[t] # "failed"
        BY <2>3, <3>2 DEF NoticedBy
      <4> QED
        BY <3>1, <4>1, <4>2 DEF OneNotice
    <3>3. CASE notice = {}
      <4>1. Cardinality(notice) = 0
        BY <2>1, <3>3
      <4>2. notices = IF pc[t] = "failed" \/ t \in broken THEN 0 ELSE 1
        BY <2>3, <3>3 DEF NoticedBy
      <4> QED
        BY <3>1, <4>1, <4>2 DEF OneNotice
    <3> QED
      BY <2>3, <3>2, <3>3 DEF NoticedBy
  <2> QED
    BY <2>2, <2>3 DEF VisitIInv, MemoryIInv, NoticedOnce
<1>2. VisitIInv => MemoryBounded
  BY DEF VisitIInv, MemoryIInv
<1> QED
  BY <1>1, <1>2, VisitInvariance, PTL DEF MemoryIsTidy

\* A turn that reads the list finds the message it answers, unless its own append
\* of it lost Redis or newer messages have pushed it out.
THEOREM MemoryServes == Spec => MemoryServesTheTurn
<1>1. ASSUME VisitIInv, NEW t \in Turn, pc[t] = "lrange", Message(t, "user.rpush") \notin cut
      PROVE  \/ Message(t, "user.rpush") \in {list[i] : i \in DOMAIN list}
             \/ newer[t] >= MaxMessages
  BY <1>1 DEF VisitIInv, MemoryIInv, QuestionKept, QuestionAt, Reading
<1>2. VisitIInv /\ [Next]_vars =>
        [\A t \in Turn :
            /\ pc[t] = "lrange" /\ pc'[t] # "lrange"
            /\ losses' = losses /\ Message(t, "user.rpush") \notin cut
            => \/ Message(t, "user.rpush") \in {list[i] : i \in DOMAIN list}
               \/ newer[t] >= MaxMessages]_vars
  BY <1>1
<1> QED
  BY <1>2, VisitInvariance, PTL DEF Spec, MemoryServesTheTurn

\* Type correctness of the page, the widget, the network and the memory.
THEOREM VisitTypeCorrect == Spec => []TypeOK
<1>1. VisitIInv => TypeOK
  <2> SUFFICES ASSUME VisitIInv PROVE TypeOK
    OBVIOUS
  <2> USE DEF VisitIInv, ClientIInv, MemoryIInv
  <2>1. orphans \subseteq Question
    BY AskedAreQuestions DEF ClientTyped
  <2>2. chat.pendingPrompt \in 0..asked
    BY DEF ClientTyped
  <2>3. \A i \in DOMAIN list : list[i] \in [turn : Turn, role : {"user", "assistant"}]
    <3>1. list \in Seq(Messages)
      BY DEF MemoryTyped
    <3>2. \A i \in DOMAIN list : list[i] \in Messages
      BY <3>1
    <3> QED
      BY <3>2 DEF Messages
  <2> QED
    BY <2>1, <2>2, <2>3 DEF ClientTyped, MemoryTyped, TypeOK
<1> QED
  BY <1>1, VisitInvariance, PTL

----------------------------------------------------------------------------
(* What passed between two ticks *)

Ticks == 0..MaxTime

Between(f, from, to) == Total(f, (from..to) \cap Ticks)

LEMMA PassedIsBetween ==
    ASSUME NEW s, NEW from, NEW to
    PROVE  Passed(s, from, to) = Between(granted[s], from, to)
BY DEF Passed, Between, FoldFunctionOnSet, Total, Ticks

LEMMA TicksFinite ==
    ASSUME NEW from \in Int, NEW to \in Int
    PROVE  IsFiniteSet((from..to) \cap Ticks)
BY FS_Interval, FS_Subset

LEMMA BetweenNat ==
    ASSUME NEW f \in [Ticks -> Nat], NEW from \in Int, NEW to \in Int
    PROVE  Between(f, from, to) \in Nat
<1> DEFINE S == (from..to) \cap Ticks
<1>1. IsFiniteSet(S) /\ \A t \in S : f[t] \in Nat
  BY TicksFinite
<1> HIDE DEF S
<1>2. Total(f, S) \in Nat
  BY <1>1, TotalOfMore
<1> QED
  BY <1>2 DEF Between, S

\* More ticks have no fewer.
LEMMA BetweenWider ==
    ASSUME NEW f \in [Ticks -> Nat], NEW from \in Int, NEW to \in Int,
           NEW first \in Int, NEW last \in Int, first <= from, to <= last
    PROVE  Between(f, from, to) <= Between(f, first, last)
<1> DEFINE A == (from..to) \cap Ticks
           B == (first..last) \cap Ticks
<1>1. IsFiniteSet(B) /\ A \subseteq B /\ \A t \in B : f[t] \in Nat
  BY TicksFinite
<1> HIDE DEF A, B
<1>2. Total(f, A) <= Total(f, B)
  BY <1>1, TotalOfMore
<1> QED
  BY <1>2 DEF Between, A, B

LEMMA BetweenSame ==
    ASSUME NEW f \in [Ticks -> Nat], NEW h \in [Ticks -> Nat],
           NEW from \in Int, NEW to \in Int, \A t \in (from..to) \cap Ticks : h[t] = f[t]
    PROVE  Between(h, from, to) = Between(f, from, to)
<1> DEFINE S == (from..to) \cap Ticks
<1>1. IsFiniteSet(S) /\ \A t \in S : f[t] \in Int /\ h[t] = f[t]
  BY TicksFinite
<1> HIDE DEF S
<1>2. Total(h, S) = Total(f, S)
  BY <1>1, TotalSame
<1> QED
  BY <1>2 DEF Between, S

\* One more passes at tick n.
LEMMA BetweenCount ==
    ASSUME NEW f \in [Ticks -> Nat], NEW n \in Ticks, NEW from \in Int, NEW to \in Int,
           from <= n, n <= to
    PROVE  Between([f EXCEPT ![n] = @ + 1], from, to) = Between(f, from, to) + 1
<1> DEFINE S == (from..to) \cap Ticks
           h == [f EXCEPT ![n] = @ + 1]
<1>1. /\ IsFiniteSet(S) /\ n \in S /\ h[n] = f[n] + 1 /\ f[n] \in Int
      /\ \A t \in S : f[t] \in Int /\ h[t] \in Int
      /\ \A t \in S \ {n} : h[t] = f[t]
  BY TicksFinite DEF Ticks
<1> HIDE DEF S, h
<1>2. Total(h, S) = Total(f, S) + (h[n] - f[n]) /\ Total(f, S) \in Int
  BY <1>1, TotalChange, TotalWithout
<1>3. Total(h, S) = Total(f, S) + 1
  BY <1>1, <1>2
<1> QED
  BY <1>3 DEF Between, S, h

LEMMA BetweenZeros ==
    ASSUME NEW f \in [Ticks -> Nat], NEW from \in Int, NEW to \in Int,
           \A t \in (from..to) \cap Ticks : f[t] = 0
    PROVE  Between(f, from, to) = 0
<1> DEFINE S == (from..to) \cap Ticks
<1>1. IsFiniteSet(S) /\ \A t \in S : f[t] = 0
  BY TicksFinite
<1> HIDE DEF S
<1>2. Total(f, S) = 0
  BY <1>1, TotalOfZeros
<1> QED
  BY <1>2 DEF Between, S

LEMMA BetweenSplit ==
    ASSUME NEW f \in [Ticks -> Nat], NEW from \in Int, NEW mid \in Int, NEW to \in Int,
           from <= mid + 1, mid <= to
    PROVE  Between(f, from, to) = Between(f, from, mid) + Between(f, mid + 1, to)
<1> DEFINE A == (from..mid) \cap Ticks
           B == ((mid + 1)..to) \cap Ticks
           C == (from..to) \cap Ticks
<1>1. IsFiniteSet(A) /\ IsFiniteSet(B)
  <2>1. mid + 1 \in Int
    OBVIOUS
  <2>2. IsFiniteSet(A)
    BY TicksFinite
  <2>3. IsFiniteSet(B)
    BY <2>1, TicksFinite
  <2> QED
    BY <2>2, <2>3
<1>2. A \cap B = {} /\ A \cup B = C /\ \A t \in A \cup B : f[t] \in Int
  BY DEF Ticks
<1> HIDE DEF A, B, C
<1>3. Total(f, C) = Total(f, A) + Total(f, B)
  BY <1>1, <1>2, TotalOfBoth
<1> QED
  BY <1>3 DEF Between, A, B, C

\* Nothing passes after tick now.
LEMMA BetweenLater ==
    ASSUME NEW f \in [Ticks -> Nat], NEW n \in Nat, \A t \in Ticks : t > n => f[t] = 0,
           NEW from \in Int, NEW to \in Int, from <= n + 1, n <= to
    PROVE  Between(f, from, to) = Between(f, from, n)
<1>1. \A t \in ((n + 1)..to) \cap Ticks : f[t] = 0
  BY DEF Ticks
<1>2. Between(f, n + 1, to) = 0
  BY <1>1, BetweenZeros
<1>3. Between(f, from, to) = Between(f, from, n) + Between(f, n + 1, to)
  BY BetweenSplit
<1>4. Between(f, from, n) \in Nat
  BY BetweenNat
<1> QED
  BY <1>2, <1>3, <1>4

----------------------------------------------------------------------------
(* The token buckets *)

\* A full bucket, and what a bucket holds now.
CapParts(s) == Capacity(s) * Minute
Level(s) == Refilled(BucketOf(s), s).parts

LimiterTyped ==
    /\ watched \in {"tokens", "leads", "none"}
    /\ now \in Ticks
    /\ granted \in [Scope -> [Ticks -> Nat]]
    /\ \A s \in Scope, t \in Ticks : t > now => granted[s][t] = 0
    /\ DOMAIN buckets \subseteq Scope
    /\ \A s \in DOMAIN buckets :
          buckets[s] \in IF watched = "leads"
                         THEN [count : Nat, window_started_at : 0..now]
                         ELSE [parts : 0..CapParts(s), last_refill : 0..now]

\* What passed and what is left is what the bucket held and gained, no more
\* and, but for what ran over, no less.
Balanced(s) ==
    /\ \A from \in 0..now :
          /\ Between(granted[s], from, now) * Minute + Level(s)
                <= CapParts(s) + (now - from) * Capacity(s)
          /\ Least(CapParts(s), (now - from) * Capacity(s))
                <= Between(granted[s], from, now) * Minute + Level(s)
    /\ CapParts(s) <= Between(granted[s], 0, now) * Minute + Level(s)

RefusedSpent ==
    refused # Nobody => /\ refused.scope \in Scope
                        /\ refused.cap = Capacity(refused.scope)
                        /\ Level(refused.scope) < Minute

TokensIInv == watched # "leads" => RefusedSpent /\ \A s \in Scope : Balanced(s)

LEMMA CapacityType ==
    \A s : Capacity(s) \in Nat \ {0} /\ CapParts(s) \in Nat \ {0} /\ Minute \in Nat \ {0}
<1> TAKE s
<1>1. Capacity(s) \in Nat \ {0} /\ Minute \in Nat \ {0}
  BY LimitersAssumption DEF LimitersAssumption, Capacity
<1> HIDE DEF Capacity
<1>2. \A m, n \in Nat \ {0} : m * n \in Nat \ {0}
  OBVIOUS
<1> QED
  BY <1>1, <1>2 DEF CapParts

LEMMA LevelType ==
    ASSUME LimiterTyped, watched # "leads", NEW s \in Scope
    PROVE  Level(s) \in Nat /\ Level(s) <= CapParts(s)
<1>1. /\ Capacity(s) \in Nat /\ CapParts(s) \in Nat /\ now \in Nat
      /\ CapParts(s) = Capacity(s) * Minute
  BY CapacityType, LimitersAssumption DEF LimitersAssumption, LimiterTyped, Ticks, CapParts
<1>2. /\ BucketOf(s).parts \in 0..CapParts(s)
      /\ BucketOf(s).last_refill \in 0..now
  BY <1>1 DEF LimiterTyped, BucketOf, Full
<1>3. (now - BucketOf(s).last_refill) * Capacity(s) \in Nat
  <2>1. now - BucketOf(s).last_refill \in Nat
    BY <1>1, <1>2
  <2>2. \A m, n \in Nat : m * n \in Nat
    OBVIOUS
  <2> QED
    BY <1>1, <2>1, <2>2
<1>4. Level(s) = Least(CapParts(s), BucketOf(s).parts
                                       + (now - BucketOf(s).last_refill) * Capacity(s))
  BY <1>1 DEF Level, Refilled
<1> QED
  BY <1>1, <1>2, <1>3, <1>4 DEF Least

LEMMA LevelTick ==
    ASSUME LimiterTyped, watched # "leads", NEW s \in Scope,
           buckets' = buckets, now' = now + 1
    PROVE  Level(s)' = Least(CapParts(s), Level(s) + Capacity(s))
<1>1. /\ Capacity(s) \in Nat /\ CapParts(s) \in Nat /\ now \in Nat
      /\ CapParts(s) = Capacity(s) * Minute
  BY CapacityType, LimitersAssumption DEF LimitersAssumption, LimiterTyped, Ticks, CapParts
<1>2. CASE s \in DOMAIN buckets
  <2> DEFINE b == buckets[s]
             gain == (now - b.last_refill) * Capacity(s)
  <2>1. b.parts \in 0..CapParts(s) /\ b.last_refill \in 0..now
    BY <1>2 DEF LimiterTyped
  <2>2. gain \in Nat /\ ((now + 1) - b.last_refill) * Capacity(s) = gain + Capacity(s)
    <3>1. now - b.last_refill \in Nat /\ (now + 1) - b.last_refill = (now - b.last_refill) + 1
      BY <1>1, <2>1
    <3>2. \A m, n \in Nat : m * n \in Nat /\ (m + 1) * n = m * n + n
      OBVIOUS
    <3> QED
      BY <1>1, <3>1, <3>2
  <2>3. /\ Level(s) = Least(CapParts(s), b.parts + gain)
        /\ Level(s)' = Least(CapParts(s),
                             b.parts + ((now + 1) - b.last_refill) * Capacity(s))
    BY <1>1, <1>2 DEF Level, Refilled, BucketOf
  <2> HIDE DEF gain
  <2> QED
    BY <1>1, <2>1, <2>2, <2>3 DEF Least
<1>3. CASE s \notin DOMAIN buckets
  <2>1. /\ Level(s) = Least(CapParts(s), CapParts(s) + (now - now) * Capacity(s))
        /\ Level(s)' = Least(CapParts(s), CapParts(s) + (now' - now') * Capacity(s))
    BY <1>1, <1>3 DEF Level, Refilled, BucketOf, Full
  <2>2. (now - now) * Capacity(s) = 0 /\ (now' - now') * Capacity(s) = 0
    BY <1>1
  <2> QED
    BY <1>1, <2>1, <2>2 DEF Least
<1> QED
  BY <1>2, <1>3

\* A bucket that was just checked.
LEMMA LevelChecked ==
    ASSUME LimiterTyped, NEW s \in Scope, NEW p \in 0..CapParts(s), now' = now,
           s \in DOMAIN buckets', buckets'[s] = [parts |-> p, last_refill |-> now]
    PROVE  Level(s)' = p
<1>1. /\ Capacity(s) \in Nat /\ CapParts(s) \in Nat /\ now \in Nat
      /\ CapParts(s) = Capacity(s) * Minute
  BY CapacityType, LimitersAssumption DEF LimitersAssumption, LimiterTyped, Ticks, CapParts
<1>2. Level(s)' = Least(CapParts(s), p + (now - now) * Capacity(s))
  BY <1>1 DEF Level, Refilled, BucketOf
<1>3. (now - now) * Capacity(s) = 0
  BY <1>1
<1> QED
  BY <1>1, <1>2, <1>3 DEF Least

\* A tick fills the bucket by its capacity in parts.
LEMMA TickBalanced ==
    ASSUME LimiterTyped, watched # "leads", NEW s \in Scope, Balanced(s),
           now' = now + 1, now' \in Ticks, UNCHANGED <<watched, buckets, granted>>
    PROVE  Balanced(s)'
<1> DEFINE C == Capacity(s)
           Q == CapParts(s)
           P(from) == Between(granted[s], from, now) * Minute
           L == Level(s)
           L2 == Level(s)'
<1>1. C \in Nat /\ Q \in Nat /\ L \in Nat /\ L <= Q /\ now \in Nat /\ Minute \in Nat
  BY CapacityType, LevelType DEF LimiterTyped, Ticks
<1>2. L2 = Least(Q, L + C)
  BY LevelTick
<1>3. granted[s] \in [Ticks -> Nat] /\ \A t \in Ticks : t > now => granted[s][t] = 0
  BY DEF LimiterTyped
<1>4. ASSUME NEW from \in 0..now
      PROVE  Between(granted[s], from, now + 1) = Between(granted[s], from, now)
  <2>1. from \in Int /\ now + 1 \in Int /\ from <= now + 1 /\ now <= now + 1
    BY <1>1
  <2> QED
    BY <1>1, <1>3, <2>1, BetweenLater
<1>5. Between(granted[s], now + 1, now + 1) = 0
  BY <1>1, <1>3, BetweenZeros
<1>6. ASSUME NEW from \in 0..now
      PROVE  P(from) \in Nat /\ (now - from) * C \in Nat
             /\ ((now + 1) - from) * C = (now - from) * C + C
  <2>1. /\ from \in Int /\ now \in Int
        /\ now - from \in Nat /\ (now + 1) - from = (now - from) + 1
    BY <1>1
  <2>2. Between(granted[s], from, now) \in Nat
    BY <1>3, <2>1, BetweenNat
  <2>3. \A m, n \in Nat : m * n \in Nat /\ (m + 1) * n = m * n + n
    OBVIOUS
  <2> QED
    BY <1>1, <2>1, <2>2, <2>3
<1>7. ASSUME NEW from \in 0..now
      PROVE  /\ P(from) + L <= Q + (now - from) * C
             /\ Least(Q, (now - from) * C) <= P(from) + L
             /\ Q <= P(0) + L
  BY <1>1 DEF Balanced
<1>8. ASSUME NEW from \in 0..now
      PROVE  /\ P(from) + L2 <= Q + ((now + 1) - from) * C
             /\ Least(Q, ((now + 1) - from) * C) <= P(from) + L2
  <2>1. P(from) \in Nat /\ (now - from) * C \in Nat
        /\ ((now + 1) - from) * C = (now - from) * C + C
    BY <1>6
  <2>2. P(from) + L <= Q + (now - from) * C /\ Least(Q, (now - from) * C) <= P(from) + L
    BY <1>7
  <2> HIDE DEF C, Q, P, L, L2
  <2> QED
    BY <1>1, <1>2, <2>1, <2>2 DEF Least
<1>9. Q <= P(0) + L2
  <2>1. 0 \in 0..now
    BY <1>1
  <2>2. P(0) \in Nat /\ Q <= P(0) + L
    BY <1>6, <1>7, <2>1
  <2> HIDE DEF C, Q, P, L, L2
  <2> QED
    BY <1>1, <1>2, <2>2 DEF Least
<1>10. 0 * Minute = 0 /\ ((now + 1) - (now + 1)) * C = 0
  BY <1>1
<1>11. L2 <= Q /\ L2 \in Nat /\ Least(Q, 0) = 0
  <2> HIDE DEF C, Q, P, L, L2
  <2> QED
    BY <1>1, <1>2 DEF Least
<1>12. ASSUME NEW from \in 0..(now + 1)
       PROVE  /\ Between(granted[s], from, now + 1) * Minute + L2 <= Q + ((now + 1) - from) * C
              /\ Least(Q, ((now + 1) - from) * C)
                    <= Between(granted[s], from, now + 1) * Minute + L2
  <2>1. CASE from \in 0..now
    BY <1>4, <1>8, <2>1
  <2>2. CASE from = now + 1
    <3>1. Between(granted[s], from, now + 1) * Minute = 0 /\ ((now + 1) - from) * C = 0
      BY <1>5, <1>10, <2>2
    <3> HIDE DEF C, Q, P, L, L2
    <3> QED
      BY <1>1, <1>11, <3>1
  <2> QED
    BY <1>1, <2>1, <2>2
<1>13. Between(granted[s], 0, now + 1) * Minute = P(0)
  BY <1>1, <1>4
<1> HIDE DEF L2
<1> QED
  BY <1>9, <1>12, <1>13 DEF Balanced, L2

\* A check that refuses, or is not of this bucket, and one that passes.
LEMMA CheckBalanced ==
    ASSUME LimiterTyped, watched # "leads", NEW s \in Scope, Balanced(s), now' = now,
           \/ Level(s)' = Level(s) /\ granted'[s] = granted[s]
           \/ /\ Level(s)' = Level(s) - Minute
              /\ granted'[s] = [granted[s] EXCEPT ![now] = @ + 1]
    PROVE  Balanced(s)'
<1> DEFINE P(from) == Between(granted[s], from, now)
<1>1. /\ Minute \in Nat /\ now \in Ticks /\ now \in Nat
      /\ granted[s] \in [Ticks -> Nat] /\ Level(s) \in Nat
  BY CapacityType, LevelType DEF LimiterTyped, Ticks
<1>2. CASE Level(s)' = Level(s) /\ granted'[s] = granted[s]
  BY <1>2 DEF Balanced
<1>3. CASE /\ Level(s)' = Level(s) - Minute
           /\ granted'[s] = [granted[s] EXCEPT ![now] = @ + 1]
  <2>1. ASSUME NEW from \in 0..now
        PROVE  Between(granted'[s], from, now) * Minute + Level(s)'
                  = P(from) * Minute + Level(s)
    <3>1. P(from) \in Nat /\ Between(granted'[s], from, now) = P(from) + 1
      BY <1>1, <1>3, BetweenNat, BetweenCount
    <3>2. (P(from) + 1) * Minute = P(from) * Minute + Minute /\ P(from) * Minute \in Nat
      <4>1. \A m, n \in Nat : m * n \in Nat /\ (m + 1) * n = m * n + n
        OBVIOUS
      <4> QED
        BY <1>1, <3>1, <4>1
    <3> HIDE DEF P
    <3> QED
      BY <1>1, <1>3, <3>1, <3>2
  <2>2. 0 \in 0..now
    BY <1>1
  <2> QED
    BY <2>1, <2>2 DEF Balanced
<1> QED
  BY <1>2, <1>3

\* What a check does to a scope: nothing, refuses it or lets it pass.
Unchecked(s) ==
    /\ s \in DOMAIN buckets' <=> s \in DOMAIN buckets
    /\ s \in DOMAIN buckets => buckets'[s] = buckets[s]
    /\ granted'[s] = granted[s]

Refuses(s) ==
    /\ s \in DOMAIN buckets'
    /\ buckets'[s] = [parts |-> Level(s), last_refill |-> now]
    /\ granted'[s] = granted[s]

Passes(s) ==
    /\ Level(s) >= Minute
    /\ s \in DOMAIN buckets'
    /\ buckets'[s] = [parts |-> Level(s) - Minute, last_refill |-> now]
    /\ granted'[s] = [granted[s] EXCEPT ![now] = @ + 1]

LEMMA ChecksBalanced ==
    ASSUME LimiterTyped, watched = "tokens", \A s \in Scope : Balanced(s),
           watched' = watched, now' = now,
           DOMAIN buckets' \subseteq Scope, granted' \in [Scope -> [Ticks -> Nat]],
           \A s \in Scope : Unchecked(s) \/ Refuses(s) \/ Passes(s)
    PROVE  /\ LimiterTyped'
           /\ \A s \in Scope : Balanced(s)'
           /\ \A s \in Scope : Refuses(s) => Level(s)' = Level(s)
<1>1. /\ Scope' = Scope /\ now \in Ticks /\ now \in Nat /\ Minute \in Nat
      /\ watched # "leads"
  BY CapacityType DEF LimiterTyped, Scope, Ticks
<1>2. ASSUME NEW s \in Scope PROVE Level(s) \in Nat /\ Level(s) <= CapParts(s)
  BY <1>1, LevelType
<1>3. ASSUME NEW s \in Scope, Unchecked(s) PROVE Level(s)' = Level(s)
  BY <1>3 DEF Unchecked, Level, Refilled, BucketOf, Full
<1>4. ASSUME NEW s \in Scope, Refuses(s) PROVE Level(s)' = Level(s)
  <2>1. Level(s) \in 0..CapParts(s)
    BY <1>2, CapacityType
  <2> QED
    BY <1>4, <2>1, LevelChecked DEF Refuses
<1>5. ASSUME NEW s \in Scope, Passes(s) PROVE Level(s)' = Level(s) - Minute
  <2>1. Level(s) - Minute \in 0..CapParts(s)
    BY <1>1, <1>2, <1>5, CapacityType DEF Passes
  <2> QED
    BY <1>5, <2>1, LevelChecked DEF Passes
<1>6. ASSUME NEW s \in Scope PROVE Balanced(s)'
  <2>1. \/ Level(s)' = Level(s) /\ granted'[s] = granted[s]
        \/ /\ Level(s)' = Level(s) - Minute
           /\ granted'[s] = [granted[s] EXCEPT ![now] = @ + 1]
    BY <1>3, <1>4, <1>5 DEF Unchecked, Refuses, Passes
  <2> QED
    BY <1>1, <2>1, CheckBalanced
<1>7. LimiterTyped'
  <2>1. ASSUME NEW s \in Scope, NEW t \in Ticks, t > now PROVE granted'[s][t] = 0
    <3>1. granted[s] \in [Ticks -> Nat] /\ granted[s][t] = 0
      BY <2>1 DEF LimiterTyped
    <3>2. \/ granted'[s] = granted[s]
          \/ granted'[s] = [granted[s] EXCEPT ![now] = @ + 1]
      BY DEF Unchecked, Refuses, Passes
    <3>3. t # now
      BY <1>1, <2>1
    <3> QED
      BY <3>1, <3>2, <3>3
  <2>2. ASSUME NEW s \in DOMAIN buckets'
        PROVE  buckets'[s] \in [parts : 0..CapParts(s), last_refill : 0..now]
    <3>1. s \in Scope
      OBVIOUS
    <3>2. Level(s) \in Nat /\ Level(s) <= CapParts(s) /\ CapParts(s) \in Nat
      BY <1>2, <3>1, CapacityType
    <3>3. CASE Unchecked(s)
      BY <1>1, <3>3 DEF Unchecked, LimiterTyped
    <3>4. CASE Refuses(s)
      BY <1>1, <3>2, <3>4 DEF Refuses
    <3>5. CASE Passes(s)
      BY <1>1, <3>2, <3>5 DEF Passes
    <3> QED
      BY <3>1, <3>3, <3>4, <3>5
  <2>3. watched' \in {"tokens", "leads", "none"} /\ watched' # "leads"
    BY <1>1 DEF LimiterTyped
  <2> QED
    BY <1>1, <2>1, <2>2, <2>3 DEF LimiterTyped
<1> QED
  BY <1>4, <1>6, <1>7

LEMMA ExchangeStep ==
    ASSUME LimiterTyped, TokensIInv, NEW a \in Address, Exchange(a)
    PROVE  LimiterTyped' /\ TokensIInv'
<1> DEFINE mine == Refilled(BucketOf(a), a)
           widgets == Refilled(BucketOf(Widget), Widget)
<1>1. /\ watched = "tokens" /\ watched' = watched /\ now' = now
      /\ Scope = Address \cup {Widget} /\ Scope' = Scope /\ a # Widget
      /\ a \in Scope /\ Widget \in Scope
  BY LimitersAssumption DEF LimitersAssumption, Exchange, Scope
<1>2. /\ mine = [parts |-> Level(a), last_refill |-> now]
      /\ widgets = [parts |-> Level(Widget), last_refill |-> now]
  BY DEF Level, Refilled
<1>3. /\ Level(a) \in Nat /\ Level(Widget) \in Nat /\ Minute \in Nat
      /\ \A s \in Scope : Balanced(s)
      /\ granted \in [Scope -> [Ticks -> Nat]] /\ now \in Ticks /\ DOMAIN buckets \subseteq Scope
      /\ \A s \in Scope : granted[s] \in [Ticks -> Nat]
  BY <1>1, CapacityType, LevelType DEF LimiterTyped, TokensIInv
<1>5. /\ Admits(mine) <=> Level(a) >= Minute
      /\ Admits(widgets) <=> Level(Widget) >= Minute
      /\ Consumed(mine) = [parts |-> Level(a) - Minute, last_refill |-> now]
      /\ Consumed(widgets) = [parts |-> Level(Widget) - Minute, last_refill |-> now]
  <2> HIDE DEF mine, widgets
  <2> QED
    BY <1>2 DEF Admits, Consumed
<1>6. CASE ~Admits(mine)
  <2>1. /\ buckets' = Put(buckets, a, mine) /\ granted' = granted
        /\ refused' = [scope |-> a, cap |-> Capacity(a)]
    BY <1>6 DEF Exchange
  <2>2. Refuses(a) /\ \A s \in Scope \ {a} : Unchecked(s)
    BY <1>2, <2>1 DEF Refuses, Unchecked, Put
  <2>3. DOMAIN buckets' \subseteq Scope /\ granted' \in [Scope -> [Ticks -> Nat]]
    BY <1>1, <1>3, <2>1 DEF Put
  <2>4. /\ LimiterTyped' /\ \A s \in Scope : Balanced(s)'
        /\ Level(a)' = Level(a)
    BY <1>1, <1>3, <2>2, <2>3, ChecksBalanced
  <2>5. RefusedSpent'
    <3>1. refused'.scope = a /\ refused'.cap = Capacity(a) /\ Level(a)' < Minute
      BY <1>3, <1>5, <1>6, <2>1, <2>4
    <3> QED
      BY <1>1, <3>1 DEF RefusedSpent
  <2> QED
    BY <1>1, <2>4, <2>5 DEF TokensIInv
<1>7. CASE Admits(mine) /\ ~Admits(widgets)
  <2>1. /\ buckets' = Put(Put(buckets, a, Consumed(mine)), Widget, widgets)
        /\ granted' = Count(granted, a)
        /\ refused' = [scope |-> Widget, cap |-> Capacity(Widget)]
    BY <1>7 DEF Exchange
  <2>2. /\ Passes(a) /\ Refuses(Widget)
        /\ \A s \in Scope \ {a, Widget} : Unchecked(s)
    BY <1>1, <1>2, <1>3, <1>5, <1>7, <2>1 DEF Passes, Refuses, Unchecked, Put, Count
  <2>3. DOMAIN buckets' \subseteq Scope /\ granted' \in [Scope -> [Ticks -> Nat]]
    BY <1>1, <1>3, <2>1 DEF Put, Count
  <2>4. /\ LimiterTyped' /\ \A s \in Scope : Balanced(s)'
        /\ Level(Widget)' = Level(Widget)
    BY <1>1, <1>3, <2>2, <2>3, ChecksBalanced
  <2>5. RefusedSpent'
    <3>1. refused'.scope = Widget /\ refused'.cap = Capacity(Widget) /\ Level(Widget)' < Minute
      BY <1>3, <1>5, <1>7, <2>1, <2>4
    <3> QED
      BY <1>1, <3>1 DEF RefusedSpent
  <2> QED
    BY <1>1, <2>4, <2>5 DEF TokensIInv
<1>8. CASE Admits(mine) /\ Admits(widgets)
  <2>1. /\ buckets' = Put(Put(buckets, a, Consumed(mine)), Widget, Consumed(widgets))
        /\ granted' = Count(Count(granted, a), Widget)
        /\ refused' = Nobody
    BY <1>8 DEF Exchange
  <2>2. /\ Passes(a) /\ Passes(Widget)
        /\ \A s \in Scope \ {a, Widget} : Unchecked(s)
    BY <1>1, <1>2, <1>3, <1>5, <1>8, <2>1 DEF Passes, Unchecked, Put, Count
  <2>3. DOMAIN buckets' \subseteq Scope /\ granted' \in [Scope -> [Ticks -> Nat]]
    BY <1>1, <1>3, <2>1 DEF Put, Count
  <2>4. LimiterTyped' /\ \A s \in Scope : Balanced(s)'
    BY <1>1, <1>3, <2>2, <2>3, ChecksBalanced
  <2>5. RefusedSpent'
    BY <2>1 DEF RefusedSpent
  <2> QED
    BY <1>1, <2>4, <2>5 DEF TokensIInv
<1> QED
  BY <1>6, <1>7, <1>8

----------------------------------------------------------------------------
(* The window of capture_lead *)

Start == buckets[Session].window_started_at

\* The count of a window is what passed since it started; what passed in the
\* hour before it started was counted by one window too.
LeadsIInv ==
    watched = "leads" =>
        /\ refused # Nobody =>
              /\ refused.scope = Session /\ Session \in DOMAIN buckets
              /\ now - Start < Hour
              /\ refused.cap \in Nat /\ refused.cap <= buckets[Session].count
        /\ Session \notin DOMAIN buckets => \A t \in Ticks : granted[Session][t] = 0
        /\ Session \in DOMAIN buckets =>
              /\ buckets[Session].count = Between(granted[Session], Start, now)
              /\ buckets[Session].count <= MaxCap
              /\ \A t \in Ticks : t >= Start + Hour => granted[Session][t] = 0
              /\ Between(granted[Session], Start - Hour, Start - 1) <= MaxCap

LEMMA CapIsCap == MaxCap \in Nat /\ \A c \in Caps : c \in Nat /\ c <= MaxCap
BY LimitersAssumption DEF LimitersAssumption, MaxCap

\* What the limiter does to its window when it looks at it.
LEMMA WindowOf ==
    ASSUME LimiterTyped, LeadsIInv, watched = "leads", NEW cap
    PROVE  LET w == Window(cap)
               st == w.window_started_at
           IN /\ w \in [count : Nat, window_started_at : 0..now]
              /\ now - st < Hour
              /\ w.count = Between(granted[Session], st, now)
              /\ w.count <= MaxCap
              /\ \A t \in Ticks : t >= st + Hour => granted[Session][t] = 0
              /\ Between(granted[Session], st - Hour, st - 1) <= MaxCap
<1> DEFINE f == granted[Session]
           w == Window(cap)
           st == w.window_started_at
<1>1. /\ now \in Nat /\ now \in Ticks /\ Hour \in Nat \ {0} /\ MaxCap \in Nat
      /\ Session \in Scope /\ f \in [Ticks -> Nat]
      /\ \A t \in Ticks : t > now => f[t] = 0
  BY CapIsCap, LimitersAssumption DEF LimitersAssumption, LimiterTyped, Scope, Ticks
<1>2. CASE Session \in DOMAIN buckets /\ now - Start < Hour
  <2>1. w = buckets[Session]
    BY <1>2 DEF Window, Start
  <2> QED
    BY <1>1, <1>2, <2>1 DEF LeadsIInv, LimiterTyped, Start
<1>3. CASE ~(Session \in DOMAIN buckets /\ now - Start < Hour)
  <2>1. w = [count |-> 0, window_started_at |-> now]
    BY <1>3 DEF Window, NewWindow, Start
  <2>2. CASE Session \notin DOMAIN buckets
    <3>1. \A t \in Ticks : f[t] = 0
      BY <2>2 DEF LeadsIInv
    <3>2. Between(f, now, now) = 0 /\ Between(f, now - Hour, now - 1) = 0
      <4>1. now - Hour \in Int /\ now - 1 \in Int
        BY <1>1
      <4> HIDE DEF f
      <4>2. Between(f, now, now) = 0
        BY <1>1, <3>1, BetweenZeros
      <4> QED
        BY <1>1, <3>1, <4>1, <4>2, BetweenZeros
    <3> QED
      BY <1>1, <2>1, <3>1, <3>2
  <2>3. CASE Session \in DOMAIN buckets
    <3>1. /\ Start \in 0..now /\ now - Start >= Hour
          /\ Between(f, Start, now) <= MaxCap
          /\ \A t \in Ticks : t >= Start + Hour => f[t] = 0
      BY <1>1, <1>3, <2>3 DEF LimiterTyped, LeadsIInv, Start
    <3>2. /\ now - Hour \in Int /\ now - 1 \in Int /\ Start \in Int
          /\ Start <= now - Hour /\ now - 1 <= now
          /\ \A t \in Ticks : t >= now => f[t] = 0
      BY <1>1, <3>1 DEF Ticks
    <3> HIDE DEF f
    <3>3. Between(f, now, now) = 0
      <4>1. \A t \in (now..now) \cap Ticks : f[t] = 0
        BY <1>1, <3>2
      <4> QED
        BY <1>1, <4>1, BetweenZeros
    <3>4. Between(f, now - Hour, now - 1) <= Between(f, Start, now)
      BY <1>1, <3>2, BetweenWider
    <3>5. /\ Between(f, now - Hour, now - 1) \in Nat /\ Between(f, Start, now) \in Nat
      BY <1>1, <3>2, BetweenNat
    <3>6. \A t \in Ticks : t >= now + Hour => f[t] = 0
      BY <1>1, <3>2 DEF Ticks
    <3>7. Between(f, now - Hour, now - 1) <= MaxCap
      BY <1>1, <3>1, <3>4, <3>5
    <3> QED
      BY <1>1, <2>1, <3>3, <3>6, <3>7 DEF f
  <2> QED
    BY <2>2, <2>3
<1> QED
  BY <1>2, <1>3

LEMMA LeadStep ==
    ASSUME LimiterTyped, LeadsIInv, NEW cap \in Caps, Lead(cap)
    PROVE  LimiterTyped' /\ LeadsIInv'
<1> DEFINE f == granted[Session]
           w == Window(cap)
           st == w.window_started_at
<1>1. /\ watched = "leads" /\ watched' = watched /\ now' = now
      /\ Scope = {Session} /\ Scope' = Scope
  BY DEF Lead, Scope
<1>2. /\ now \in Nat /\ now \in Ticks /\ Hour \in Nat \ {0} /\ MaxCap \in Nat
      /\ granted \in [Scope -> [Ticks -> Nat]] /\ f \in [Ticks -> Nat]
      /\ \A t \in Ticks : t > now => f[t] = 0
      /\ DOMAIN buckets \subseteq Scope /\ cap \in Nat /\ cap <= MaxCap
  BY <1>1, CapIsCap, LimitersAssumption DEF LimitersAssumption, LimiterTyped, Ticks
<1>3. /\ w \in [count : Nat, window_started_at : 0..now]
      /\ now - st < Hour
      /\ w.count = Between(f, st, now)
      /\ w.count <= MaxCap
      /\ \A t \in Ticks : t >= st + Hour => f[t] = 0
      /\ Between(f, st - Hour, st - 1) <= MaxCap
  BY <1>1, WindowOf
<1>4. st \in 0..now /\ w.count \in Nat
  BY <1>3
<1>5. CASE w.count >= cap
  <2>1. /\ buckets' = Put(buckets, Session, w)
        /\ refused' = [scope |-> Session, cap |-> cap] /\ granted' = granted
    BY <1>5 DEF Lead
  <2>2. DOMAIN buckets' = {Session} /\ buckets'[Session] = w
    BY <1>1, <1>2, <2>1 DEF Put
  <2> HIDE DEF w
  <2>3. LimiterTyped'
    BY <1>1, <1>2, <1>3, <2>1, <2>2 DEF LimiterTyped
  <2>4. LeadsIInv'
    BY <1>1, <1>2, <1>3, <1>4, <1>5, <2>1, <2>2 DEF LeadsIInv, Start
  <2> QED
    BY <2>3, <2>4
<1>6. CASE w.count < cap
  <2> DEFINE h == [f EXCEPT ![now] = @ + 1]
             v == [w EXCEPT !.count = @ + 1]
  <2>1. /\ buckets' = Put(buckets, Session, v)
        /\ refused' = Nobody /\ granted' = Count(granted, Session)
    <3>1. ~(w.count >= cap)
      BY <1>2, <1>4, <1>6
    <3> QED
      BY <3>1 DEF Lead
  <2>2. /\ DOMAIN buckets' = {Session} /\ buckets'[Session] = v
        /\ granted' \in [Scope -> [Ticks -> Nat]] /\ granted'[Session] = h
    BY <1>1, <1>2, <2>1 DEF Put, Count
  <2> HIDE DEF w
  <2>3. v = [count |-> w.count + 1, window_started_at |-> st]
    BY <1>3
  <2>4. /\ h \in [Ticks -> Nat]
        /\ \A t \in Ticks : t # now => h[t] = f[t]
    BY <1>2
  <2> HIDE DEF f, h, v
  <2>5. Between(h, st, now) = w.count + 1
    <3>1. /\ st \in Int /\ now \in Int /\ st <= now /\ now <= now
          /\ f \in [Ticks -> Nat] /\ now \in Ticks
      BY <1>2, <1>4
    <3>2. Between([f EXCEPT ![now] = @ + 1], st, now) = Between(f, st, now) + 1
      BY <3>1, BetweenCount
    <3> QED
      BY <1>3, <3>2 DEF h
  <2>6. Between(h, st - Hour, st - 1) = Between(f, st - Hour, st - 1)
    <3>1. st - Hour \in Int /\ st - 1 \in Int
      BY <1>2, <1>4
    <3>2. \A t \in ((st - Hour)..(st - 1)) \cap Ticks : h[t] = f[t]
      BY <1>2, <1>4, <2>4
    <3> QED
      BY <1>2, <2>4, <3>1, <3>2, BetweenSame
  <2>7. \A t \in Ticks : t > now \/ t >= st + Hour => h[t] = 0
    BY <1>2, <1>3, <1>4, <2>4 DEF Ticks
  <2>8. LimiterTyped'
    <3>1. \A s \in Scope', t \in Ticks : t > now' => granted'[s][t] = 0
      BY <1>1, <2>2, <2>7
    <3>2. \A s \in DOMAIN buckets' : buckets'[s] \in [count : Nat, window_started_at : 0..now']
      BY <1>1, <1>4, <2>2, <2>3
    <3>3. watched' = "leads" /\ now' \in Ticks /\ DOMAIN buckets' \subseteq Scope'
      BY <1>1, <1>2, <2>2
    <3> QED
      BY <1>1, <2>2, <3>1, <3>2, <3>3 DEF LimiterTyped
  <2>9. LeadsIInv'
    BY <1>1, <1>2, <1>3, <1>4, <1>6, <2>1, <2>2, <2>3, <2>5, <2>6, <2>7 DEF LeadsIInv, Start
  <2> QED
    BY <2>8, <2>9
<1>7. w.count >= cap \/ w.count < cap
  BY <1>2, <1>4
<1> QED
  BY <1>5, <1>6, <1>7

LEMMA TickStep ==
    ASSUME LimiterTyped, TokensIInv, LeadsIInv, Tick
    PROVE  LimiterTyped' /\ TokensIInv' /\ LeadsIInv'
<1>1. /\ now' = now + 1 /\ refused' = Nobody /\ Scope' = Scope
      /\ UNCHANGED <<watched, buckets, granted>>
  BY DEF Tick, Scope
<1>2. now \in Nat /\ now \in Ticks /\ now' \in Ticks
  BY LimitersAssumption DEF LimitersAssumption, LimiterTyped, Ticks, Tick
<1>3. LimiterTyped'
  <2>1. \A t \in Ticks : t > now' => t > now
    BY <1>1, <1>2 DEF Ticks
  <2>2. ASSUME NEW s \in DOMAIN buckets
        PROVE  buckets[s] \in IF watched = "leads"
                              THEN [count : Nat, window_started_at : 0..now']
                              ELSE [parts : 0..CapParts(s), last_refill : 0..now']
    BY <1>1, <1>2 DEF LimiterTyped
  <2> QED
    BY <1>1, <1>2, <2>1, <2>2 DEF LimiterTyped
<1>4. TokensIInv'
  <2>1. ASSUME watched # "leads", NEW s \in Scope PROVE Balanced(s)'
    BY <1>1, <1>2, <2>1, TickBalanced DEF TokensIInv
  <2> QED
    BY <1>1, <2>1 DEF TokensIInv, RefusedSpent
<1>5. LeadsIInv'
  <2> SUFFICES ASSUME watched = "leads", Session \in DOMAIN buckets
               PROVE  Between(granted[Session], Start, now')
                         = Between(granted[Session], Start, now)
    BY <1>1 DEF LeadsIInv, Start
  <2>1. /\ Start \in 0..now /\ granted[Session] \in [Ticks -> Nat]
        /\ \A t \in Ticks : t > now => granted[Session][t] = 0
    BY DEF LimiterTyped, Start, Scope
  <2>2. Start \in Int /\ now' \in Int /\ Start <= now + 1 /\ now <= now'
    BY <1>1, <1>2, <2>1
  <2> QED
    BY <1>2, <2>1, <2>2, BetweenLater
<1> QED
  BY <1>3, <1>4, <1>5

----------------------------------------------------------------------------
(* The limits *)

LimiterIInv == LimiterTyped /\ TokensIInv /\ LeadsIInv

LEMMA LimiterStarts == LimiterInit => LimiterIInv
<1> SUFFICES ASSUME LimiterInit PROVE LimiterIInv
  OBVIOUS
<1>1. /\ now = 0 /\ refused = Nobody /\ DOMAIN buckets = {}
      /\ watched \in {"tokens", "leads", "none"} /\ 0 \in Ticks
      /\ \A s \in Scope : granted[s] \in [Ticks -> Nat] /\ \A t \in Ticks : granted[s][t] = 0
  BY LimitersAssumption DEF LimitersAssumption, LimiterInit, NoBucket, Ticks
<1>2. granted \in [Scope -> [Ticks -> Nat]]
  BY LimitersAssumption DEF LimitersAssumption, LimiterInit, Ticks
<1>3. LimiterTyped
  BY <1>1, <1>2 DEF LimiterTyped
<1>4. ASSUME watched # "leads", NEW s \in Scope PROVE Balanced(s)
  <2>1. Capacity(s) \in Nat /\ CapParts(s) \in Nat /\ Minute \in Nat
    BY CapacityType
  <2>2. Between(granted[s], 0, 0) = 0
    BY <1>1, BetweenZeros
  <2>3. Level(s) = CapParts(s)
    <3>1. Level(s) = Least(CapParts(s), CapParts(s) + (now - now) * Capacity(s))
      BY <1>1 DEF Level, Refilled, BucketOf, Full, CapParts
    <3>2. (now - now) * Capacity(s) = 0
      BY <1>1, <2>1
    <3> QED
      BY <2>1, <3>1, <3>2 DEF Least
  <2>4. 0 * Minute = 0 /\ (0 - 0) * Capacity(s) = 0 /\ Least(CapParts(s), 0) = 0
    BY <2>1 DEF Least
  <2>5. \A from \in 0..now : from = 0
    BY <1>1
  <2> QED
    BY <1>1, <2>1, <2>2, <2>3, <2>4, <2>5 DEF Balanced
<1>5. TokensIInv
  BY <1>1, <1>4 DEF TokensIInv, RefusedSpent
<1>6. LeadsIInv
  BY <1>1 DEF LeadsIInv, Scope
<1> QED
  BY <1>3, <1>5, <1>6 DEF LimiterIInv

LEMMA LimiterStep == LimiterIInv /\ [LimiterNext]_limiterVars => LimiterIInv'
<1> SUFFICES ASSUME LimiterIInv, [LimiterNext]_limiterVars PROVE LimiterIInv'
  OBVIOUS
<1> USE DEF LimiterIInv
<1>1. CASE Tick
  BY <1>1, TickStep
<1>2. ASSUME NEW a \in Address, Exchange(a) PROVE LimiterIInv'
  <2>1. LimiterTyped' /\ TokensIInv'
    BY <1>2, ExchangeStep
  <2>2. LeadsIInv'
    BY <1>2 DEF Exchange, LeadsIInv
  <2> QED
    BY <2>1, <2>2
<1>3. ASSUME NEW c \in Caps, Lead(c) PROVE LimiterIInv'
  <2>1. LimiterTyped' /\ LeadsIInv'
    BY <1>3, LeadStep
  <2>2. TokensIInv'
    BY <1>3 DEF Lead, TokensIInv
  <2> QED
    BY <2>1, <2>2
<1>4. CASE UNCHANGED limiterVars
  BY <1>4 DEF limiterVars, LimiterTyped, TokensIInv, LeadsIInv, RefusedSpent, Balanced,
     Level, Refilled, BucketOf, Full, Scope, Start
<1> QED
  BY <1>1, <1>2, <1>3, <1>4 DEF LimiterNext

LEMMA TokensHold == LimiterIInv => TokensBounded
<1> SUFFICES ASSUME LimiterIInv, NEW s \in Scope \ {Session}
             PROVE  Passed(s, now - Minute + 1, now) <= 2 * Capacity(s) - 1
  BY DEF TokensBounded
<1> DEFINE C == Capacity(s)
           from == now - Minute + 1
           P(a) == Between(granted[s], a, now)
<1>1. /\ watched # "leads" /\ s \in Scope
      /\ now \in Nat /\ C \in Nat \ {0} /\ Minute \in Nat \ {0}
      /\ granted[s] \in [Ticks -> Nat] /\ Level(s) \in Nat
      /\ CapParts(s) = C * Minute
  BY CapacityType, LevelType DEF LimiterIInv, LimiterTyped, Scope, Ticks, CapParts
<1>2. Balanced(s)
  BY <1>1 DEF LimiterIInv, TokensIInv
<1> HIDE DEF C
<1>3. ASSUME NEW a \in 0..now, now - a <= Minute - 1
      PROVE  P(a) <= 2 * C - 1
  <2>1. P(a) \in Nat /\ now - a \in Nat
    BY <1>1, BetweenNat
  <2>2. P(a) * Minute + Level(s) <= C * Minute + (now - a) * C
    BY <1>1, <1>2 DEF Balanced, C
  <2>3. (now - a) * C <= (Minute - 1) * C
    <3>1. \A m, n \in Nat : m <= n => m * C <= n * C
      BY <1>1
    <3> QED
      BY <1>1, <1>3, <2>1, <3>1
  <2>4. (Minute - 1) * C = C * Minute - C
    BY <1>1
  <2>5. \A m \in Nat : m >= 2 * C => m * Minute >= (2 * C) * Minute
    BY <1>1
  <2>6. (2 * C) * Minute = C * Minute + C * Minute /\ C * Minute \in Nat
    BY <1>1
  <2>7. P(a) * Minute \in Nat /\ (now - a) * C \in Nat
    <3>1. \A m, n \in Nat : m * n \in Nat
      OBVIOUS
    <3> QED
      BY <1>1, <2>1, <3>1
  <2> HIDE DEF P
  <2>8. P(a) >= 2 * C => FALSE
    <3> SUFFICES ASSUME P(a) >= 2 * C PROVE FALSE
      OBVIOUS
    <3>1. P(a) * Minute >= C * Minute + C * Minute
      BY <2>1, <2>5, <2>6
    <3> QED
      BY <1>1, <2>2, <2>3, <2>4, <2>6, <2>7, <3>1
  <2> QED
    BY <1>1, <2>1, <2>8
<1>4. Passed(s, from, now) = P(from)
  BY PassedIsBetween
<1>5. CASE from >= 0
  BY <1>1, <1>3, <1>4, <1>5 DEF C
<1>6. CASE from < 0
  <2>1. \A t \in Ticks : t \in from..now <=> t \in 0..now
    BY <1>1, <1>6 DEF Ticks
  <2>2. (from..now) \cap Ticks = (0..now) \cap Ticks
    BY <2>1
  <2>3. P(from) = P(0)
    BY <2>2 DEF Between
  <2> QED
    BY <1>1, <1>3, <1>4, <1>6, <2>3 DEF C
<1> QED
  BY <1>1, <1>5, <1>6

LEMMA LeadsHold == LimiterIInv => LeadsBounded
<1> SUFFICES ASSUME LimiterIInv, watched = "leads" PROVE LeadsBounded
  BY DEF LeadsBounded
<1> DEFINE f == granted[Session]
<1>1. /\ now \in Nat /\ Hour \in Nat \ {0} /\ MaxCap \in Nat /\ f \in [Ticks -> Nat]
      /\ \A t \in Ticks : t > now => f[t] = 0
  BY CapIsCap, LimitersAssumption DEF LimitersAssumption, LimiterIInv, LimiterTyped, Scope, Ticks
<1>2. \A a, b : Passed(Session, a, b) = Between(f, a, b)
  BY PassedIsBetween
<1>3. now - Hour + 1 \in Int
  BY <1>1
<1>4. CASE Session \notin DOMAIN buckets
  <2>1. \A t \in Ticks : f[t] = 0
    BY <1>4 DEF LimiterIInv, LeadsIInv
  <2> HIDE DEF f
  <2>2. Between(f, now - Hour + 1, now) = 0
    BY <1>1, <1>3, <2>1, BetweenZeros
  <2> QED
    BY <1>1, <1>2, <1>4, <2>2 DEF LeadsBounded
<1>5. CASE Session \in DOMAIN buckets
  <2>1. /\ Start \in 0..now
        /\ Between(f, Start, now) <= MaxCap
        /\ \A t \in Ticks : t >= Start + Hour => f[t] = 0
        /\ Between(f, Start - Hour, Start - 1) <= MaxCap
    BY <1>5 DEF LimiterIInv, LimiterTyped, LeadsIInv, Start
  <2> DEFINE last == Start + Hour - 1
  <2>2. /\ Start \in Int /\ now \in Int /\ Start - Hour \in Int /\ Start - 1 \in Int
        /\ last \in Int /\ Start <= now /\ Start - Hour <= now - Hour + 1
    BY <1>1, <2>1
  <2> HIDE DEF f, last
  <2>3. /\ Between(f, Start, now) \in Nat /\ Between(f, Start - Hour, Start - 1) \in Nat
        /\ Between(f, now - Hour + 1, now) \in Nat
    BY <1>1, <1>3, <2>2, BetweenNat
  <2>4. Between(f, Start, last) <= MaxCap
    <3>1. CASE last <= now
      <4>1. Between(f, Start, last) <= Between(f, Start, now)
        BY <1>1, <2>2, <3>1, BetweenWider
      <4>2. Between(f, Start, last) \in Nat
        BY <1>1, <2>2, BetweenNat
      <4> QED
        BY <1>1, <2>1, <2>3, <4>1, <4>2
    <3>2. CASE now <= last
      <4>1. Between(f, Start, last) = Between(f, Start, now)
        BY <1>1, <2>2, <3>2, BetweenLater
      <4> QED
        BY <2>1, <4>1
    <3> QED
      BY <2>2, <3>1, <3>2
  <2>5. Between(f, now - Hour + 1, now) <= 2 * MaxCap
    <3>1. CASE Start <= now - Hour + 1
      <4>1. Between(f, now - Hour + 1, now) <= Between(f, Start, now)
        BY <1>1, <1>3, <2>2, <3>1, BetweenWider
      <4> QED
        BY <1>1, <2>1, <2>3, <4>1
    <3>2. CASE now - Hour + 1 < Start
      <4>1. Between(f, Start - Hour, now) =
               Between(f, Start - Hour, Start - 1) + Between(f, Start, now)
        <5>1. (Start - 1) + 1 = Start /\ Start - Hour <= (Start - 1) + 1 /\ Start - 1 <= now
          BY <1>1, <2>2
        <5> QED
          BY <1>1, <2>2, <5>1, BetweenSplit
      <4>2. Between(f, now - Hour + 1, now) <= Between(f, Start - Hour, now)
        BY <1>1, <1>3, <2>2, BetweenWider
      <4> QED
        BY <1>1, <2>1, <2>3, <4>1, <4>2
    <3> QED
      BY <1>3, <2>2, <3>1, <3>2
  <2> QED
    BY <1>2, <2>4, <2>5 DEF LeadsBounded, last, Start
<1> QED
  BY <1>4, <1>5

LEMMA RefusalsHold == LimiterIInv => RefusedOnlyWhenSpent
<1> SUFFICES ASSUME LimiterIInv, refused # Nobody
             PROVE  LET period == IF refused.scope = Session THEN Hour ELSE Minute
                    IN  Passed(refused.scope, now - period, now) >= refused.cap
  BY DEF RefusedOnlyWhenSpent
<1>1. /\ now \in Nat /\ Minute \in Nat \ {0} /\ Hour \in Nat \ {0}
      /\ granted \in [Scope -> [Ticks -> Nat]]
  BY LimitersAssumption DEF LimitersAssumption, LimiterIInv, LimiterTyped, Ticks
<1>2. CASE watched = "leads"
  <2> DEFINE f == granted[Session]
  <2>1. /\ refused.scope = Session /\ Session \in DOMAIN buckets
        /\ Start \in 0..now /\ now - Start < Hour
        /\ refused.cap \in Nat /\ refused.cap <= buckets[Session].count
        /\ buckets[Session].count = Between(f, Start, now)
        /\ f \in [Ticks -> Nat]
    BY <1>1, <1>2 DEF LimiterIInv, LimiterTyped, LeadsIInv, Start, Scope
  <2>2. Start \in Int /\ now - Hour \in Int /\ now - Hour <= Start /\ now <= now
    BY <1>1, <2>1
  <2> HIDE DEF f
  <2>3. Between(f, Start, now) <= Between(f, now - Hour, now)
    <3>1. f \in [Ticks -> Nat] /\ now \in Int
      BY <1>1, <2>1
    <3> QED
      BY <2>2, <3>1, BetweenWider
  <2>4. Between(f, Start, now) \in Nat /\ Between(f, now - Hour, now) \in Nat
    <3>1. f \in [Ticks -> Nat] /\ now \in Int
      BY <1>1, <2>1
    <3>2. Between(f, Start, now) \in Nat
      BY <2>2, <3>1, BetweenNat
    <3>3. Between(f, now - Hour, now) \in Nat
      BY <2>2, <3>1, BetweenNat
    <3> QED
      BY <3>2, <3>3
  <2>5. Passed(refused.scope, now - Hour, now) = Between(f, now - Hour, now)
    BY <2>1, PassedIsBetween DEF f
  <2>6. Passed(refused.scope, now - Hour, now) >= refused.cap
    BY <2>1, <2>3, <2>4, <2>5
  <2> QED
    BY <2>1, <2>6
<1>3. CASE watched # "leads"
  <2> DEFINE s == refused.scope
             C == Capacity(s)
             P(a) == Between(granted[s], a, now)
  <2>1. /\ s \in Scope /\ s # Session /\ refused.cap = C
        /\ Level(s) < Minute /\ Balanced(s)
    <3>1. s \in Scope /\ refused.cap = C /\ Level(s) < Minute
      BY <1>3 DEF LimiterIInv, TokensIInv, RefusedSpent
    <3>2. Balanced(s)
      BY <1>3, <3>1 DEF LimiterIInv, TokensIInv
    <3>3. Session \notin Address /\ Session # Widget
      BY LimitersAssumption DEF LimitersAssumption, Session, Widget
    <3>4. s # Session
      BY <1>3, <3>1, <3>3 DEF Scope
    <3> QED
      BY <3>1, <3>2, <3>4
  <2>2. /\ C \in Nat \ {0} /\ CapParts(s) = C * Minute /\ Level(s) \in Nat
        /\ granted[s] \in [Ticks -> Nat]
    BY <1>1, <1>3, <2>1, CapacityType, LevelType DEF LimiterIInv, CapParts
  <2> HIDE DEF s, C
  <2>3. ASSUME NEW a \in 0..now, C * Minute <= P(a) * Minute + Level(s)
        PROVE  P(a) >= C
    <3>1. P(a) \in Nat
      BY <1>1, <2>2, BetweenNat
    <3> HIDE DEF P
    <3>2. \A m \in Nat : m + 1 <= C => (m + 1) * Minute <= C * Minute
      BY <1>1, <2>2
    <3>3. (P(a) + 1) * Minute = P(a) * Minute + Minute
      BY <1>1, <3>1
    <3>4. P(a) * Minute \in Nat /\ C * Minute \in Nat
      <4>1. \A m, n \in Nat : m * n \in Nat
        OBVIOUS
      <4> QED
        BY <1>1, <2>2, <3>1, <4>1
    <3>5. P(a) + 1 <= C => P(a) * Minute + Minute <= C * Minute
      BY <3>1, <3>2, <3>3
    <3> QED
      BY <1>1, <2>1, <2>2, <2>3, <3>1, <3>4, <3>5
  <2>4. Passed(s, now - Minute, now) = P(now - Minute)
    BY PassedIsBetween
  <2>5. CASE now - Minute >= 0
    <3>1. now - Minute \in 0..now
      BY <1>1, <2>5
    <3>2. Least(CapParts(s), (now - (now - Minute)) * C) <= P(now - Minute) * Minute + Level(s)
      BY <2>1, <3>1 DEF Balanced, C
    <3>3. (now - (now - Minute)) * C = C * Minute /\ C * Minute \in Nat
      <4>1. now - (now - Minute) = Minute
        BY <1>1
      <4> QED
        BY <1>1, <2>2, <4>1
    <3>4. Least(CapParts(s), C * Minute) = C * Minute
      BY <2>2 DEF Least
    <3>5. P(now - Minute) >= C
      BY <2>3, <3>1, <3>2, <3>3, <3>4
    <3> QED
      BY <2>1, <2>4, <3>5 DEF s
  <2>6. CASE now - Minute < 0
    <3>1. \A t \in Ticks : t \in (now - Minute)..now <=> t \in 0..now
      BY <1>1, <2>6 DEF Ticks
    <3>2. ((now - Minute)..now) \cap Ticks = (0..now) \cap Ticks
      BY <3>1
    <3>3. P(now - Minute) = P(0)
      BY <3>2 DEF Between
    <3>4. 0 \in 0..now /\ CapParts(s) <= P(0) * Minute + Level(s)
      BY <1>1, <2>1 DEF Balanced
    <3>5. P(0) >= C
      BY <2>2, <2>3, <3>4
    <3> QED
      BY <2>1, <2>4, <3>3, <3>5 DEF s
  <2> QED
    BY <1>1, <2>5, <2>6
<1> QED
  BY <1>2, <1>3

\* In no minute more exchanges than a bucket holds and gains, in no hour more
\* leads than two windows' caps, and no refusal of who has not had the limit's
\* worth: whatever the addresses, rates, caps and pauses.
THEOREM LimitsAreHeld == LimiterSpec => []LimitsHold
<1>1. LimiterIInv => LimitsHold
  BY TokensHold, LeadsHold, RefusalsHold DEF LimitsHold
<1> QED
  BY <1>1, LimiterStarts, LimiterStep, PTL DEF LimiterSpec
=============================================================================
