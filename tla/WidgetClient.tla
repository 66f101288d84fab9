----------------------------- MODULE WidgetClient -----------------------------
(***************************************************************************)
(* A host page with the chat widget: the loader script that mounts the     *)
(* iframe, the iframe's handshake, and the chat surface with its reducer.  *)
(* What the network and the server do with a call is the environment, left *)
(* to the module that composes this one (WidgetVisit): here a call is in   *)
(* flight until some outcome arrives.  Rendering, focus and texts are left *)
(* out; a question is a number.                                            *)
(***************************************************************************)
EXTENDS Integers, Sequences, FiniteSets

CONSTANTS
    Script,     \* script tags of the page that load widget.js with the same widget id
    Budgets     \* bounds a visit may have: [asked, calls, hides, losses], the
                \* questions asked, the calls of /chat made, the times the page is
                \* hidden and restored, the calls of Redis that fail

ASSUME ClientAssumption ==
    Budgets \subseteq [asked : Nat, calls : Nat, hides : Nat, losses : Nat]

VARIABLES
    budget,     \* the visit's bounds
    script,     \* a tag's progress: "new", "waiting" for the DOM, "done"
    body,       \* document.body is there
    frames,     \* iframes of the widget on the page
    listening,  \* the frame's message listener is registered
    greeted,    \* the loader's host_origin message: "no", "posted", "got", "missed"
    app,        \* WidgetApp's status
    session,    \* the token store: "none" or "held"
    chat,       \* the reducer's state
    calls,      \* POST /chat requests the browser waits for
    asked,      \* questions asked so far
    made,       \* calls made so far
    hides,      \* times the page was hidden
    orphans     \* history: questions whose call was in flight when the page was hidden

page == <<budget, script, body, frames>>
hello == <<listening, greeted>>
talk == <<chat, calls, asked, made, hides, orphans>>
clientVars == <<page, hello, app, session, talk>>

None == 0

----------------------------------------------------------------------------
(* The reducer *)

User(q) == [role |-> "user", question |-> q]
Assistant(q) == [role |-> "assistant", question |-> q]

InitialState ==
    [messages |-> << >>, status |-> "idle", pendingPrompt |-> None]

Busy(s) == s.status \in {"sending", "expired"}

SendStart(s, q) ==
    IF Busy(s) THEN s
    ELSE [s EXCEPT !.messages = Append(@, User(q)), !.status = "sending",
                   !.pendingPrompt = q]

SendOk(s, q) ==
    [s EXCEPT !.messages = Append(@, Assistant(q)), !.status = "idle",
              !.pendingPrompt = None]

SendError(s) == [s EXCEPT !.status = "error"]
SessionExpired(s) == [s EXCEPT !.status = "expired", !.pendingPrompt = None]

MayRetry_anyError(s) == s.status = "error"
MayRetry(s) == s.pendingPrompt # None /\ s.status = "error"
RetryLast(s) ==
    IF MayRetry(s) THEN [s EXCEPT !.status = "sending"] ELSE s

Reset == InitialState

----------------------------------------------------------------------------
(* The page and the loader *)

ClientInit ==
    /\ budget \in Budgets
    /\ script = [t \in Script |-> "new"]
    /\ body = FALSE
    /\ frames = 0
    /\ listening = FALSE
    /\ greeted = "no"
    /\ app = "waiting_for_host_origin"
    /\ session = "none"
    /\ chat = InitialState
    /\ calls = {}
    /\ asked = 0 /\ made = 0 /\ hides = 0
    /\ orphans = {}

\* mount(): at most one iframe per widget id.
Mount_always(t) ==
    /\ script' = [script EXCEPT ![t] = "done"]
    /\ frames' = frames + 1
Mount(t) ==
    /\ script' = [script EXCEPT ![t] = "done"]
    /\ frames' = IF frames > 0 THEN frames ELSE 1

RunScript(t) ==
    /\ script[t] = "new"
    /\ IF body THEN Mount(t)
       ELSE script' = [script EXCEPT ![t] = "waiting"] /\ UNCHANGED frames
    /\ UNCHANGED <<budget, body, hello, app, session, talk>>

BodyParsed ==
    /\ ~body /\ body' = TRUE
    /\ UNCHANGED <<budget, script, frames, hello, app, session, talk>>

ContentLoaded(t) ==
    /\ body /\ script[t] = "waiting"
    /\ Mount(t)
    /\ UNCHANGED <<budget, body, hello, app, session, talk>>

----------------------------------------------------------------------------
(* The handshake *)

\* React runs WidgetApp's first effect some time after its script has run;
\* the iframe's load event does not wait for it.
Listen ==
    /\ frames > 0 /\ ~listening
    /\ listening' = TRUE
    /\ UNCHANGED <<page, greeted, app, session, talk>>

Load ==
    /\ frames > 0 /\ greeted = "no"
    /\ greeted' = "posted"
    /\ UNCHANGED <<page, listening, app, session, talk>>

\* onMessage: the effect on hostOrigin starts the token exchange.
HostOrigin ==
    /\ greeted = "posted"
    /\ greeted' = IF listening THEN "got" ELSE "missed"
    /\ app' = IF listening THEN "exchanging" ELSE app
    /\ UNCHANGED <<page, listening, session, talk>>

TokenGranted ==
    /\ app = "exchanging" /\ session = "none"
    /\ session' = "held"
    /\ UNCHANGED <<page, hello, app, talk>>

\* 400, 403 or no answer.
TokenRefused ==
    /\ app = "exchanging" /\ session = "none"
    /\ app' = "unavailable"
    /\ UNCHANGED <<page, hello, session, talk>>

\* fetchAgentConfig never fails: what it does not get it replaces.
ConfigLoaded ==
    /\ app = "exchanging" /\ session = "held"
    /\ app' = "ready"
    /\ UNCHANGED <<page, hello, session, talk>>

----------------------------------------------------------------------------
(* The chat surface *)

Dispatch(state) == chat' = state
Surface == <<page, hello, app, session>>

\* sendChatMessage with the token in the store.
Post(q) ==
    /\ made < budget.calls
    /\ made' = made + 1
    /\ calls' = calls \cup {[id |-> made + 1, question |-> q]}

\* The input (trimmed, not empty, within the cap) or a chip, when not disabled.
\* Bound: the visitor asks when the page's tags have all run.
Send ==
    /\ app = "ready" /\ ~Busy(chat)
    /\ \A t \in Script : script[t] = "done"
    /\ asked < budget.asked
    /\ asked' = asked + 1
    /\ Dispatch(SendStart(chat, asked + 1))
    /\ Post(asked + 1)
    /\ UNCHANGED <<Surface, hides, orphans>>

\* The banner's button is there whenever the status is "error".
Retry_anyTime ==
    /\ app = "ready" /\ chat.pendingPrompt # None
    /\ Dispatch(RetryLast(chat))
    /\ Post(chat.pendingPrompt)
    /\ UNCHANGED <<Surface, asked, hides, orphans>>

Retry ==
    /\ app = "ready" /\ MayRetry(chat)
    /\ Dispatch(RetryLast(chat))
    /\ Post(chat.pendingPrompt)
    /\ UNCHANGED <<Surface, asked, hides, orphans>>

\* pagehide, and the page shown again from the browser's cache with its calls.
Hide ==
    /\ app = "ready" /\ hides < budget.hides
    /\ hides' = hides + 1
    /\ Dispatch(Reset)
    /\ orphans' = orphans \cup {c.question : c \in calls}
    /\ UNCHANGED <<Surface, calls, asked, made>>

\* What the promise of sendChatMessage settles to.
Outcomes == {"ok", "expired", "server", "network"}

\* handleApiError
HandleApiError_serverOnly(kind) ==
    Dispatch(IF kind = "expired" THEN SessionExpired(chat)
             ELSE IF kind = "server" THEN SendError(chat) ELSE chat)
HandleApiError(kind) ==
    Dispatch(IF kind = "expired" THEN SessionExpired(chat) ELSE SendError(chat))

Settle(c, outcome) ==
    /\ c \in calls
    /\ calls' = calls \ {c}
    /\ IF outcome = "ok" THEN Dispatch(SendOk(chat, c.question))
       ELSE HandleApiError(outcome)
    /\ UNCHANGED <<Surface, asked, made, hides, orphans>>

----------------------------------------------------------------------------
VisitorStep == Send \/ Retry \/ Hide

PageStep ==
    \/ \E t \in Script : RunScript(t) \/ ContentLoaded(t)
    \/ BodyParsed \/ Listen \/ Load \/ HostOrigin
    \/ TokenGranted \/ TokenRefused \/ ConfigLoaded
=============================================================================
