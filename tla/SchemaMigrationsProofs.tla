------------------------ MODULE SchemaMigrationsProofs ------------------------
(***************************************************************************)
(* Proofs about SchemaMigrations: however many commands overlap, whatever  *)
(* they ask for, the committed schema is that of the recorded revision.    *)
(* What the scripts do on their own, ScriptsAlone, is a closed formula     *)
(* over their text that TLC evaluates; what their overlaps do is proved.   *)
(***************************************************************************)
EXTENDS SchemaMigrations, TLAPS

----------------------------------------------------------------------------
(* The invariant *)

On(facts, t) == {f \in facts : f.on = t}
Off(facts, tables) == {f \in facts : f.on \notin tables}

\* The schema a command would see, had nobody else run since it began.
Expected(r) ==
    IF at[r] = goal[r] THEN SchemaAt(at[r])
    ELSE Views(Script(r), SchemaAt(at[r]))[next[r]]

MigrationsTyped ==
    /\ version \in 0..Latest
    /\ running \subseteq Runner
    /\ at \in [Runner -> 0..Latest]
    /\ start \in [Runner -> 0..Latest]
    /\ goal \in [Runner -> 0..Latest]
    /\ next \in [Runner -> Nat \ {0}]
    /\ DOMAIN added = Runner /\ added = [r \in Runner |-> added[r]]
    /\ DOMAIN dropped = Runner /\ dropped = [r \in Runner |-> dropped[r]]
    /\ DOMAIN locked = Runner /\ locked = [r \in Runner |-> locked[r]]

\* A command goes one way, from where it began to what was asked for.
OnItsWay(r) ==
    /\ goal[r] # start[r]
    /\ start[r] < goal[r] => start[r] <= at[r] /\ at[r] <= goal[r]
    /\ goal[r] < start[r] => goal[r] <= at[r] /\ at[r] <= start[r]
    /\ at[r] # goal[r] => next[r] <= Len(Script(r)) + 1

\* What a transaction has changed it has locked, nothing else is changed.
ChangesLocked(r) ==
    /\ \A f \in added[r] \cup dropped[r] : f.on \in locked[r]
    /\ r \notin running => added[r] = {} /\ dropped[r] = {} /\ locked[r] = {}

\* A table is locked by one transaction at a time.
LocksExclude ==
    \A r, q \in Runner : r # q => locked[r] \cap locked[q] = {}

\* The row of alembic_version is one transaction's too, and then the revision
\* is still the one that transaction began from.
OneStamps ==
    /\ \A r \in Runner : Stamped(r) => version = start[r]
    /\ \A r, q \in Runner : Stamped(r) /\ Stamped(q) => r = q

\* A command finds the tables it has not locked as at its start, and has made
\* of those it locked what its scripts make of them, if they were as at its start.
InStep(r) ==
    /\ Off(Expected(r), locked[r]) = Off(SchemaAt(start[r]), locked[r])
    /\ \A t \in locked[r] :
          On(schema, t) = On(SchemaAt(start[r]), t) =>
              /\ On(View(r), t) = On(Expected(r), t)
              /\ start[r] < goal[r] => On(dropped[r], t) = {}

MigrationsIInv ==
    /\ MigrationsTyped
    /\ schema = SchemaAt(version)
    /\ LocksExclude
    /\ OneStamps
    /\ \A r \in Runner : ChangesLocked(r)
    /\ \A r \in running : OnItsWay(r) /\ InStep(r)
    /\ ~broken

----------------------------------------------------------------------------
(* The scripts *)

\* A script has a number of statements.
LEMMA ScriptLength ==
    ASSUME NEW from \in 0..Latest, NEW to \in 0..Latest, to = from + 1 \/ from = to + 1
    PROVE  Len(Leading(from, to)) \in Nat
<1>1. \A p, q : Len(p) \in Nat /\ Len(q) \in Nat => Len(p \o q) \in Nat
  OBVIOUS
<1>2. /\ Len(Rls0001) \in Nat /\ Len(NoRls0001) \in Nat
      /\ Len(Each(TenantOwned4, Shield)) \in Nat /\ Len(Each(TenantOwned4, Unshield)) \in Nat
  <2>1. \A f : f = [i \in 1..7 |-> f[i]] => Len(f) = 7
    OBVIOUS
  <2>2. DOMAIN TenantOwned1 = 1..7 /\ DOMAIN TenantOwned4 = 1..7
    BY DEF TenantOwned1, TenantOwned4
  <2>3. Len(Rls0001) = 7
    BY <2>1, <2>2 DEF Rls0001, Each
  <2>4. Len(NoRls0001) = 7
    BY <2>1, <2>2 DEF NoRls0001, Each
  <2>5. Len(Each(TenantOwned4, Shield)) = 7
    BY <2>1, <2>2 DEF Each
  <2>6. Len(Each(TenantOwned4, Unshield)) = 7
    BY <2>1, <2>2 DEF Each
  <2> QED
    BY <2>3, <2>4, <2>5, <2>6
<1>3. Len(Up0001) \in Nat
  BY DEF Up0001
<1>4. Len(Down0001) \in Nat
  BY DEF Down0001
<1>5. Len(Up0002) \in Nat /\ Len(Down0002) \in Nat
  BY DEF Up0002, Down0002
<1>6. Len(Up0003) \in Nat /\ Len(Down0003) \in Nat
  BY DEF Up0003, Down0003
<1>7. Len(Up0004) \in Nat
  <2>1. /\ Len(AlterTenants) \in Nat /\ Len(CreateUsers) \in Nat
        /\ Len(CreateMemberships) \in Nat
    BY DEF AlterTenants, CreateUsers, CreateMemberships
  <2>2. /\ Len(CreateWidgetConfigs) \in Nat /\ Len(CreateAgentConfigs) \in Nat
        /\ Len(AlterCmsPages) \in Nat
    BY DEF CreateWidgetConfigs, CreateAgentConfigs, AlterCmsPages
  <2>3. /\ Len(CreateRagChunks) \in Nat /\ Len(AlterConversations) \in Nat
        /\ Len(CreateMessages) \in Nat
    BY DEF CreateRagChunks, AlterConversations, CreateMessages
  <2>4. /\ Len(AlterLeads) \in Nat /\ Len(CreateTickets) \in Nat
        /\ Len(CreateTraces) \in Nat
    BY DEF AlterLeads, CreateTickets, CreateTraces
  <2> QED
    BY <1>1, <1>2, <2>1, <2>2, <2>3, <2>4 DEF Up0004
<1>8. Len(Down0004) \in Nat
  BY <1>1, <1>2 DEF Down0004
<1>9. Len(Up0005) \in Nat /\ Len(Down0005) \in Nat
  BY DEF Up0005, Down0005
<1>10. Len(Up0006) \in Nat /\ Len(Down0006) \in Nat
  BY DEF Up0006, Down0006
<1>11. ASSUME NEW v \in 1..6 PROVE Len(Up[v]) \in Nat
  <2>1. Len(Up0001 \o Rls0001) \in Nat
    BY <1>1, <1>2, <1>3
  <2>2. /\ Up[1] = Up0001 \o Rls0001 /\ Up[2] = Up0002 /\ Up[3] = Up0003
        /\ Up[4] = Up0004 /\ Up[5] = Up0005 /\ Up[6] = Up0006
    BY DEF Up
  <2>3. v \in {1, 2, 3, 4, 5, 6}
    OBVIOUS
  <2> QED
    BY <1>5, <1>6, <1>7, <1>9, <1>10, <2>1, <2>2, <2>3
<1>12. ASSUME NEW v \in 1..6 PROVE Len(Down[v]) \in Nat
  <2>1. Len(NoRls0001 \o Down0001) \in Nat
    BY <1>1, <1>2, <1>4
  <2>2. /\ Down[1] = NoRls0001 \o Down0001 /\ Down[2] = Down0002 /\ Down[3] = Down0003
        /\ Down[4] = Down0004 /\ Down[5] = Down0005 /\ Down[6] = Down0006
    BY DEF Down
  <2>3. v \in {1, 2, 3, 4, 5, 6}
    OBVIOUS
  <2> QED
    BY <1>5, <1>6, <1>8, <1>9, <1>10, <2>1, <2>2, <2>3
<1>13. CASE to = from + 1
  BY <1>11, <1>13 DEF Leading, Latest
<1>14. CASE from = to + 1
  BY <1>12, <1>14 DEF Leading, Latest
<1> QED
  BY <1>13, <1>14

\* What a command's next statement does to what it expects.
LEMMA NextStatement ==
    ASSUME ScriptsAlone, MigrationsTyped, NEW r \in running, OnItsWay(r), at[r] # goal[r]
    PROVE  /\ Following(r) \in 0..Latest
           /\ Len(Script(r)) \in Nat
           /\ Views(Script(r), SchemaAt(at[r]))[1] = SchemaAt(at[r])
           /\ Views(Script(r), SchemaAt(at[r]))[Len(Script(r)) + 1] = SchemaAt(Following(r))
           /\ next[r] <= Len(Script(r)) =>
                 LET s == Script(r)[next[r]] IN
                 /\ Legal(s, Expected(r))
                 /\ Views(Script(r), SchemaAt(at[r]))[next[r] + 1] = After(s, Expected(r))
                 /\ \A f \in s.facts : f.on = s.on
                 /\ start[r] < goal[r] => Gone(s, Expected(r)) \cap SchemaAt(start[r]) = {}
<1> DEFINE from == at[r]
           to == Following(r)
           script == Script(r)
           views == Views(script, SchemaAt(from))
<1>1. /\ r \in Runner /\ from \in 0..Latest /\ start[r] \in 0..Latest
      /\ goal[r] \in 0..Latest /\ next[r] \in Nat \ {0} /\ Latest \in Nat
  BY DEF MigrationsTyped, Latest
<1>2. to \in 0..Latest /\ (to = from + 1 \/ from = to + 1)
  BY <1>1 DEF Following
<1>3. script = Leading(from, to)
  BY DEF Script
<1>4. start[r] < goal[r] => start[r] \in 0..from /\ to > from
  BY <1>1 DEF OnItsWay, Following
<1>5. Len(script) \in Nat
  BY <1>2, <1>3, ScriptLength
<1>6. /\ views[1] = SchemaAt(from)
      /\ views[Len(script) + 1] = SchemaAt(to)
      /\ \A k \in 1..Len(script) :
            /\ Legal(script[k], views[k])
            /\ views[k + 1] = After(script[k], views[k])
            /\ \A f \in script[k].facts : f.on = script[k].on
            /\ \A v \in 0..from : to > from =>
                  Gone(script[k], views[k]) \cap SchemaAt(v) = {}
  <2>1. script = Leading(from, to) /\ views = Views(Leading(from, to), SchemaAt(from))
    BY <1>3
  <2>2. from \in 0..Latest /\ to \in 0..Latest /\ (to = from + 1 \/ from = to + 1)
    BY <1>1, <1>2
  <2> HIDE DEF from, to, script, views
  <2>3. LET sc == Leading(from, to)
            vs == Views(sc, SchemaAt(from))
        IN  /\ vs[1] = SchemaAt(from)
            /\ vs[Len(sc) + 1] = SchemaAt(to)
            /\ \A k \in 1..Len(sc) :
                  /\ Legal(sc[k], vs[k])
                  /\ vs[k + 1] = After(sc[k], vs[k])
                  /\ \A f \in sc[k].facts : f.on = sc[k].on
                  /\ \A v \in 0..from : to > from => Gone(sc[k], vs[k]) \cap SchemaAt(v) = {}
    BY <2>2 DEF ScriptsAlone
  <2> QED
    BY <2>1, <2>3
<1>7. Expected(r) = views[next[r]]
  BY DEF Expected
<1>8. next[r] <= Len(script) => next[r] \in 1..Len(script)
  BY <1>1, <1>5
<1> QED
  BY <1>2, <1>4, <1>5, <1>6, <1>7, <1>8

\* A statement changes its own table only, and what it makes of it depends on
\* nothing else.
LEMMA StatementIsLocal ==
    ASSUME NEW s, \A f \in s.facts : f.on = s.on, NEW V, NEW W
    PROVE  /\ \A f : f.on # s.on => (f \in After(s, V) <=> f \in V)
           /\ On(V, s.on) = On(W, s.on) =>
                 /\ On(After(s, V), s.on) = On(After(s, W), s.on)
                 /\ Gone(s, V) = Gone(s, W)
<1>1. \A f : f.on # s.on => (f \in After(s, V) <=> f \in V)
  BY DEF After, Gone
<1>2. ASSUME On(V, s.on) = On(W, s.on) PROVE Gone(s, V) = Gone(s, W)
  <2>1. \A f : f \in V /\ f.on = s.on <=> f \in W /\ f.on = s.on
    BY <1>2 DEF On
  <2> QED
    BY <2>1 DEF Gone
<1>3. ASSUME On(V, s.on) = On(W, s.on) PROVE On(After(s, V), s.on) = On(After(s, W), s.on)
  <2>1. \A f : f \in V /\ f.on = s.on <=> f \in W /\ f.on = s.on
    BY <1>3 DEF On
  <2>2. \A f : f \in On(After(s, V), s.on) <=> f \in On(After(s, W), s.on)
    BY <1>2, <1>3, <2>1 DEF On, After
  <2> QED
    BY <2>2 DEF On
<1> QED
  BY <1>1, <1>2, <1>3

\* Nobody committed since the command began, or what was has been taken back: it
\* sees what it expects.
LEMMA SeesExpected ==
    ASSUME MigrationsIInv, NEW r \in running, version = start[r]
    PROVE  /\ View(r) = Expected(r)
           /\ start[r] < goal[r] => dropped[r] = {}
<1>1. /\ schema = SchemaAt(start[r]) /\ ChangesLocked(r) /\ InStep(r)
  BY DEF MigrationsIInv, MigrationsTyped
<1>2. ASSUME NEW f, f.on \in locked[r] PROVE f \in View(r) <=> f \in Expected(r)
  <2>1. On(View(r), f.on) = On(Expected(r), f.on)
    BY <1>1, <1>2 DEF InStep
  <2> QED
    BY <2>1 DEF On
<1>3. ASSUME NEW f, f.on \notin locked[r] PROVE f \in View(r) <=> f \in Expected(r)
  <2>1. f \in View(r) <=> f \in SchemaAt(start[r])
    BY <1>1, <1>3 DEF ChangesLocked, View
  <2>2. f \in Expected(r) <=> f \in SchemaAt(start[r])
    BY <1>1, <1>3 DEF InStep, Off
  <2> QED
    BY <2>1, <2>2
<1>4. View(r) = Expected(r)
  BY <1>2, <1>3
<1>5. ASSUME start[r] < goal[r], NEW f \in dropped[r] PROVE FALSE
  <2>1. f.on \in locked[r]
    BY <1>1, <1>5 DEF ChangesLocked
  <2>2. On(dropped[r], f.on) = {}
    BY <1>1, <1>5, <2>1 DEF InStep
  <2> QED
    BY <1>5, <2>2 DEF On
<1> QED
  BY <1>4, <1>5

----------------------------------------------------------------------------
(* The steps *)

\* A step leaves the command of q alone.
Spared(q) ==
    /\ at'[q] = at[q] /\ start'[q] = start[q] /\ goal'[q] = goal[q] /\ next'[q] = next[q]
    /\ added'[q] = added[q] /\ dropped'[q] = dropped[q] /\ locked'[q] = locked[q]
    /\ (q \in running') = (q \in running)

LEMMA SparedStays ==
    ASSUME MigrationsIInv, NEW q \in Runner, Spared(q),
           \A t \in locked[q] : On(schema', t) = On(schema, t)
    PROVE  /\ ChangesLocked(q)'
           /\ q \in running' => OnItsWay(q)' /\ InStep(q)'
           /\ Stamped(q)' = Stamped(q)
<1>1. ChangesLocked(q)'
  BY DEF MigrationsIInv, ChangesLocked, Spared
<1>2. /\ Following(q)' = Following(q) /\ Script(q)' = Script(q)
      /\ Expected(q)' = Expected(q)
  BY DEF Spared, Following, Script, Expected
<1>3. Stamped(q)' = Stamped(q)
  BY DEF Spared, Stamped
<1>4. ASSUME q \in running' PROVE OnItsWay(q)' /\ InStep(q)'
  <2>1. q \in running /\ OnItsWay(q) /\ InStep(q)
    BY <1>4 DEF MigrationsIInv, Spared
  <2>2. OnItsWay(q)'
    BY <1>2, <2>1 DEF OnItsWay, Spared
  <2>3. ASSUME NEW t \in locked[q] PROVE On(View(q)', t) = On(View(q), t)
    <3>1. On(schema', t) = On(schema, t)
      OBVIOUS
    <3>2. \A f : f \in On(schema', t) <=> f \in On(schema, t)
      BY <3>1
    <3> QED
      BY <3>2 DEF On, View, Spared
  <2>4. InStep(q)'
    <3>1. Off(Expected(q), locked[q])' = Off(SchemaAt(start[q]), locked[q])'
      BY <1>2, <2>1 DEF InStep, Spared
    <3>2. ASSUME NEW t \in locked'[q], On(schema', t) = On(SchemaAt(start'[q]), t)
          PROVE  /\ On(View(q)', t) = On(Expected(q)', t)
                 /\ start'[q] < goal'[q] => On(dropped'[q], t) = {}
      <4>1. t \in locked[q] /\ On(schema, t) = On(SchemaAt(start[q]), t)
        BY <3>2 DEF Spared
      <4> QED
        BY <1>2, <2>1, <2>3, <4>1 DEF InStep, Spared
    <3> QED
      BY <3>1, <3>2 DEF InStep
  <2> QED
    BY <2>2, <2>4
<1> QED
  BY <1>1, <1>3, <1>4

\* The end of a transaction, whatever becomes of its changes.
LEMMA EndOfTransaction ==
    ASSUME MigrationsIInv, NEW r \in Runner, Forget(r), ~broken',
           version' \in 0..Latest, schema' = SchemaAt(version'),
           \A q \in Runner \ {r} :
              /\ \A t \in locked[q] : On(schema', t) = On(schema, t)
              /\ Stamped(q) => version' = version
    PROVE  MigrationsIInv'
<1>1. ASSUME NEW q \in Runner \ {r} PROVE Spared(q)
  <2>1. /\ at'[q] = at[q] /\ start'[q] = start[q]
        /\ goal'[q] = goal[q] /\ next'[q] = next[q]
    BY DEF MigrationsIInv, MigrationsTyped, Forget
  <2>2. added'[q] = added[q] /\ dropped'[q] = dropped[q] /\ locked'[q] = locked[q]
    BY DEF MigrationsIInv, MigrationsTyped, Forget
  <2>3. q \in running' <=> q \in running
    BY DEF Forget
  <2> QED
    BY <2>1, <2>2, <2>3 DEF Spared
<1>2. \A q \in Runner \ {r} : /\ ChangesLocked(q)'
                              /\ q \in running' => OnItsWay(q)' /\ InStep(q)'
                              /\ Stamped(q)' = Stamped(q)
  BY <1>1, SparedStays
<1>3. /\ r \notin running' /\ ~Stamped(r)' /\ running' \subseteq Runner
      /\ added'[r] = {} /\ dropped'[r] = {} /\ locked'[r] = {}
  BY DEF MigrationsIInv, MigrationsTyped, Forget, Stamped
<1>4. MigrationsTyped'
  <2>1. 0 \in 0..Latest /\ 1 \in Nat \ {0}
    BY DEF Latest
  <2>2. running' \subseteq Runner /\ version' \in 0..Latest
    BY <1>3
  <2>3. /\ at' \in [Runner -> 0..Latest] /\ start' \in [Runner -> 0..Latest]
        /\ goal' \in [Runner -> 0..Latest] /\ next' \in [Runner -> Nat \ {0}]
    BY <2>1 DEF MigrationsIInv, MigrationsTyped, Forget
  <2>4. /\ DOMAIN added' = Runner /\ added' = [q \in Runner |-> added'[q]]
        /\ DOMAIN dropped' = Runner /\ dropped' = [q \in Runner |-> dropped'[q]]
        /\ DOMAIN locked' = Runner /\ locked' = [q \in Runner |-> locked'[q]]
    BY DEF MigrationsIInv, MigrationsTyped, Forget
  <2> QED
    BY <2>2, <2>3, <2>4 DEF MigrationsTyped
<1>5. LocksExclude'
  BY <1>1, <1>3 DEF MigrationsIInv, LocksExclude, Spared
<1>6. OneStamps'
  <2>1. \A q \in Runner : Stamped(q)' => q # r /\ Stamped(q)
    BY <1>2, <1>3
  <2>2. ASSUME NEW q \in Runner, Stamped(q)' PROVE version' = start'[q]
    BY <1>1, <2>1, <2>2 DEF MigrationsIInv, OneStamps, Spared
  <2>3. ASSUME NEW p \in Runner, NEW q \in Runner, Stamped(p)', Stamped(q)' PROVE p = q
    BY <2>1, <2>3 DEF MigrationsIInv, OneStamps
  <2> QED
    BY <2>2, <2>3 DEF OneStamps
<1>7. ChangesLocked(r)'
  BY <1>3 DEF ChangesLocked
<1> QED
  BY <1>2, <1>3, <1>4, <1>5, <1>6, <1>7 DEF MigrationsIInv

LEMMA AbortStep ==
    ASSUME MigrationsIInv, NEW r \in Runner, Abort(r), ~broken'
    PROVE  MigrationsIInv'
<1>1. schema' = schema /\ version' = version /\ Forget(r)
  BY DEF Abort
<1> QED
  BY <1>1, EndOfTransaction DEF MigrationsIInv, MigrationsTyped

LEMMA CommitStep ==
    ASSUME MigrationsIInv, NEW r \in Runner, Commit(r)
    PROVE  MigrationsIInv'
<1>1. /\ r \in running /\ at[r] = goal[r] /\ schema' = View(r) /\ version' = goal[r]
      /\ Forget(r) /\ ~broken'
  BY DEF Commit, MigrationsIInv
<1>2. Stamped(r) /\ version = start[r]
  BY <1>1 DEF MigrationsIInv, OneStamps, OnItsWay, Stamped
<1>3. schema' = SchemaAt(version') /\ version' \in 0..Latest
  <2>1. View(r) = Expected(r)
    BY <1>1, <1>2, SeesExpected
  <2> QED
    BY <1>1, <2>1 DEF Expected, MigrationsIInv, MigrationsTyped
<1>4. ASSUME NEW q \in Runner \ {r}
      PROVE  /\ \A t \in locked[q] : On(schema', t) = On(schema, t)
             /\ ~Stamped(q)
  <2>1. ~Stamped(q)
    BY <1>2 DEF MigrationsIInv, OneStamps
  <2>2. ASSUME NEW t \in locked[q] PROVE On(schema', t) = On(schema, t)
    <3>1. t \notin locked[r]
      BY DEF MigrationsIInv, LocksExclude
    <3>2. \A f \in added[r] \cup dropped[r] : f.on # t
      BY <3>1 DEF MigrationsIInv, ChangesLocked
    <3> QED
      BY <1>1, <3>2 DEF On, View
  <2> QED
    BY <2>1, <2>2
<1> QED
  BY <1>1, <1>3, <1>4, EndOfTransaction

LEMMA BeginStep ==
    ASSUME MigrationsIInv, ScriptsAlone, NEW r \in Runner, Begin(r)
    PROVE  MigrationsIInv'
<1>1. PICK g \in Goals \ {version} : goal' = [goal EXCEPT ![r] = g]
  BY DEF Begin
<1>2. /\ r \notin running /\ running' = running \cup {r}
      /\ at' = [at EXCEPT ![r] = version] /\ start' = [start EXCEPT ![r] = version]
      /\ next' = [next EXCEPT ![r] = 1]
      /\ UNCHANGED <<schema, version, added, dropped, locked, broken>>
  BY DEF Begin
<1>3. g \in 0..Latest /\ version \in 0..Latest /\ 1 \in Nat \ {0} /\ Latest \in Nat
  BY MigrationsAssumption DEF MigrationsAssumption, MigrationsIInv, MigrationsTyped, Latest
<1>4. MigrationsTyped'
  <2>1. /\ at' \in [Runner -> 0..Latest] /\ start' \in [Runner -> 0..Latest]
        /\ goal' \in [Runner -> 0..Latest] /\ next' \in [Runner -> Nat \ {0}]
    BY <1>1, <1>2, <1>3 DEF MigrationsIInv, MigrationsTyped
  <2> QED
    BY <1>2, <1>3, <2>1 DEF MigrationsIInv, MigrationsTyped
<1>5. ASSUME NEW q \in Runner \ {r} PROVE Spared(q)
  BY <1>1, <1>2 DEF MigrationsIInv, MigrationsTyped, Spared
<1>6. ASSUME NEW q \in Runner \ {r}
      PROVE  /\ ChangesLocked(q)'
             /\ q \in running' => OnItsWay(q)' /\ InStep(q)'
             /\ Stamped(q)' = Stamped(q)
  BY <1>2, <1>5, SparedStays
<1>7. /\ at'[r] = version /\ start'[r] = version /\ goal'[r] = g /\ next'[r] = 1
      /\ added'[r] = {} /\ dropped'[r] = {} /\ locked'[r] = {} /\ r \in running'
  BY <1>1, <1>2 DEF MigrationsIInv, MigrationsTyped, ChangesLocked
<1>8. /\ Script(r)' = Leading(version, Following(r)')
      /\ Following(r)' = IF g > version THEN version + 1 ELSE version - 1
  BY <1>7 DEF Script, Following
<1>9. /\ Following(r)' \in 0..Latest
      /\ version = Following(r)' + 1 \/ Following(r)' = version + 1
  BY <1>1, <1>3, <1>8
<1>10. Len(Script(r)') \in Nat
  BY <1>3, <1>8, <1>9, ScriptLength
<1>11. Views(Script(r)', SchemaAt(version))[1] = SchemaAt(version)
  BY <1>3, <1>8, <1>9 DEF ScriptsAlone
<1>12. OnItsWay(r)'
  BY <1>1, <1>3, <1>7, <1>10 DEF OnItsWay
<1>13. InStep(r)'
  BY <1>7, <1>11 DEF InStep, Expected
<1>14. ChangesLocked(r)'
  BY <1>7 DEF ChangesLocked
<1>15. LocksExclude'
  BY <1>2 DEF MigrationsIInv, LocksExclude
<1>16. OneStamps'
  <2>1. ~Stamped(r)'
    BY <1>7 DEF Stamped
  <2>2. \A q \in Runner : Stamped(q)' => q # r /\ Stamped(q)
    BY <1>6, <2>1
  <2>3. ASSUME NEW q \in Runner, Stamped(q)' PROVE version' = start'[q]
    BY <1>2, <1>5, <2>2, <2>3 DEF MigrationsIInv, OneStamps, Spared
  <2>4. ASSUME NEW p \in Runner, NEW q \in Runner, Stamped(p)', Stamped(q)' PROVE p = q
    BY <2>2, <2>4 DEF MigrationsIInv, OneStamps
  <2> QED
    BY <2>3, <2>4 DEF OneStamps
<1> QED
  <2>1. \A q \in Runner : ChangesLocked(q)'
    BY <1>6, <1>14
  <2>2. \A q \in running' : OnItsWay(q)' /\ InStep(q)'
    BY <1>4, <1>6, <1>12, <1>13 DEF MigrationsTyped
  <2>3. schema' = SchemaAt(version') /\ ~broken'
    BY <1>2 DEF MigrationsIInv
  <2> QED
    BY <1>4, <1>15, <1>16, <2>1, <2>2, <2>3 DEF MigrationsIInv

LEMMA StampStep ==
    ASSUME MigrationsIInv, ScriptsAlone, NEW r \in Runner, Stamp(r)
    PROVE  MigrationsIInv'
<1>1. CASE version # start[r]
  <2>1. Abort(r) /\ ~broken'
    BY <1>1 DEF Stamp, MigrationsIInv
  <2> QED
    BY <2>1, AbortStep
<1>2. CASE version = start[r]
  <2>1. /\ r \in running /\ at[r] # goal[r] /\ next[r] > Len(Script(r)) /\ Blockers(r) = {}
        /\ at' = [at EXCEPT ![r] = Following(r)] /\ next' = [next EXCEPT ![r] = 1]
        /\ UNCHANGED <<schema, version, running, start, goal, added, dropped, locked, broken>>
    BY <1>2 DEF Stamp
  <2>2. /\ OnItsWay(r) /\ InStep(r) /\ MigrationsTyped
        /\ at[r] \in 0..Latest /\ goal[r] \in 0..Latest /\ start[r] \in 0..Latest
        /\ next[r] \in Nat \ {0} /\ 1 \in Nat \ {0} /\ Latest \in Nat
    BY <2>1 DEF MigrationsIInv, MigrationsTyped, Latest
  <2>3. /\ Following(r) \in 0..Latest /\ Len(Script(r)) \in Nat
        /\ Views(Script(r), SchemaAt(at[r]))[Len(Script(r)) + 1] = SchemaAt(Following(r))
    BY <2>1, <2>2, NextStatement
  <2>4. next[r] = Len(Script(r)) + 1
    BY <2>1, <2>2, <2>3 DEF OnItsWay
  <2>5. Expected(r) = SchemaAt(Following(r))
    BY <2>1, <2>3, <2>4 DEF Expected
  <2>6. /\ at'[r] = Following(r) /\ next'[r] = 1
        /\ start'[r] = start[r] /\ goal'[r] = goal[r]
    BY <2>1, <2>2 DEF MigrationsTyped
  <2>7. MigrationsTyped'
    <3>1. at' \in [Runner -> 0..Latest] /\ next' \in [Runner -> Nat \ {0}]
      BY <2>1, <2>2, <2>3 DEF MigrationsTyped
    <3> QED
      BY <2>1, <2>2, <3>1 DEF MigrationsTyped
  <2>8. ASSUME NEW q \in Runner \ {r} PROVE Spared(q)
    BY <2>1, <2>2 DEF MigrationsTyped, Spared
  <2>9. ASSUME NEW q \in Runner \ {r}
        PROVE  /\ ChangesLocked(q)'
               /\ q \in running' => OnItsWay(q)' /\ InStep(q)'
               /\ Stamped(q)' = Stamped(q)
    BY <2>1, <2>8, SparedStays
  <2>10. Expected(r)' = Expected(r)
    <3>1. CASE at'[r] = goal'[r]
      BY <2>5, <2>6, <3>1 DEF Expected
    <3>2. CASE at'[r] # goal'[r]
      <4>1. /\ Script(r)' = Leading(at'[r], Following(r)')
            /\ Following(r)' = IF goal[r] > at'[r] THEN at'[r] + 1 ELSE at'[r] - 1
        BY <2>6 DEF Script, Following
      <4>2. /\ at'[r] \in 0..Latest /\ Following(r)' \in 0..Latest
            /\ at'[r] = Following(r)' + 1 \/ Following(r)' = at'[r] + 1
        BY <2>2, <2>3, <2>6, <3>2, <4>1
      <4>3. Views(Script(r)', SchemaAt(at'[r]))[1] = SchemaAt(at'[r])
        BY <4>1, <4>2 DEF ScriptsAlone
      <4> QED
        BY <2>5, <2>6, <3>2, <4>3 DEF Expected
    <3> QED
      BY <3>1, <3>2
  <2>11. OnItsWay(r)'
    <3>1. at'[r] # goal'[r] => Len(Script(r)') \in Nat
      <4> SUFFICES ASSUME at'[r] # goal'[r] PROVE Len(Script(r)') \in Nat
        OBVIOUS
      <4>1. /\ Script(r)' = Leading(at'[r], Following(r)')
            /\ Following(r)' = IF goal[r] > at'[r] THEN at'[r] + 1 ELSE at'[r] - 1
        BY <2>6 DEF Script, Following
      <4>2. /\ at'[r] \in 0..Latest /\ Following(r)' \in 0..Latest
            /\ at'[r] = Following(r)' + 1 \/ Following(r)' = at'[r] + 1
        BY <2>2, <2>3, <2>6, <4>1
      <4> QED
        BY <4>1, <4>2, ScriptLength
    <3>2. at'[r] # goal'[r] => next'[r] <= Len(Script(r)') + 1
      BY <2>6, <3>1
    <3>3. /\ goal'[r] # start'[r]
          /\ start'[r] < goal'[r] => start'[r] <= at'[r] /\ at'[r] <= goal'[r]
          /\ goal'[r] < start'[r] => goal'[r] <= at'[r] /\ at'[r] <= start'[r]
      BY <2>1, <2>2, <2>6 DEF OnItsWay, Following
    <3> QED
      BY <3>2, <3>3 DEF OnItsWay
  <2>12. InStep(r)'
    <3>1. View(r)' = View(r)
      BY <2>1 DEF View
    <3> QED
      BY <2>1, <2>2, <2>10, <3>1 DEF InStep
  <2>13. ChangesLocked(r)'
    BY <2>1 DEF MigrationsIInv, ChangesLocked
  <2>14. OneStamps'
    <3>1. \A q \in Runner \ {r} : ~Stamped(q)
      BY <2>1, <2>2, <2>3 DEF Blockers
    <3>2. \A q \in Runner \ {r} : ~Stamped(q)'
      BY <2>9, <3>1
    <3> QED
      BY <1>2, <2>1, <3>2 DEF OneStamps
  <2>15. LocksExclude' /\ schema' = SchemaAt(version') /\ ~broken'
    BY <2>1 DEF MigrationsIInv, LocksExclude
  <2> QED
    <3>1. \A q \in Runner : ChangesLocked(q)'
      BY <2>9, <2>13
    <3>2. \A q \in running' : OnItsWay(q)' /\ InStep(q)'
      BY <2>7, <2>9, <2>11, <2>12 DEF MigrationsTyped
    <3> QED
      BY <2>7, <2>14, <2>15, <3>1, <3>2 DEF MigrationsIInv
<1> QED
  BY <1>1, <1>2

LEMMA StatementStep ==
    ASSUME MigrationsIInv, ScriptsAlone, NEW r \in Runner, RunStatement(r)
    PROVE  MigrationsIInv'
<1> DEFINE s == Script(r)[next[r]]
<1>1. /\ r \in running /\ at[r] # goal[r] /\ next[r] <= Len(Script(r)) /\ Blockers(r) = {}
  BY DEF RunStatement
<1>2. /\ OnItsWay(r) /\ InStep(r) /\ ChangesLocked(r) /\ MigrationsTyped
      /\ next[r] \in Nat \ {0}
  BY <1>1 DEF MigrationsIInv, MigrationsTyped
<1>3. /\ Legal(s, Expected(r))
      /\ Views(Script(r), SchemaAt(at[r]))[next[r] + 1] = After(s, Expected(r))
      /\ \A f \in s.facts : f.on = s.on
      /\ start[r] < goal[r] => Gone(s, Expected(r)) \cap SchemaAt(start[r]) = {}
      /\ Len(Script(r)) \in Nat
  BY <1>1, <1>2, NextStatement
<1>4. CASE ~Legal(s, View(r)) \/ Refused(s)
  <2>1. Abort(r) /\ broken' = (broken \/ (version = start[r] /\ ~Refused(s)))
    BY <1>4 DEF RunStatement
  <2>2. version = start[r] => Legal(s, View(r))
    BY <1>1, <1>3, SeesExpected
  <2>3. ~broken'
    BY <1>4, <2>1, <2>2 DEF MigrationsIInv
  <2> QED
    BY <2>1, <2>3, AbortStep
<1>5. CASE Legal(s, View(r)) /\ ~Refused(s)
  <2> DEFINE gone == Gone(s, View(r))
  <2>1. /\ added' = [added EXCEPT ![r] = (@ \ gone) \cup s.facts]
        /\ dropped' = [dropped EXCEPT ![r] = @ \cup (gone \cap schema)]
        /\ locked' = [locked EXCEPT ![r] = @ \cup Locks(s, View(r))]
        /\ next' = [next EXCEPT ![r] = @ + 1]
        /\ UNCHANGED <<schema, version, running, at, start, goal, broken>>
    BY <1>5 DEF RunStatement
  <2> HIDE DEF s, gone
  <2>2. /\ added'[r] = (added[r] \ gone) \cup s.facts
        /\ dropped'[r] = dropped[r] \cup (gone \cap schema)
        /\ locked'[r] = locked[r] \cup Locks(s, View(r))
        /\ next'[r] = next[r] + 1
    BY <1>2, <2>1 DEF MigrationsTyped
  <2>3. s.on \in locked'[r] /\ \A f \in gone : f.on = s.on
    BY <2>2 DEF Locks, Gone, gone
  <2>4. MigrationsTyped'
    <3>1. next' \in [Runner -> Nat \ {0}]
      BY <1>2, <2>1 DEF MigrationsTyped
    <3>2. /\ DOMAIN added' = Runner /\ added' = [q \in Runner |-> added'[q]]
          /\ DOMAIN dropped' = Runner /\ dropped' = [q \in Runner |-> dropped'[q]]
          /\ DOMAIN locked' = Runner /\ locked' = [q \in Runner |-> locked'[q]]
      BY <1>2, <2>1 DEF MigrationsTyped
    <3> QED
      BY <1>2, <2>1, <3>1, <3>2 DEF MigrationsTyped
  <2>5. ASSUME NEW q \in Runner \ {r} PROVE Spared(q)
    BY <1>2, <2>1 DEF MigrationsTyped, Spared
  <2>6. ASSUME NEW q \in Runner \ {r}
        PROVE  /\ ChangesLocked(q)'
               /\ q \in running' => OnItsWay(q)' /\ InStep(q)'
               /\ Stamped(q)' = Stamped(q)
    BY <2>1, <2>5, SparedStays
  <2>7. LocksExclude'
    <3>1. ASSUME NEW q \in Runner \ {r} PROVE locked'[r] \cap locked'[q] = {}
      <4>1. locked[q] \cap Locks(s, View(r)) = {}
        <5>1. ~(next[r] > Len(Script(r)))
          BY <1>1, <1>2, <1>3
        <5>2. {p \in Runner \ {r} : locked[p] \cap Locks(s, View(r)) # {}} = {}
          BY <1>1, <5>1 DEF Blockers, s
        <5> QED
          BY <5>2
      <4>2. locked[q] \cap locked[r] = {}
        BY DEF MigrationsIInv, LocksExclude
      <4> QED
        BY <2>2, <2>5, <4>1, <4>2 DEF Spared
    <3>2. ASSUME NEW p \in Runner \ {r}, NEW q \in Runner \ {r}, p # q
          PROVE  locked'[p] \cap locked'[q] = {}
      BY <2>5, <3>2 DEF MigrationsIInv, LocksExclude, Spared
    <3> QED
      BY <3>1, <3>2 DEF LocksExclude
  <2>8. ChangesLocked(r)'
    <3>1. \A f \in added'[r] \cup dropped'[r] : f.on \in locked'[r]
      BY <1>2, <1>3, <2>2, <2>3 DEF ChangesLocked, s
    <3> QED
      BY <1>1, <2>1, <3>1 DEF ChangesLocked
  <2>9. View(r)' = After(s, View(r))
    BY <2>1, <2>2 DEF View, After, gone
  <2>10. Expected(r)' = After(s, Expected(r))
    <3>1. Script(r)' = Script(r) /\ Following(r)' = Following(r)
      BY <2>1 DEF Script, Following
    <3> QED
      BY <1>1, <1>3, <2>1, <2>2, <3>1 DEF Expected, s
  <2>11. OnItsWay(r)'
    <3>1. Script(r)' = Script(r)
      BY <2>1 DEF Script, Following
    <3>2. next'[r] <= Len(Script(r)') + 1
      BY <1>1, <1>2, <1>3, <2>2, <3>1
    <3> QED
      BY <1>2, <2>1, <3>2 DEF OnItsWay
  <2>12. InStep(r)'
    <3>1. /\ \A V, f : f.on # s.on => (f \in After(s, V) <=> f \in V)
          /\ \A V, W : On(V, s.on) = On(W, s.on) =>
                /\ On(After(s, V), s.on) = On(After(s, W), s.on)
                /\ Gone(s, V) = Gone(s, W)
      BY <1>3, StatementIsLocal DEF s
    <3>2. Off(Expected(r)', locked'[r]) = Off(SchemaAt(start[r]), locked'[r])
      <4>1. \A f : f.on \notin locked'[r] => (f \in Expected(r)' <=> f \in Expected(r))
        BY <2>3, <2>10, <3>1
      <4>2. \A f : f.on \notin locked[r] => (f \in Expected(r) <=> f \in SchemaAt(start[r]))
        BY <1>2 DEF InStep, Off
      <4>3. \A f : f.on \notin locked'[r] => f.on \notin locked[r]
        BY <2>2
      <4> QED
        BY <4>1, <4>2, <4>3 DEF Off
    <3>3. ASSUME NEW t \in locked'[r], On(schema, t) = On(SchemaAt(start[r]), t)
          PROVE  /\ On(View(r), t) = On(Expected(r), t)
                 /\ start[r] < goal[r] => On(dropped[r], t) = {}
      <4>1. CASE t \in locked[r]
        BY <1>2, <3>3, <4>1 DEF InStep
      <4>2. CASE t \notin locked[r]
        <5>1. \A f \in added[r] \cup dropped[r] : f.on # t
          BY <1>2, <4>2 DEF ChangesLocked
        <5>2. On(View(r), t) = On(schema, t)
          BY <5>1 DEF On, View
        <5>3. On(Expected(r), t) = On(SchemaAt(start[r]), t)
          <6>1. \A f : f.on \notin locked[r] =>
                         (f \in Expected(r) <=> f \in SchemaAt(start[r]))
            BY <1>2 DEF InStep, Off
          <6> QED
            BY <4>2, <6>1 DEF On
        <5> QED
          BY <3>3, <5>1, <5>2, <5>3 DEF On
      <4> QED
        BY <4>1, <4>2
    <3>4. ASSUME NEW t \in locked'[r], On(schema, t) = On(SchemaAt(start[r]), t)
          PROVE  /\ On(View(r)', t) = On(Expected(r)', t)
                 /\ start[r] < goal[r] => On(dropped'[r], t) = {}
      <4>1. CASE t # s.on
        <5>1. On(View(r)', t) = On(View(r), t) /\ On(Expected(r)', t) = On(Expected(r), t)
          BY <2>9, <2>10, <3>1, <4>1 DEF On
        <5>2. On(dropped'[r], t) = On(dropped[r], t)
          BY <2>2, <2>3, <4>1 DEF On
        <5> QED
          BY <3>3, <3>4, <5>1, <5>2
      <4>2. CASE t = s.on
        <5>1. On(View(r), s.on) = On(Expected(r), s.on)
          BY <3>3, <3>4, <4>2
        <5>2. On(View(r)', t) = On(Expected(r)', t) /\ gone = Gone(s, Expected(r))
          BY <2>9, <2>10, <3>1, <4>2, <5>1 DEF gone
        <5>3. ASSUME start[r] < goal[r] PROVE On(dropped'[r], t) = {}
          <6>1. On(dropped[r], t) = {}
            BY <3>3, <3>4, <5>3
          <6>2. gone \cap SchemaAt(start[r]) = {}
            BY <1>3, <5>2, <5>3 DEF s
          <6>3. \A f \in gone \cap schema : f \in SchemaAt(start[r])
            BY <2>3, <3>4, <4>2 DEF On
          <6> QED
            BY <2>2, <6>1, <6>2, <6>3 DEF On
        <5> QED
          BY <5>2, <5>3
      <4> QED
        BY <4>1, <4>2
    <3> QED
      BY <2>1, <3>2, <3>4 DEF InStep
  <2>13. OneStamps'
    <3>1. \A q \in Runner : Stamped(q)' = Stamped(q)
      BY <2>1 DEF Stamped
    <3> QED
      BY <2>1, <3>1 DEF MigrationsIInv, OneStamps
  <2> QED
    <3>1. \A q \in Runner : ChangesLocked(q)'
      BY <2>6, <2>8
    <3>2. \A q \in running' : OnItsWay(q)' /\ InStep(q)'
      BY <2>4, <2>6, <2>11, <2>12 DEF MigrationsTyped
    <3>3. schema' = SchemaAt(version') /\ ~broken'
      BY <2>1 DEF MigrationsIInv
    <3> QED
      BY <2>4, <2>7, <2>13, <3>1, <3>2, <3>3 DEF MigrationsIInv
<1> QED
  BY <1>4, <1>5

\* The programs between migrations change rows only.
LEMMA ProgramStep ==
    ASSUME MigrationsIInv, UNCHANGED <<schema, version, work, broken>>
    PROVE  MigrationsIInv'
<1>1. UNCHANGED <<schema, version, running, at, start, goal, next, added, dropped,
                  locked, broken>>
  BY DEF work
<1>2. /\ MigrationsTyped' /\ LocksExclude' /\ OneStamps'
      /\ schema' = SchemaAt(version') /\ ~broken'
  BY <1>1 DEF MigrationsIInv, MigrationsTyped, LocksExclude, OneStamps, Stamped
<1>3. ASSUME NEW q \in Runner
      PROVE  ChangesLocked(q)' /\ (q \in running' => OnItsWay(q)' /\ InStep(q)')
  <2>1. Spared(q)
    BY <1>1 DEF Spared
  <2> QED
    BY <1>1, <2>1, SparedStays
<1> QED
  BY <1>2, <1>3 DEF MigrationsIInv, MigrationsTyped

LEMMA MigrationsStart == MigrationsInit => MigrationsIInv
<1> SUFFICES ASSUME MigrationsInit PROVE MigrationsIInv
  OBVIOUS
<1>1. 0 \in 0..Latest /\ 1 \in Nat \ {0}
  BY DEF Latest
<1>2. MigrationsTyped
  BY <1>1 DEF MigrationsInit, MigrationsTyped
<1>3. LocksExclude /\ OneStamps /\ \A r \in Runner : ChangesLocked(r)
  BY DEF MigrationsInit, LocksExclude, OneStamps, Stamped, ChangesLocked
<1> QED
  BY <1>2, <1>3 DEF MigrationsInit, MigrationsIInv

LEMMA MigrationsStep ==
    ASSUME ScriptsAlone
    PROVE  MigrationsIInv /\ [MigrationsNext]_migrationVars => MigrationsIInv'
<1> SUFFICES ASSUME MigrationsIInv, [MigrationsNext]_migrationVars PROVE MigrationsIInv'
  OBVIOUS
<1>1. ASSUME NEW r \in Runner, Begin(r) PROVE MigrationsIInv'
  BY <1>1, BeginStep
<1>2. ASSUME NEW r \in Runner, RunStatement(r) PROVE MigrationsIInv'
  BY <1>2, StatementStep
<1>3. ASSUME NEW r \in Runner, Stamp(r) PROVE MigrationsIInv'
  BY <1>3, StampStep
<1>4. ASSUME NEW r \in Runner, Commit(r) PROVE MigrationsIInv'
  BY <1>4, CommitStep
<1>5. ASSUME NEW r \in Runner, BreakDeadlock(r) \/ Crash(r) PROVE MigrationsIInv'
  <2>1. Abort(r) /\ ~broken'
    BY <1>5 DEF BreakDeadlock, Crash, MigrationsIInv
  <2> QED
    BY <2>1, AbortStep
<1>6. CASE InsertTwin \/ UpdateRow
  <2>1. UNCHANGED <<schema, version, work, broken>>
    BY <1>6 DEF InsertTwin, UpdateRow
  <2> QED
    BY <2>1, ProgramStep
<1>7. CASE UNCHANGED migrationVars
  BY <1>7, ProgramStep DEF migrationVars
<1> QED
  BY <1>1, <1>2, <1>3, <1>4, <1>5, <1>6, <1>7 DEF MigrationsNext, RunnerStep

----------------------------------------------------------------------------
(* The theorems *)

LEMMA MigrationsInvariance ==
    ASSUME ScriptsAlone
    PROVE  MigrationsSpec => []MigrationsIInv
BY MigrationsStart, MigrationsStep, PTL DEF MigrationsSpec

\* 0001-0006: however many commands overlap, deadlock, crash or find rows in
\* their way, and whatever revisions they ask for, the committed schema is the
\* one the recorded revision stands for.
THEOREM RevisionTells ==
    ASSUME ScriptsAlone
    PROVE  MigrationsSpec => []RevisionTellsSchema
<1>1. MigrationsIInv => RevisionTellsSchema
  BY DEF MigrationsIInv, RevisionTellsSchema
<1> QED
  BY <1>1, MigrationsInvariance, PTL

\* models.py and 0004:28: no command, however it ends, leaves a tenant's table
\* without its policy or, at head, the programs without a column, if the six
\* revisions themselves do not.
THEOREM FitsTheApp ==
    ASSUME ScriptsAlone, RevisionsFit
    PROVE  MigrationsSpec => []SchemaFitsTheApp
<1>1. MigrationsIInv => SchemaFitsTheApp
  BY DEF MigrationsIInv, MigrationsTyped, RevisionsFit, SchemaFitsTheApp
<1> QED
  BY <1>1, MigrationsInvariance, PTL

\* No number of overlapping commands makes a script refuse its own statements:
\* what each finds changed under it, it either waits for or is stopped by.
THEOREM StatementsAccepted ==
    ASSUME ScriptsAlone
    PROVE  MigrationsSpec => []ScriptsApply
<1>1. MigrationsIInv => ScriptsApply
  BY DEF MigrationsIInv, ScriptsApply
<1> QED
  BY <1>1, MigrationsInvariance, PTL

\* env.py:58 for the two commands of two replicas of the migrations container:
\* no script refuses its own statements, and whoever waits waits for a command
\* that can go on, or in a cycle of two, which the database breaks.
THEOREM TwoCommandsGoThrough ==
    ASSUME ScriptsAlone, NEW a, NEW b, Runner \subseteq {a, b}
    PROVE  MigrationsSpec => []CommandsGoThrough
<1>1. ASSUME NEW r \in Runner, NEW q \in Blockers(r), Blockers(q) # {}
      PROVE  Deadlocked(r)
  <2>1. \A p : Blockers(p) \subseteq Runner \ {p}
    BY DEF Blockers
  <2>2. q \in Runner /\ q # r
    BY <2>1
  <2>3. PICK p \in Blockers(q) : TRUE
    BY <1>1
  <2>4. p \in Runner /\ p # q
    BY <2>1
  <2>5. p = r
    BY <1>1, <2>2, <2>4
  <2> QED
    BY <2>3, <2>5 DEF Deadlocked
<1>2. SomeRunnerMoves
  <2> SUFFICES ASSUME NEW r \in Runner, r \in running
               PROVE  \E q \in {r} \cup Blockers(r) : Blockers(q) = {} \/ Deadlocked(q)
    BY DEF SomeRunnerMoves
  <2>1. CASE Blockers(r) = {}
    BY <2>1
  <2>2. CASE Blockers(r) # {}
    <3>1. PICK q \in Blockers(r) : TRUE
      BY <2>2
    <3>2. Blockers(q) = {} \/ Deadlocked(r)
      BY <3>1, <1>1
    <3> QED
      BY <3>1, <3>2
  <2> QED
    BY <2>1, <2>2
<1>3. ScriptsApply => CommandsGoThrough
  BY <1>2 DEF CommandsGoThrough
<1> QED
  BY <1>3, StatementsAccepted, PTL

\* 0005:12: an upgrade, whatever ran beside it, loses no row and no value that a
\* program has written.
THEOREM UpgradesKeep ==
    ASSUME ScriptsAlone
    PROVE  MigrationsSpec => UpgradesKeepRows
<1>1. MigrationsIInv /\ [MigrationsNext]_migrationVars =>
        [version' >= version => twins \subseteq twins' /\ marks \subseteq marks']_migrationVars
  <2> SUFFICES ASSUME MigrationsIInv, [MigrationsNext]_migrationVars, version' >= version
               PROVE  twins \subseteq twins' /\ marks \subseteq marks'
    OBVIOUS
  <2>1. ASSUME NEW r \in Runner, Commit(r) PROVE twins' = twins /\ marks' = marks
    <3>1. /\ r \in running /\ at[r] = goal[r] /\ version' = goal[r]
          /\ twins' = {t \in twins : Fact("table", t, t, {}) \notin dropped[r]}
          /\ marks' = {m \in marks : Column(m[1], m[2]) \notin dropped[r]}
      BY <2>1 DEF Commit
    <3>2. goal[r] # start[r] /\ goal[r] \in 0..Latest /\ start[r] \in 0..Latest
      BY <3>1 DEF MigrationsIInv, MigrationsTyped, OnItsWay
    <3>3. version = start[r]
      BY <3>1, <3>2 DEF MigrationsIInv, OneStamps, Stamped
    <3>4. start[r] < goal[r]
      BY <3>1, <3>2, <3>3 DEF Latest
    <3>5. dropped[r] = {}
      BY <3>1, <3>3, <3>4, SeesExpected
    <3> QED
      BY <3>1, <3>5
  <2>2. ASSUME NEW r \in Runner, Begin(r) \/ RunStatement(r) \/ Stamp(r) \/ BreakDeadlock(r) \/ Crash(r)
        PROVE  twins' = twins /\ marks' = marks
    BY <2>2 DEF Begin, RunStatement, Stamp, BreakDeadlock, Crash, Abort, data
  <2>3. CASE InsertTwin \/ UpdateRow
    BY <2>3 DEF InsertTwin, UpdateRow
  <2>4. CASE UNCHANGED migrationVars
    BY <2>4 DEF migrationVars, data
  <2> QED
    BY <2>1, <2>2, <2>3, <2>4 DEF MigrationsNext, RunnerStep
<1> QED
  BY <1>1, MigrationsInvariance, PTL DEF MigrationsSpec, UpgradesKeepRows
=============================================================================
