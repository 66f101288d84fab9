---------------------------- MODULE MCTurnAndSchema ----------------------------
(***************************************************************************)
(* The turn of MCAgentTurn and, in the behaviours whose message is blank,  *)
(* the commands of alembic that follow it: two runners, from every         *)
(* revision, for upgrade head, downgrade base and the revision half-way    *)
(* that 0004 leads to.  The two share no state.                            *)
(***************************************************************************)
EXTENDS MCAgentTurn, SchemaMigrations

Blank == [source |-> "blank"]

MCInit == Init /\ MigrationsInit

\* Bound: a turn on any other message is not run again for every revision.
OnceAtHead == verdict' = Blank \/ version = Latest

MCNext ==
    \/ Next /\ OnceAtHead /\ UNCHANGED migrationVars
    \/ Finished /\ verdict = Blank /\ MigrationsNext /\ UNCHANGED vars

MCSpec == MCInit /\ [][MCNext]_<<vars, migrationVars>> /\ WF_vars(Next)
================================================================================
