------------------------------ MODULE MCChatData ------------------------------
(***************************************************************************)
(* ChatData with three turns of one session, or two of one and one of      *)
(* another.  Turns and sessions are interchangeable, so every other way to *)
(* assign sessions to turns is a renaming of these two.                    *)
(***************************************************************************)
EXTENDS ChatData

CONSTANTS t3, s1, s2

MCInit ==
    /\ Init
    /\ session \in {[t \in Turn |-> s1],
                    [t \in Turn |-> IF t = t3 THEN s2 ELSE s1]}

MCSpec == MCInit /\ [][Next]_vars /\ Fairness
=============================================================================
