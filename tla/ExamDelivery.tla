---------------------------- MODULE ExamDelivery ----------------------------
(***************************************************************************)
(* What the portal promises about the delivery of an exam object that      *)
(* changes, whatever calls are lost or cross a change, and however often   *)
(* the portal restarts: the object a project has never gives way to an     *)
(* older one, it is never one that was not wanted, and the portal never    *)
(* notes that an agent has a later one than it has.  ExamSync implements   *)
(* it.                                                                     *)
(***************************************************************************)
CONSTANTS
    Projects,
    Versions,  \* the exam objects, and None
    None,      \* no exam object
    Order      \* <<a, b>> \in Order: b may have been wanted after a, or is a

VARIABLES
    wanted,    \* what the portal wants the agents to have
    has,       \* what each project has on its agent
    noted      \* what the portal notes of the agents that took what they were told

vars == <<wanted, has, noted>>

Init ==
    /\ wanted \in Versions \ {None}
    /\ has = [p \in Projects |-> None]
    /\ noted = [p \in {} |-> None]

\* The clock starts, or the instructor edits the exam.
Change ==
    /\ \E v \in Versions \ {None} : <<wanted, v>> \in Order /\ wanted' = v
    /\ UNCHANGED has

\* A creation or a call brings the agent of the project what it has or a later one.
Deliver(p) ==
    /\ \E v \in Versions :
          /\ <<has[p], v>> \in Order /\ <<v, wanted>> \in Order
          /\ has' = [has EXCEPT ![p] = v]
    /\ UNCHANGED wanted

\* The project is closed, or not the exam's any more.
Drop(p) ==
    /\ has' = [has EXCEPT ![p] = None]
    /\ UNCHANGED wanted

\* With each of them, or alone, the portal may note what came of its calls, or
\* forget it: a restart reads older notes back.
Note == UNCHANGED <<wanted, has>>

Notes ==
    /\ DOMAIN noted' \subseteq Projects
    /\ noted' \in [DOMAIN noted' -> Versions]
    /\ \A p \in DOMAIN noted' : <<noted'[p], has'[p]>> \in Order

Next ==
    /\ Note \/ Change \/ \E p \in Projects : Deliver(p) \/ Drop(p)
    /\ Notes

Spec == Init /\ [][Next]_vars
=============================================================================
