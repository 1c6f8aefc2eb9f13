------------------------------ MODULE ExamSync ------------------------------
(***************************************************************************)
(* The exam of one student between the portal and the agents: what the     *)
(* portal records of the student's projects and keeps telling their agents *)
(* until each one holds the exam object of the student's clock             *)
(* (src/sreweb/portal: examprojects.py, the records of exams.py, the exam  *)
(* routes; src/sreweb/agent/app.py: the creation of a project, exam_put,   *)
(* exam_delete).                                                           *)
(*                                                                         *)
(* The portal is one asyncio loop: an action is what runs between two      *)
(* awaits, and the awaits that matter are the calls to the agents.  The    *)
(* exam object is what exam_payload makes of the exam, as far as two of    *)
(* them differ: whether the clock started, and the edits.                  *)
(***************************************************************************)
EXTENDS Naturals, FiniteSets

CONSTANTS
    Labs,           \* the labs an instructor may give the student
    Passes,         \* the coroutines that may be inside sync_member at once
    None,           \* no project, no exam object
    MaxStarts,      \* bound: projects of one lab in a behaviour
    MaxProjects,    \* bound: projects in a behaviour
    MaxEdits,       \* bound: changes of the exam object by the instructor
    MaxRestarts,    \* bound: restarts of the portal
    ListsCreating,  \* whether a listing shows a project whose sre start runs
    ListsMiss,      \* whether the list of a student's projects may miss one: its host does
                    \* not answer, its start is not listed yet, or the list comes late
    LabsReturn,     \* whether a lab may come back before its orphan is released
    StopsFail       \* whether sre stop may fail

\* The n-th project of a lab.
Projects == Labs \X (1..MaxStarts)

Objects == [started: BOOLEAN, edit: 0..MaxEdits]

ASSUME SyncAssumption ==
    /\ Labs # {} /\ None \notin Objects /\ None \notin Projects
    /\ {MaxStarts, MaxProjects} \subseteq Nat \ {0} /\ MaxEdits \in Nat /\ MaxRestarts \in Nat
    /\ {ListsCreating, ListsMiss, LabsReturn, StopsFail} \subseteq BOOLEAN

VARIABLES
    labs,      \* the labs of the student (Exam.labs_of)
    opened,    \* the start of the exam (start_after) passed, or it has none
    started,   \* the clock of the student started (Member.started_at)
    edit,      \* how often the instructor changed the object
    record,    \* Member.projects: the project of each lab
    synced,    \* what the record of a project says its agent was told
    orphans,   \* Member.orphans
    stored,    \* the last two in the database
    resting,   \* the projects whose retry_at is not reached
    at,        \* where each pass is
    payload,   \* the object it sends
    target,    \* the project it calls about
    todo,      \* what is left of its loop
    dropped,   \* those of them whose record left Member.projects meanwhile
    agent,     \* the state of each project on its agent
    held,      \* its exam object there
    born,      \* the object the request of its creation carried, until it ended
    known,     \* history: the projects seen and recorded once their start had ended
    overlooked,
               \* history: the projects whose record another one of the lab has taken
    accepted,  \* history: the projects whose agent took the last object sent to it
    restarts

memberVars == <<labs, opened, started, edit>>
recordVars == <<record, synced, stored, orphans, known, overlooked>>
passVars == <<resting, at, payload, target, todo, dropped>>
agentVars == <<agent, held, born, accepted>>
vars == <<labs, opened, started, edit, record, synced, stored, orphans, known, overlooked, resting,
          at, payload, target, todo, dropped, agent, held, born, accepted, restarts>>

AgentStates == {"absent", "creating", "managed", "closing", "gone", "failed"}

-----------------------------------------------------------------------------
\* The exam object the portal wants on the agents now (exam_payload, `wanted`).
Wanted == [started |-> started, edit |-> edit]

Recorded == {record[l] : l \in Labs} \ {None}

\* Exam.may_start on the records of `now`.
MayStart(now) == opened /\ ~started /\ \A l \in labs : now[l] # None

Quiet == \A k \in Passes : at[k] = "off"

\* No call is under way, and no agent is to be called.
Settled == Quiet /\ orphans = {} /\ \A p \in Recorded : synced[p] = Wanted

\* The records of `gone` leave Member.projects while passes hold them: what a
\* pass has still to do with them it does, and what it notes is lost.
Forgotten(gone) ==
    LET done(k) == {p \in (gone \cap todo[k]) \ dropped[k] : synced[p] = payload[k]}
    IN  /\ todo' = [k \in Passes |-> todo[k] \ done(k)]
        /\ dropped' = [k \in Passes |->
               IF at[k] \in {"put", "told"}
               THEN dropped[k] \cup ((gone \cap (todo[k] \cup {target[k]})) \ done(k))
               ELSE {}]

-----------------------------------------------------------------------------
\* The instructor and the clock.

\* Exams.update, end_now, adjust: the exam object changes, and the exam is written
\* or the student's record (those for the students given).  Bound: MaxEdits.
Edit ==
    /\ edit < MaxEdits
    /\ edit' = edit + 1
    /\ stored' \in {stored, <<synced, orphans>>}
    /\ UNCHANGED <<labs, opened, started, record, synced, orphans, known, overlooked, passVars,
                   agentVars, restarts>>

\* The start of the exam comes.
StartComes ==
    /\ ~opened
    /\ opened' = TRUE
    /\ UNCHANGED <<labs, started, edit, recordVars, passVars, agentVars, restarts>>

\* Exams.tick: the projects were ready before the start.
ClockStarts ==
    /\ MayStart(record)
    /\ started' = TRUE
    /\ stored' = <<synced, orphans>>
    /\ UNCHANGED <<labs, opened, edit, record, synced, orphans, known, overlooked, passVars,
                   agentVars, restarts>>

\* Bound: unless LabsReturn, an orphan is released, in the database too, before
\* its lab is given back.
MayBecome(new) == LabsReturn \/ \A p \in orphans \cup stored[2] : p[1] \notin new

\* Exams.set_labs: the labs of the student are `new`, and the projects of the
\* labs that left become orphans.
LabsBecome(new) ==
    LET lost == {l \in Labs \ new : record[l] # None}
    IN  /\ MayBecome(new)
        /\ labs' = new
        /\ record' = [l \in Labs |-> IF l \in lost THEN None ELSE record[l]]
        /\ orphans' = orphans \cup {record[l] : l \in lost}
        /\ Forgotten({record[l] : l \in lost})
        /\ synced' = [p \in Projects |-> IF record'[p[1]] = p THEN synced[p] ELSE None]
        /\ stored' = <<synced', orphans'>>
        /\ UNCHANGED <<opened, started, edit, known, overlooked, resting, at, payload, target,
                       agentVars, restarts>>

\* Seeded fault: a student may be left without a lab.
SetLabsAny(new) == LabsBecome(new)

SetLabs(new) == new # {} /\ LabsBecome(new)

\* Exams.update with other labs: the records stay as they are.
UpdateLabs(new) ==
    /\ new \notin {{}, labs}
    /\ MayBecome(new)
    /\ labs' = new
    /\ UNCHANGED <<opened, started, edit, recordVars, passVars, agentVars, restarts>>

\* Exams.observe on a row of a project, listed now or a moment ago (unless
\* ListsMiss, before the next project of the lab): a project of the lab other than
\* the recorded one takes its record, and makes no orphan of it; the clock may start.
Observe(p) ==
    LET l == p[1]
        now == [record EXCEPT ![l] = p]
        fresh == record[l] # p
    IN  /\ l \in labs
        /\ agent[p] \in {"managed", "closing", "gone"} \cup
                        (IF ListsCreating THEN {"creating"} ELSE {})
        /\ ListsMiss \/ \A n \in p[2] + 1..MaxStarts : agent[<<l, n>>] = "absent"
        /\ fresh \/ MayStart(now)
        /\ record' = now
        /\ synced' = [q \in Projects |-> IF q[1] = l /\ fresh THEN None ELSE synced[q]]
        /\ stored' = <<synced', orphans>>
        /\ known' = IF agent[p] = "creating" THEN known ELSE known \cup {p}
        /\ overlooked' = (overlooked \cup ({record[l]} \ {None})) \ {p}
        /\ started' = (started \/ MayStart(now))
        /\ IF fresh /\ record[l] # None THEN Forgotten({record[l]})
                                        ELSE UNCHANGED <<todo, dropped>>
        /\ UNCHANGED <<labs, opened, edit, orphans, resting, at, payload, target, agentVars,
                       restarts>>

-----------------------------------------------------------------------------
(***************************************************************************)
(* ExamProjects.sync_member.  The object is made once, at the start; then  *)
(* come the records, then the orphans, one call after the other.           *)
(***************************************************************************)

\* The pass is over.
Breaks(k) ==
    /\ at' = [at EXCEPT ![k] = "off"]
    /\ target' = [target EXCEPT ![k] = None]
    /\ todo' = [todo EXCEPT ![k] = {}]
    /\ dropped' = [dropped EXCEPT ![k] = {}]
    /\ payload' = [payload EXCEPT ![k] = None]

\* The pass goes to its next record of `rest` that is to be told `object`, then
\* to the orphans of `left`; at its end it writes what it noted.
Proceed(k, object, rest, left) ==
    LET due == {p \in rest : (p \in dropped[k] \/ synced'[p] # object) /\ p \notin resting'}
    IN  \/ \E p \in due :
             /\ at' = [at EXCEPT ![k] = "put"]
             /\ target' = [target EXCEPT ![k] = p]
             /\ todo' = [todo EXCEPT ![k] = rest \ {p}]
             /\ dropped' = [dropped EXCEPT ![k] = @ \cap rest]
             /\ payload' = [payload EXCEPT ![k] = object]
             /\ stored' = stored
        \/ /\ due = {}
           /\ \E p \in left :
                 /\ at' = [at EXCEPT ![k] = "drop"]
                 /\ target' = [target EXCEPT ![k] = p]
                 /\ todo' = [todo EXCEPT ![k] = left \ {p}]
           /\ dropped' = [dropped EXCEPT ![k] = {}]
           /\ payload' = [payload EXCEPT ![k] = None]
           /\ stored' = stored
        \/ /\ due = {}
           /\ left = {}
           /\ Breaks(k)
           /\ stored' = <<synced', orphans'>>

\* A route that changed something, or the reconcile hook of the tick.
PassStarts(k) ==
    /\ at[k] = "off"
    /\ \/ \E p \in Recorded : synced[p] # Wanted /\ p \notin resting
       \/ orphans # {}
    /\ UNCHANGED <<memberVars, record, synced, orphans, known, overlooked, resting, agentVars,
                   restarts>>
    /\ Proceed(k, Wanted, Recorded, orphans)

\* exam_put on the agent: 404 for a project it does not have or is closing, 409
\* for one it does not manage.
PutArrives(k) ==
    /\ at[k] = "put"
    /\ at' = [at EXCEPT ![k] = "told"]
    /\ LET p == target[k]
       IN  IF agent[p] = "managed"
           THEN /\ held' = [held EXCEPT ![p] = payload[k]]
                /\ accepted' = accepted \cup {p}
           ELSE /\ accepted' = accepted \ {p}
                /\ UNCHANGED held
    /\ UNCHANGED <<memberVars, recordVars, resting, payload, target, todo, dropped, agent, born,
                   restarts>>

\* Seeded fault: the record notes what the portal wants by then.
PutAnsweredNow(k) ==
    /\ at[k] = "told"
    /\ synced' = IF target[k] \in dropped[k] THEN synced
                                             ELSE [synced EXCEPT ![target[k]] = Wanted]
    /\ UNCHANGED <<memberVars, record, orphans, known, overlooked, resting, agentVars, restarts>>
    /\ Proceed(k, payload[k], todo[k], orphans)

\* Seeded fault: the pass goes through the records there are by then.
PutAnsweredLive(k) ==
    /\ at[k] = "told"
    /\ synced' = IF target[k] \in dropped[k] THEN synced
                                             ELSE [synced EXCEPT ![target[k]] = payload[k]]
    /\ UNCHANGED <<memberVars, record, orphans, known, overlooked, resting, agentVars, restarts>>
    /\ Proceed(k, payload[k], Recorded, orphans)

\* An answer, whatever it is.
PutAnswered(k) ==
    /\ at[k] = "told"
    /\ synced' = IF target[k] \in dropped[k] THEN synced
                                             ELSE [synced EXCEPT ![target[k]] = payload[k]]
    /\ UNCHANGED <<memberVars, record, orphans, known, overlooked, resting, agentVars, restarts>>
    /\ Proceed(k, payload[k], todo[k], orphans)

\* No answer, or a failure of the agent: tried again after RETRY_DELAY.  The
\* request was lost ("put") or its answer ("told").
PutLost(k) ==
    /\ at[k] \in {"put", "told"}
    /\ resting' = resting \cup {target[k]}
    /\ UNCHANGED <<memberVars, record, synced, orphans, known, overlooked, agentVars, restarts>>
    /\ Proceed(k, payload[k], todo[k], orphans)

\* Seeded fault: a project that rests is never tried again.
RetryComesNever(p) == p \in resting /\ UNCHANGED vars

RetryComes(p) ==
    /\ p \in resting
    /\ resting' = resting \ {p}
    /\ UNCHANGED <<memberVars, recordVars, at, payload, target, todo, dropped, agentVars,
                   restarts>>

\* exam_delete on the agent: 404 for a project it does not have or is closing.
DropArrives(k) ==
    /\ at[k] = "drop"
    /\ at' = [at EXCEPT ![k] = "bare"]
    /\ held' = IF agent[target[k]] \in {"creating", "managed"}
               THEN [held EXCEPT ![target[k]] = None] ELSE held
    /\ UNCHANGED <<memberVars, recordVars, resting, payload, target, todo, dropped, agent, born,
                   accepted, restarts>>

\* Seeded fault: the orphan stays.
DropAnsweredKept(k) ==
    /\ at[k] = "bare"
    /\ UNCHANGED <<memberVars, record, synced, orphans, known, overlooked, resting, agentVars,
                   restarts>>
    /\ Proceed(k, None, {}, todo[k])

\* The orphan is forgotten; one another pass forgot already raises ValueError,
\* and this pass ends there.
DropAnswered(k) ==
    /\ at[k] = "bare"
    /\ orphans' = orphans \ {target[k]}
    /\ UNCHANGED <<memberVars, record, synced, known, overlooked, resting, agentVars, restarts>>
    /\ IF target[k] \in orphans THEN Proceed(k, None, {}, todo[k])
                                ELSE Breaks(k) /\ UNCHANGED stored

\* Seeded fault: an orphan whose agent did not answer is forgotten too.
DropLostForgotten(k) ==
    /\ at[k] \in {"drop", "bare"}
    /\ orphans' = orphans \ {target[k]}
    /\ UNCHANGED <<memberVars, record, synced, known, overlooked, resting, agentVars, restarts>>
    /\ Proceed(k, None, {}, todo[k])

\* It stays for the next pass.
DropLost(k) ==
    /\ at[k] \in {"drop", "bare"}
    /\ UNCHANGED <<memberVars, record, synced, orphans, known, overlooked, resting, agentVars,
                   restarts>>
    /\ Proceed(k, None, {}, todo[k])

-----------------------------------------------------------------------------
\* The projects on their agents.

\* The student starts the next project of a lab (projects_create): not while the
\* list of their projects has one of that lab, which is of the hosts that answer
\* (Pool.projects_of); the request carries the exam object of that moment.
Create(p) ==
    /\ p[1] \in labs
    /\ agent[p] = "absent"
    /\ \A n \in 1..(p[2] - 1) :
          agent[<<p[1], n>>] \in {"gone", "failed"}
                                \cup (IF ListsMiss THEN AgentStates \ {"absent"} ELSE {})
    /\ Cardinality({q \in Projects : agent[q] # "absent"}) < MaxProjects
    /\ agent' = [agent EXCEPT ![p] = "creating"]
    /\ born' = [born EXCEPT ![p] = Wanted]
    /\ UNCHANGED <<memberVars, recordVars, passVars, held, accepted, restarts>>

\* sre start ended: the project is adopted with the exam of its creation.
Adopt(p) ==
    /\ agent[p] = "creating"
    /\ agent' = [agent EXCEPT ![p] = "managed"]
    /\ held' = [held EXCEPT ![p] = born[p]]
    /\ born' = [born EXCEPT ![p] = None]
    /\ UNCHANGED <<memberVars, recordVars, passVars, accepted, restarts>>

StartFails(p) ==
    /\ agent[p] = "creating"
    /\ agent' = [agent EXCEPT ![p] = "failed"]
    /\ born' = [born EXCEPT ![p] = None]
    /\ UNCHANGED <<memberVars, recordVars, passVars, held, accepted, restarts>>

\* An instructor closes it.
CloseAsked(p) ==
    /\ agent[p] = "managed"
    /\ agent' = [agent EXCEPT ![p] = "closing"]
    /\ UNCHANGED <<memberVars, recordVars, passVars, held, born, accepted, restarts>>

CloseEnds(p) ==
    /\ agent[p] = "closing"
    /\ \/ /\ agent' = [agent EXCEPT ![p] = "gone"]
          /\ held' = [held EXCEPT ![p] = None]
          /\ accepted' = accepted \ {p}
       \/ /\ StopsFail
          /\ agent' = [agent EXCEPT ![p] = "managed"]
          /\ UNCHANGED <<held, accepted>>
    /\ UNCHANGED <<memberVars, recordVars, passVars, born, restarts>>

-----------------------------------------------------------------------------
\* The portal dies and comes back with what the database holds.  Every other
\* change of the student's record is written with its operation (the database
\* answers); what a pass noted is written when the pass ends.
Restart ==
    /\ restarts < MaxRestarts
    /\ restarts' = restarts + 1
    /\ synced' = stored[1]
    /\ orphans' = stored[2]
    /\ resting' = {}
    /\ at' = [k \in Passes |-> "off"]
    /\ payload' = [k \in Passes |-> None]
    /\ target' = [k \in Passes |-> None]
    /\ todo' = [k \in Passes |-> {}]
    /\ dropped' = [k \in Passes |-> {}]
    /\ UNCHANGED <<memberVars, record, stored, known, overlooked, agentVars>>

Init ==
    /\ labs = Labs
    /\ opened \in BOOLEAN
    /\ started = FALSE
    /\ edit = 0
    /\ record = [l \in Labs |-> None]
    /\ synced = [p \in Projects |-> None]
    /\ orphans = {}
    /\ stored = <<synced, orphans>>
    /\ resting = {}
    /\ at = [k \in Passes |-> "off"]
    /\ payload = [k \in Passes |-> None]
    /\ target = [k \in Passes |-> None]
    /\ todo = [k \in Passes |-> {}]
    /\ dropped = [k \in Passes |-> {}]
    /\ agent = [p \in Projects |-> "absent"]
    /\ held = [p \in Projects |-> None]
    /\ born = [p \in Projects |-> None]
    /\ known = {}
    /\ overlooked = {}
    /\ accepted = {}
    /\ restarts = 0

Next ==
    \/ Edit \/ StartComes \/ ClockStarts \/ Restart
    \/ \E new \in SUBSET Labs : SetLabs(new) \/ UpdateLabs(new)
    \/ \E p \in Projects :
          \/ Observe(p) \/ RetryComes(p)
          \/ Create(p) \/ Adopt(p) \/ StartFails(p) \/ CloseAsked(p) \/ CloseEnds(p)
    \/ \E k \in Passes :
          \/ PassStarts(k)
          \/ PutArrives(k) \/ PutAnswered(k) \/ PutLost(k)
          \/ DropArrives(k) \/ DropAnswered(k) \/ DropLost(k)

Spec == Init /\ [][Next]_vars

-----------------------------------------------------------------------------
\* Every variable keeps the shape the code gives it.
TypeOK ==
    /\ labs \in (SUBSET Labs) \ {{}}
    /\ {opened, started} \subseteq BOOLEAN
    /\ edit \in 0..MaxEdits
    /\ record \in [Labs -> Projects \cup {None}]
    /\ \A l \in Labs : record[l] # None => record[l][1] = l
    /\ {synced, stored[1], held, born} \subseteq [Projects -> Objects \cup {None}]
    /\ orphans \cup stored[2] \subseteq Projects
    /\ resting \subseteq Projects
    /\ at \in [Passes -> {"off", "put", "told", "drop", "bare"}]
    /\ payload \in [Passes -> Objects \cup {None}]
    /\ target \in [Passes -> Projects \cup {None}]
    /\ todo \in [Passes -> SUBSET Projects]
    /\ dropped \in [Passes -> SUBSET Projects]
    /\ agent \in [Projects -> AgentStates]
    /\ known \cup overlooked \cup accepted \subseteq Projects
    /\ restarts \in 0..MaxRestarts

\* What the portal has noted as told is what the agent holds: when no call is
\* under way, an agent whose record is up to date has the exam object of the
\* student (web.md: the portal updates the object "every 5 s until the agent
\* has it"; here, ExamProjects.sync_member notes any answer below 500).
ToldIsHeld ==
    Quiet => \A p \in Recorded :
        agent[p] = "managed" /\ synced[p] = Wanted => held[p] = Wanted

\* The same of the agents that took the last object sent to them: neither a
\* change during a call, nor a lost call or answer, nor a restart of the portal,
\* nor a project replaced meanwhile leaves one behind its record.
AcceptedIsHeld ==
    Quiet => \A p \in Recorded \cap accepted :
        agent[p] = "managed" /\ synced[p] = Wanted => held[p] = Wanted

\* `a` is the object `b` or one the portal wanted before it, or none.
AtMost(a, b) ==
    \/ a = None
    \/ b # None /\ a.edit <= b.edit /\ (a.started => b.started)

NoteValues == Objects \cup {None}

Order == {pair \in NoteValues \X NoteValues : AtMost(pair[1], pair[2])}

\* What the portal wants, the agents have and the portal notes: what ExamDelivery
\* speaks of.
Delivery == INSTANCE ExamDelivery
    WITH Versions <- NoteValues,
         wanted <- Wanted,
         has <- held,
         noted <- [p \in accepted |-> synced[p]]

\* The delivery of the object keeps the promise of ExamDelivery: no agent goes back
\* to an older object, however creations, passes, changes, losses and restarts cross
\* (examprojects.py: "The agents of the student's exam projects told their exam
\* object when it changed"; the object is made once, for the records of that moment).
DeliveryHolds == Delivery!Spec

\* A project of a lab that is not the student's any more, and whose record left with
\* the lab, is a plain project once the portal has nothing left to do with it
\* (examprojects.py: "the orphans told to drop theirs"), whatever answers were lost
\* and whichever project of the lab the record was of before.
DroppedIsPlain ==
    Quiet => \A p \in known \ (Recorded \cup orphans \cup overlooked) :
        agent[p] = "managed" /\ p[1] \notin labs => held[p] = None

\* The same of every project whose record left, one that another project of its lab
\* took included (web.md: the portal "drops it with `DELETE .../exam` when [...] the
\* lab is no longer the student's"; here, Exams.observe makes no orphan).
UnrecordedIsPlain ==
    Quiet => \A p \in known \ (Recorded \cup orphans) :
        agent[p] = "managed" /\ p[1] \notin labs => held[p] = None

\* The same of every project the portal saw, however its lab left (web.md: the
\* portal "drops it with `DELETE .../exam` when [...] the lab is no longer the
\* student's"; here, Exams.update and Exams.set_labs).
LabGoneIsPlain ==
    Settled => \A p \in known :
        agent[p] = "managed" /\ p[1] \notin labs => held[p] = None

-----------------------------------------------------------------------------
\* Fairness: the reconcile hook runs again and again, a call ends, the delay of
\* a retry passes, and an agent asked again and again answers.
Fairness ==
    /\ \A k \in Passes : WF_vars(PassStarts(k))
    /\ \A k \in Passes, p \in Projects :
          /\ SF_vars(target[k] = p /\ PutArrives(k))
          /\ SF_vars(target[k] = p /\ PutAnswered(k))
          /\ SF_vars(target[k] = p /\ DropArrives(k))
          /\ SF_vars(target[k] = p /\ DropAnswered(k))
    /\ \A p \in Projects : WF_vars(RetryComes(p))

FairSpec == Spec /\ Fairness

\* A change reaches the agent of every recorded project in the end, whatever
\* calls were lost, unless the project is closed or replaced, or its lab goes.
ChangeArrives ==
    \A p \in Projects :
        (p \in Recorded /\ agent[p] = "managed")
            ~> (p \notin Recorded \/ agent[p] # "managed" \/ held[p] = Wanted)

\* An orphan is released in the end.
OrphansEnd == \A p \in Projects : p \in orphans ~> p \notin orphans
=============================================================================
