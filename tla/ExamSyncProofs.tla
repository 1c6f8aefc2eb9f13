--------------------------- MODULE ExamSyncProofs ---------------------------
(***************************************************************************)
(* What the agents hold of the exam of a student, for any labs, projects    *)
(* and bounds, as long as one pass at a time calls about the student and a  *)
(* lab is not given back before its orphan is released.                     *)
(*                                                                          *)
(* The exam object only grows: an edit adds to it, and the clock starts     *)
(* once.  What is noted of an agent that took the last object sent to it    *)
(* is at most what the agent holds, and that is at most what the portal     *)
(* wants (HeldInv), so that they are the same once the note is up to date.  *)
(*                                                                          *)
(* Nor does an agent go back to an older object: what it holds, or is       *)
(* about to adopt, is no later than what the pass under way tells it        *)
(* (HoldInv), because the pass only calls about projects that were there    *)
(* when its object was made.                                                *)
(*                                                                          *)
(* Where the agents show no project that is still starting, and no stop     *)
(* fails, a note is only made of an agent that took the object (TellInv):   *)
(* the wider claims of the documentation then hold too.                     *)
(*                                                                          *)
(* A project whose record left with its lab is released (PlainInv).  One    *)
(* whose record another project of its lab took is over by then, where no   *)
(* list of the student's projects misses one (InTurnInv).                   *)
(***************************************************************************)
EXTENDS ExamSync, TLAPS

OnePass == \A j, k \in Passes : j = k

\* A lab with an orphan is not the student's, in the database either.
LabInv ==
    \A p \in orphans \cup stored[2] : p[1] \notin labs /\ record[p[1]] = None

\* Only of a recorded project is it noted what its agent was told.
NoteInv ==
    \A p \in Projects : record[p[1]] # p => synced[p] = None /\ stored[1][p] = None

\* What is noted was wanted.
OrderInv ==
    \A p \in Projects : AtMost(synced[p], Wanted) /\ AtMost(stored[1][p], Wanted)

HeldInv ==
    \A p \in accepted :
        /\ agent[p] \in {"managed", "closing"}
        /\ AtMost(synced[p], held[p])
        /\ AtMost(stored[1][p], held[p])
        /\ AtMost(held[p], Wanted)

\* A pass tells the recorded projects an object that was wanted, and none of
\* them was told a later one.
Tells(k) ==
    /\ target[k] \in Projects /\ target[k] \notin todo[k]
    /\ payload[k] \in Objects /\ AtMost(payload[k], Wanted)
    /\ \A p \in Projects : AtMost(synced[p], payload[k]) /\ AtMost(stored[1][p], payload[k])
    /\ \A p \in (todo[k] \cup {target[k]}) \ dropped[k] : record[p[1]] = p
    /\ at[k] = "told" /\ target[k] \in accepted => held[target[k]] = payload[k]

\* Then it releases the orphans.
Releases(k) ==
    /\ target[k] \in orphans
    /\ todo[k] \subseteq orphans \ {target[k]}

PassInv ==
    \A k \in Passes :
        /\ at[k] \in {"put", "told"} => Tells(k)
        /\ at[k] \in {"drop", "bare"} => Releases(k)

SyncInv == LabInv /\ NoteInv /\ OrderInv /\ HeldInv /\ PassInv

\* What the agents hold and are about to adopt was wanted, and no later than what
\* a pass tells them.
HoldInv ==
    /\ \A p \in Projects :
          /\ AtMost(held[p], Wanted) /\ AtMost(born[p], Wanted)
          /\ agent[p] \in {"absent", "creating"} => held[p] = None
    /\ \A p \in Recorded : agent[p] # "absent"
    /\ \A k \in Passes : at[k] \in {"put", "told"} =>
          \A p \in todo[k] \cup {target[k]} :
              /\ agent[p] # "absent"
              /\ AtMost(held[p], payload[k]) /\ AtMost(born[p], payload[k])

\* Where no list misses a project, the projects of a lab are started one after the
\* other, and the record only leaves one that is over.
InTurnInv ==
    /\ \A p \in Projects, q \in Projects :
          p[1] = q[1] /\ q[2] < p[2] /\ agent[p] # "absent" => agent[q] \in {"gone", "failed"}
    /\ \A p \in overlooked : agent[p] \in {"gone", "failed"}

\* The portal only knows of started projects.
AgentInv ==
    /\ \A p \in Recorded : agent[p] # "absent"
    /\ \A p \in known : agent[p] \in {"managed", "closing", "gone"}
    /\ orphans \subseteq stored[2]

\* A project a pass is to call about is one the portal has to do with, or its record
\* was taken by another one.
CallInv ==
    \A k \in Passes :
        /\ at[k] \in {"put", "told"} =>
              \A p \in todo[k] \cup {target[k]} :
                  p \in Recorded \cup orphans \cup overlooked
        /\ at[k] = "bare" /\ target[k] \in known /\ agent[target[k]] = "managed" =>
              held[target[k]] = None

PlainInv ==
    \A p \in known \ (Recorded \cup orphans \cup overlooked) :
        agent[p] = "managed" => held[p] = None

ReleaseInv == AgentInv /\ CallInv /\ PlainInv /\ (~ListsMiss => InTurnInv)

\* A project whose start succeeded, when no stop fails: it ends up gone.
Begun(p) == agent[p] \in {"managed", "closing", "gone"}

\* The portal only has to do with projects that began, and what it notes of one that
\* is managed was taken there.
TellInv ==
    /\ \A p \in Recorded : Begun(p)
    /\ \A p \in Projects :
          (synced[p] # None \/ stored[1][p] # None) /\ agent[p] = "managed" => p \in accepted
    /\ \A k \in Passes :
          /\ at[k] \in {"put", "told"} => \A p \in todo[k] \cup {target[k]} : Begun(p)
          /\ at[k] = "told" /\ agent[target[k]] = "managed" => target[k] \in accepted

\* The record of a lab is one of the student's labs.
RecordInv == \A l \in Labs : record[l] # None => l \in labs

-----------------------------------------------------------------------------
\* The order of the exam objects.

LEMMA OrderOf ==
    /\ \A a \in NoteValues : AtMost(None, a) /\ AtMost(a, a)
    /\ \A a, b, c \in NoteValues : AtMost(a, b) /\ AtMost(b, c) => AtMost(a, c)
    /\ \A a, b \in NoteValues : AtMost(a, b) /\ AtMost(b, a) => a = b
    /\ \A a \in NoteValues : AtMost(a, None) => a = None
<1>1. MaxEdits \in Nat /\ None \notin Objects
    BY SyncAssumption
<1>2. ASSUME NEW a \in Objects, NEW b \in Objects, AtMost(a, b), AtMost(b, a)
      PROVE  a = b
    <2>1. a.edit = b.edit /\ a.started = b.started
        BY <1>1, <1>2 DEF AtMost, Objects
    <2>2. \A o \in Objects : o = [started |-> o.started, edit |-> o.edit]
        BY DEF Objects
    <2> QED
        BY <2>1, <2>2
<1>3. ASSUME NEW a \in Objects, NEW b \in Objects, NEW c \in Objects,
             AtMost(a, b), AtMost(b, c)
      PROVE  AtMost(a, c)
    BY <1>1, <1>3 DEF AtMost, Objects
<1>4. ASSUME NEW a \in Objects PROVE AtMost(a, a) /\ AtMost(None, a) /\ ~AtMost(a, None)
    BY <1>1, <1>4 DEF AtMost, Objects
<1>5. AtMost(None, None)
    BY DEF AtMost
<1>6. \A a \in NoteValues : a = None \/ a \in Objects
    BY DEF NoteValues
<1>7. \A a \in NoteValues : AtMost(None, a)
    BY <1>4, <1>5, <1>6
<1>8. \A a \in NoteValues : AtMost(a, None) => a = None
    BY <1>4, <1>6
<1> QED
    BY <1>2, <1>3, <1>4, <1>5, <1>6, <1>7, <1>8

LEMMA WantedType ==
    TypeOK => Wanted \in Objects /\ Wanted \in NoteValues
BY DEF TypeOK, Wanted, Objects, NoteValues

\* What the portal wants only grows.
LEMMA WantedGrows ==
    ASSUME TypeOK, TypeOK',
           \/ started' = started /\ edit' \in {edit, edit + 1}
           \/ started' = TRUE /\ edit' = edit
    PROVE  AtMost(Wanted, Wanted')
<1>1. edit \in Nat /\ started \in BOOLEAN /\ None \notin Objects
    BY SyncAssumption DEF TypeOK
<1>2. Wanted' \in Objects
    BY DEF TypeOK, Wanted, Objects
<1>3. Wanted' # None
    BY <1>1, <1>2
<1> QED
    BY <1>1, <1>3 DEF Wanted, AtMost

-----------------------------------------------------------------------------
\* The next call of a pass.

\* The pass `k` goes to `here`, about the project `p`.
GoesTo(k, here, p, rest, lost, object) ==
    /\ at' = [at EXCEPT ![k] = here]
    /\ target' = [target EXCEPT ![k] = p]
    /\ todo' = [todo EXCEPT ![k] = rest]
    /\ dropped' = [dropped EXCEPT ![k] = lost]
    /\ payload' = [payload EXCEPT ![k] = object]

LEMMA ProceedOf ==
    ASSUME TypeOK, NEW k \in Passes, NEW object, NEW rest, NEW left,
           Proceed(k, object, rest, left)
    PROVE  \/ \E p \in rest :
                 /\ GoesTo(k, "put", p, rest \ {p}, dropped[k] \cap rest, object)
                 /\ stored' = stored
           \/ \E p \in left :
                 /\ GoesTo(k, "drop", p, left \ {p}, {}, None)
                 /\ stored' = stored
           \/ /\ GoesTo(k, "off", None, {}, {}, None)
              /\ left = {}
              /\ stored' = <<synced', orphans'>>
BY DEF Proceed, Breaks, GoesTo, TypeOK

PassTypeOK ==
    /\ at \in [Passes -> {"off", "put", "told", "drop", "bare"}]
    /\ payload \in [Passes -> Objects \cup {None}]
    /\ target \in [Passes -> Projects \cup {None}]
    /\ todo \in [Passes -> SUBSET Projects]
    /\ dropped \in [Passes -> SUBSET Projects]
    /\ \A k \in Passes : at[k] # "off" => target[k] \in Projects

LEMMA GoesToType ==
    ASSUME TypeOK, PassTypeOK, NEW k \in Passes,
           NEW here \in {"off", "put", "told", "drop", "bare"},
           NEW p \in Projects \cup {None}, here # "off" => p \in Projects,
           NEW rest \in SUBSET Projects,
           NEW lost \in SUBSET Projects, NEW object \in Objects \cup {None},
           GoesTo(k, here, p, rest, lost, object)
    PROVE  PassTypeOK'
BY DEF TypeOK, PassTypeOK, GoesTo

LEMMA ProceedType ==
    ASSUME TypeOK, PassTypeOK, NEW k \in Passes, NEW object \in Objects \cup {None},
           NEW rest \in SUBSET Projects, NEW left \in SUBSET Projects,
           Proceed(k, object, rest, left)
    PROVE  PassTypeOK' /\ stored' \in {stored, <<synced', orphans'>>}
<1>1. dropped[k] \in SUBSET Projects
    BY DEF TypeOK
<1>2. CASE \E p \in rest :
               /\ GoesTo(k, "put", p, rest \ {p}, dropped[k] \cap rest, object)
               /\ stored' = stored
    <2>1. PICK p \in rest :
              /\ GoesTo(k, "put", p, rest \ {p}, dropped[k] \cap rest, object)
              /\ stored' = stored
        BY <1>2
    <2> QED
        BY <1>1, <2>1, GoesToType
<1>3. CASE \E p \in left :
               /\ GoesTo(k, "drop", p, left \ {p}, {}, None)
               /\ stored' = stored
    BY <1>3, GoesToType
<1>4. CASE GoesTo(k, "off", None, {}, {}, None) /\ stored' = <<synced', orphans'>>
    BY <1>4, GoesToType
<1> QED
    BY <1>2, <1>3, <1>4, ProceedOf

-----------------------------------------------------------------------------
\* Types.

\* TypeOK, and a call is about a project.
TypeInv ==
    /\ labs \in (SUBSET Labs) \ {{}}
    /\ opened \in BOOLEAN /\ started \in BOOLEAN
    /\ edit \in 0..MaxEdits
    /\ record \in [Labs -> Projects \cup {None}]
    /\ \A l \in Labs : record[l] # None => record[l][1] = l
    /\ synced \in [Projects -> Objects \cup {None}]
    /\ stored[1] \in [Projects -> Objects \cup {None}]
    /\ held \in [Projects -> Objects \cup {None}]
    /\ born \in [Projects -> Objects \cup {None}]
    /\ orphans \subseteq Projects /\ stored[2] \subseteq Projects
    /\ resting \subseteq Projects
    /\ PassTypeOK
    /\ agent \in [Projects -> AgentStates]
    /\ known \subseteq Projects /\ overlooked \subseteq Projects /\ accepted \subseteq Projects
    /\ restarts \in 0..MaxRestarts

LEMMA TypesApart ==
    TypeInv => TypeOK
BY DEF TypeOK, TypeInv, PassTypeOK

LEMMA ForgottenType ==
    ASSUME TypeOK, NEW gone, gone \subseteq Projects, Forgotten(gone)
    PROVE  /\ todo' \in [Passes -> SUBSET Projects]
           /\ dropped' \in [Passes -> SUBSET Projects]
<1>1. \A k \in Passes : todo[k] \subseteq Projects /\ dropped[k] \subseteq Projects
    BY DEF TypeOK
<1> QED
    BY <1>1 DEF Forgotten

\* The types are kept by the actions of the instructor, the clock and the agents.
LEMMA MemberStepType ==
    ASSUME TypeInv,
           \/ Edit \/ StartComes \/ ClockStarts \/ Restart
           \/ \E new \in SUBSET Labs : SetLabs(new) \/ UpdateLabs(new)
           \/ \E p \in Projects : Observe(p) \/ RetryComes(p)
    PROVE  TypeInv'
<1> USE TypesApart, SyncAssumption DEF TypeInv
<1>1. CASE Edit
    <2>1. edit + 1 \in 0..MaxEdits
        BY <1>1 DEF Edit
    <2> QED
        BY <1>1, <2>1 DEF Edit, passVars, agentVars, PassTypeOK
<1>2. CASE StartComes
    BY <1>2 DEF StartComes, recordVars, passVars, agentVars, PassTypeOK
<1>3. CASE ClockStarts
    BY <1>3 DEF ClockStarts, passVars, agentVars, PassTypeOK
<1>4. CASE Restart
    BY <1>4 DEF Restart, memberVars, agentVars, PassTypeOK
<1>5. ASSUME NEW new \in SUBSET Labs, SetLabs(new) PROVE TypeInv'
    <2> DEFINE lost == {l \in Labs \ new : record[l] # None}
    <2>1. {record[l] : l \in lost} \subseteq Projects
        OBVIOUS
    <2>2. /\ todo' \in [Passes -> SUBSET Projects]
          /\ dropped' \in [Passes -> SUBSET Projects]
        BY <1>5, <2>1, ForgottenType DEF SetLabs, LabsBecome
    <2>3. /\ record' \in [Labs -> Projects \cup {None}]
          /\ \A l \in Labs : record'[l] # None => record'[l][1] = l
        BY <1>5 DEF SetLabs, LabsBecome
    <2>4. synced' \in [Projects -> Objects \cup {None}]
        BY <1>5 DEF SetLabs, LabsBecome
    <2> QED
        BY <1>5, <2>1, <2>2, <2>3, <2>4 DEF SetLabs, LabsBecome, agentVars, PassTypeOK
<1>6. ASSUME NEW new \in SUBSET Labs, UpdateLabs(new) PROVE TypeInv'
    BY <1>6 DEF UpdateLabs, recordVars, passVars, agentVars, PassTypeOK
<1>7. ASSUME NEW p \in Projects, Observe(p) PROVE TypeInv'
    <2>1. p[1] \in Labs
        BY DEF Projects
    <2>2. /\ record' \in [Labs -> Projects \cup {None}]
          /\ \A l \in Labs : record'[l] # None => record'[l][1] = l
        BY <1>7, <2>1 DEF Observe
    <2>3. synced' \in [Projects -> Objects \cup {None}]
        BY <1>7 DEF Observe
    <2>4. /\ todo' \in [Passes -> SUBSET Projects]
          /\ dropped' \in [Passes -> SUBSET Projects]
        <3>1. CASE record[p[1]] # p /\ record[p[1]] # None
            BY <1>7, <2>1, <3>1, ForgottenType DEF Observe
        <3>2. CASE ~(record[p[1]] # p /\ record[p[1]] # None)
            BY <1>7, <3>2 DEF Observe, PassTypeOK
        <3> QED
            BY <3>1, <3>2
    <2>5. started' \in BOOLEAN
        BY <1>7 DEF Observe, MayStart
    <2> QED
        BY <1>7, <2>2, <2>3, <2>4, <2>5 DEF Observe, agentVars, PassTypeOK
<1>8. ASSUME NEW p \in Projects, RetryComes(p) PROVE TypeInv'
    BY <1>8 DEF RetryComes, memberVars, recordVars, agentVars, PassTypeOK
<1> QED
    BY <1>1, <1>2, <1>3, <1>4, <1>5, <1>6, <1>7, <1>8

LEMMA AgentStepType ==
    ASSUME TypeInv,
           NEW p \in Projects,
           Create(p) \/ Adopt(p) \/ StartFails(p) \/ CloseAsked(p) \/ CloseEnds(p)
    PROVE  TypeInv'
<1> USE TypesApart DEF TypeInv, memberVars, recordVars, passVars, PassTypeOK
<1>1. CASE Create(p)
    BY <1>1, WantedType DEF Create, AgentStates
<1>2. CASE Adopt(p)
    BY <1>2 DEF Adopt, AgentStates
<1>3. CASE StartFails(p)
    BY <1>3 DEF StartFails, AgentStates
<1>4. CASE CloseAsked(p)
    BY <1>4 DEF CloseAsked, AgentStates
<1>5. CASE CloseEnds(p)
    BY <1>5 DEF CloseEnds, AgentStates
<1> QED
    BY <1>1, <1>2, <1>3, <1>4, <1>5

LEMMA PassStepType ==
    ASSUME TypeInv,
           NEW k \in Passes,
           \/ PassStarts(k) \/ PutArrives(k) \/ PutAnswered(k) \/ PutLost(k)
           \/ DropArrives(k) \/ DropAnswered(k) \/ DropLost(k)
    PROVE  TypeInv'
<1> USE TypesApart DEF TypeInv, memberVars, agentVars
<1>1. Recorded \in SUBSET Projects /\ todo[k] \in SUBSET Projects
    BY DEF Recorded, PassTypeOK
<1>2. payload[k] \in Objects \cup {None} /\ target[k] \in Projects \cup {None}
    BY DEF PassTypeOK
<1>3. CASE PassStarts(k)
    <2>1. PassTypeOK' /\ stored' \in {stored, <<synced', orphans'>>}
        BY <1>1, <1>3, ProceedType, WantedType DEF PassStarts
    <2> QED
        BY <1>3, <2>1 DEF PassStarts
<1>4. CASE PutArrives(k)
    <2>1. at' \in [Passes -> {"off", "put", "told", "drop", "bare"}]
        BY <1>4 DEF PutArrives, PassTypeOK
    <2>2. target[k] \in Projects
        BY <1>4 DEF PutArrives, PassTypeOK
    <2>3. held' \in [Projects -> Objects \cup {None}] /\ accepted' \subseteq Projects
        BY <1>2, <1>4, <2>2 DEF PutArrives
    <2> QED
        BY <1>4, <2>1, <2>2, <2>3 DEF PutArrives, recordVars, PassTypeOK
<1>5. CASE PutAnswered(k)
    <2>1. PassTypeOK' /\ stored' \in {stored, <<synced', orphans'>>}
        BY <1>1, <1>2, <1>5, ProceedType DEF PutAnswered
    <2>2. synced' \in [Projects -> Objects \cup {None}]
        BY <1>2, <1>5 DEF PutAnswered
    <2> QED
        BY <1>5, <2>1, <2>2 DEF PutAnswered
<1>6. CASE PutLost(k)
    <2>1. PassTypeOK' /\ stored' \in {stored, <<synced', orphans'>>}
        BY <1>1, <1>2, <1>6, ProceedType DEF PutLost
    <2> QED
        BY <1>6, <2>1 DEF PutLost, PassTypeOK
<1>7. CASE DropArrives(k)
    BY <1>7 DEF DropArrives, recordVars, PassTypeOK
<1>8. CASE DropAnswered(k)
    <2>1. PassTypeOK' /\ stored' \in {stored, <<synced', orphans'>>}
        <3>1. CASE target[k] \in orphans
            BY <1>1, <1>8, <3>1, ProceedType DEF DropAnswered
        <3>2. CASE target[k] \notin orphans
            BY <1>8, <3>2 DEF DropAnswered, Breaks, PassTypeOK
        <3> QED
            BY <3>1, <3>2
    <2> QED
        BY <1>8, <2>1 DEF DropAnswered
<1>9. CASE DropLost(k)
    <2>1. PassTypeOK' /\ stored' \in {stored, <<synced', orphans'>>}
        BY <1>1, <1>9, ProceedType DEF DropLost
    <2> QED
        BY <1>9, <2>1 DEF DropLost
<1> QED
    BY <1>3, <1>4, <1>5, <1>6, <1>7, <1>8, <1>9

LEMMA StepType ==
    TypeInv /\ [Next]_vars => TypeInv'
<1> SUFFICES ASSUME TypeInv, [Next]_vars PROVE TypeInv'
    OBVIOUS
<1>1. CASE UNCHANGED vars
    BY <1>1 DEF vars, TypeInv, PassTypeOK
<1>2. CASE Next
    BY <1>2, MemberStepType, AgentStepType, PassStepType DEF Next
<1> QED
    BY <1>1, <1>2

LEMMA InitType ==
    Init => TypeInv
<1> SUFFICES ASSUME Init PROVE TypeInv
    OBVIOUS
<1>1. stored[1] = [p \in Projects |-> None] /\ stored[2] = {}
    BY DEF Init
<1>2. PassTypeOK
    BY DEF Init, PassTypeOK
<1>3. edit \in 0..MaxEdits /\ restarts \in 0..MaxRestarts /\ labs \in (SUBSET Labs) \ {{}}
    BY SyncAssumption DEF Init
<1> QED
    BY <1>1, <1>2, <1>3 DEF Init, TypeInv, AgentStates

\* Every variable keeps its shape (the attributes of Exam, Member and
\* ExamProjects), however many passes of sync_member overlap.
THEOREM TypeCorrect ==
    Spec => []TypeOK
<1>1. Spec => []TypeInv
    BY InitType, StepType, PTL DEF Spec
<1> QED
    BY <1>1, TypesApart, PTL

-----------------------------------------------------------------------------
\* What is noted, what is held and what is wanted.

LEMMA Values ==
    TypeInv =>
        /\ Wanted \in NoteValues
        /\ \A p \in Projects :
              synced[p] \in NoteValues /\ stored[1][p] \in NoteValues /\ held[p] \in NoteValues
        /\ \A k \in Passes : payload[k] \in NoteValues
BY WantedType, TypesApart DEF TypeInv, PassTypeOK, NoteValues

LEMMA LaterWanted ==
    ASSUME TypeInv, TypeInv',
           \/ started' = started /\ edit' \in {edit, edit + 1}
           \/ started' = TRUE /\ edit' = edit
    PROVE  \A a \in NoteValues : AtMost(a, Wanted) => AtMost(a, Wanted')
<1>1. TypeOK /\ TypeOK'
    BY DEF TypeInv, TypeOK, PassTypeOK
<1>2. Wanted' \in NoteValues /\ Wanted \in NoteValues
    BY <1>1, WantedType DEF TypeOK, Wanted, Objects, NoteValues
<1> QED
    BY <1>1, <1>2, WantedGrows, OrderOf

syncedVars == <<labs, record, synced, orphans>>

\* The clock or an edit: the object grows.
LEMMA GrowthStep ==
    ASSUME TypeInv, TypeInv', SyncInv,
           \/ started' = started /\ edit' \in {edit, edit + 1}
           \/ started' = TRUE /\ edit' = edit,
           stored' \in {stored, <<synced, orphans>>},
           UNCHANGED <<syncedVars, at, payload, target, todo, dropped, agent, held, accepted>>
    PROVE  SyncInv'
<1> USE DEF syncedVars
<1>1. \A a \in NoteValues : AtMost(a, Wanted) => AtMost(a, Wanted')
    BY LaterWanted
<1>2. LabInv'
    BY DEF SyncInv, LabInv
<1>3. NoteInv'
    BY DEF SyncInv, NoteInv
<1>4. OrderInv'
    BY <1>1, Values DEF SyncInv, OrderInv
<1>5. HeldInv'
    <2>1. accepted \subseteq Projects
        BY DEF TypeInv
    <2> QED
        BY <1>1, <2>1, Values DEF SyncInv, HeldInv
<1>6. PassInv'
    BY <1>1, Values DEF SyncInv, PassInv, Tells, Releases
<1> QED
    BY <1>2, <1>3, <1>4, <1>5, <1>6 DEF SyncInv

LEMMA UpdateLabsStep ==
    ASSUME TypeInv, TypeInv', SyncInv, ~LabsReturn, NEW new, UpdateLabs(new)
    PROVE  SyncInv'
<1>1. LabInv'
    BY DEF UpdateLabs, MayBecome, recordVars, SyncInv, LabInv
<1> QED
    BY <1>1 DEF UpdateLabs, recordVars, passVars, agentVars, SyncInv, NoteInv, OrderInv,
                HeldInv, PassInv, Tells, Releases, Wanted

\* What leaves the records leaves what a pass is to note too.
LEMMA ForgottenTells ==
    ASSUME TypeInv, NEW k \in Passes, at[k] \in {"put", "told"}, Tells(k),
           NEW gone, Forgotten(gone)
    PROVE  /\ todo'[k] \subseteq todo[k]
           /\ \A p \in (todo'[k] \cup {target[k]}) \ dropped'[k] :
                 record[p[1]] = p /\ p \notin gone
BY DEF Forgotten, Tells

LEMMA SetLabsStep ==
    ASSUME TypeInv, TypeInv', SyncInv, ~LabsReturn, NEW new \in SUBSET Labs, SetLabs(new)
    PROVE  SyncInv'
<1> DEFINE lost == {l \in Labs \ new : record[l] # None}
           gone == {record[l] : l \in lost}
<1>1. /\ \A p \in orphans \cup stored[2] : p[1] \notin new
      /\ labs' = new
      /\ record' = [l \in Labs |-> IF l \in lost THEN None ELSE record[l]]
      /\ orphans' = orphans \cup gone
      /\ Forgotten(gone)
      /\ synced' = [p \in Projects |-> IF record'[p[1]] = p THEN synced[p] ELSE None]
      /\ stored' = <<synced', orphans'>>
      /\ UNCHANGED <<started, edit, at, payload, target, agent, held, accepted>>
    BY DEF SetLabs, LabsBecome, MayBecome, agentVars
<1>2. Wanted' = Wanted
    BY <1>1 DEF Wanted
<1>3. \A p \in Projects : p[1] \in Labs
    BY DEF Projects
<1>4. \A p \in Projects : synced'[p] \in {synced[p], None} /\ stored'[1][p] = synced'[p]
    BY <1>1
<1>5. \A a \in NoteValues : AtMost(None, a)
    BY OrderOf
<1>6. LabInv'
    <2>1. ASSUME NEW l \in lost PROVE record[l][1] = l /\ record'[l] = None /\ l \notin new
        BY <1>1 DEF TypeInv
    <2>2. ASSUME NEW p \in orphans PROVE record'[p[1]] = None
        <3>1. p[1] \in Labs /\ record[p[1]] = None
            BY <1>3 DEF TypeInv, SyncInv, LabInv
        <3> QED
            BY <1>1, <3>1
    <2> QED
        BY <1>1, <2>1, <2>2 DEF LabInv
<1>7. NoteInv'
    BY <1>1, <1>4 DEF NoteInv
<1>8. OrderInv'
    BY <1>2, <1>4, <1>5, Values DEF SyncInv, OrderInv
<1>9. HeldInv'
    BY <1>1, <1>2, <1>4, <1>5, Values DEF TypeInv, SyncInv, HeldInv
<1>10. ASSUME NEW k \in Passes, at'[k] \in {"put", "told"} PROVE Tells(k)'
    <2>1. at[k] \in {"put", "told"} /\ Tells(k)
        BY <1>1, <1>10 DEF SyncInv, PassInv
    <2>2. /\ todo'[k] \subseteq todo[k]
          /\ \A p \in (todo'[k] \cup {target[k]}) \ dropped'[k] :
                record[p[1]] = p /\ p \notin gone
        BY <1>1, <2>1, ForgottenTells
    <2>3. todo[k] \cup {target[k]} \subseteq Projects
        BY <2>1 DEF Tells, TypeInv, PassTypeOK
    <2>4. \A p \in (todo'[k] \cup {target[k]}) \ dropped'[k] : record'[p[1]] = p
        BY <1>1, <1>3, <2>2, <2>3
    <2>5. \A p \in Projects :
              AtMost(synced'[p], payload[k]) /\ AtMost(stored'[1][p], payload[k])
        BY <1>4, <1>5, <2>1, Values DEF Tells
    <2> QED
        BY <1>1, <1>2, <2>1, <2>2, <2>4, <2>5 DEF Tells
<1>11. ASSUME NEW k \in Passes, at'[k] \in {"drop", "bare"} PROVE Releases(k)'
    <2>1. at[k] \in {"drop", "bare"} /\ Releases(k)
        BY <1>1, <1>11 DEF SyncInv, PassInv
    <2>2. todo'[k] \subseteq todo[k]
        BY <1>1 DEF Forgotten
    <2> QED
        BY <1>1, <2>1, <2>2 DEF Releases
<1> QED
    BY <1>6, <1>7, <1>8, <1>9, <1>10, <1>11 DEF SyncInv, PassInv

LEMMA ObserveStep ==
    ASSUME TypeInv, TypeInv', SyncInv, NEW p \in Projects, Observe(p)
    PROVE  SyncInv'
<1> DEFINE l == p[1]
           fresh == record[l] # p
           gone == {record[l]}
<1>1. /\ l \in labs
      /\ record' = [record EXCEPT ![l] = p]
      /\ synced' = [q \in Projects |-> IF q[1] = l /\ fresh THEN None ELSE synced[q]]
      /\ stored' = <<synced', orphans>>
      /\ fresh /\ record[l] # None => Forgotten(gone)
      /\ ~(fresh /\ record[l] # None) => UNCHANGED <<todo, dropped>>
      /\ UNCHANGED <<labs, edit, orphans, at, payload, target, agent, held, accepted>>
    BY DEF Observe, agentVars
<1>2. l \in Labs /\ \A q \in Projects : q[1] \in Labs
    BY DEF Projects
<1>3. started' = started \/ started' = TRUE
    BY DEF Observe, TypeInv
<1>4. \A a \in NoteValues : AtMost(a, Wanted) => AtMost(a, Wanted')
    BY <1>1, <1>3, LaterWanted
<1>5. \A q \in Projects : synced'[q] \in {synced[q], None} /\ stored'[1][q] = synced'[q]
    BY <1>1
<1>6. \A a \in NoteValues : AtMost(None, a)
    BY OrderOf
<1>7. LabInv'
    BY <1>1, <1>2 DEF SyncInv, LabInv, TypeInv
<1>8. NoteInv'
    BY <1>1, <1>2, <1>5 DEF SyncInv, NoteInv, TypeInv
<1>9. OrderInv'
    <2>1. Wanted' \in NoteValues
        BY <1>4, TypesApart DEF TypeInv, Wanted, Objects, NoteValues
    <2> QED
        BY <1>4, <1>5, <1>6, <2>1, Values DEF SyncInv, OrderInv
<1>10. HeldInv'
    BY <1>1, <1>4, <1>5, <1>6, Values DEF TypeInv, SyncInv, HeldInv
<1>11. ASSUME NEW k \in Passes, at'[k] \in {"put", "told"} PROVE Tells(k)'
    <2>1. at[k] \in {"put", "told"} /\ Tells(k)
        BY <1>1, <1>11 DEF SyncInv, PassInv
    <2>2. todo[k] \cup {target[k]} \subseteq Projects
        BY <2>1 DEF Tells, TypeInv, PassTypeOK
    <2>3. /\ todo'[k] \subseteq todo[k]
          /\ \A q \in (todo'[k] \cup {target[k]}) \ dropped'[k] : record'[q[1]] = q
        <3>1. CASE fresh /\ record[l] # None
            <4>1. /\ todo'[k] \subseteq todo[k]
                  /\ \A q \in (todo'[k] \cup {target[k]}) \ dropped'[k] :
                        record[q[1]] = q /\ q \notin gone
                BY <1>1, <2>1, <3>1, ForgottenTells
            <4> QED
                BY <1>1, <1>2, <2>2, <4>1 DEF TypeInv
        <3>2. CASE ~(fresh /\ record[l] # None)
            BY <1>1, <1>2, <2>1, <2>2, <3>2, SyncAssumption DEF Tells, TypeInv
        <3> QED
            BY <3>1, <3>2
    <2>4. \A q \in Projects :
              AtMost(synced'[q], payload[k]) /\ AtMost(stored'[1][q], payload[k])
        BY <1>5, <1>6, <2>1, Values DEF Tells
    <2> QED
        BY <1>1, <1>4, <2>1, <2>3, <2>4, Values DEF Tells
<1>12. ASSUME NEW k \in Passes, at'[k] \in {"drop", "bare"} PROVE Releases(k)'
    <2>1. at[k] \in {"drop", "bare"} /\ Releases(k)
        BY <1>1, <1>12 DEF SyncInv, PassInv
    <2>2. todo'[k] \subseteq todo[k]
        BY <1>1 DEF Forgotten
    <2> QED
        BY <1>1, <2>1, <2>2 DEF Releases
<1> QED
    BY <1>7, <1>8, <1>9, <1>10, <1>11, <1>12 DEF SyncInv, PassInv

\* The agents start and close projects.
LEMMA AgentStep ==
    ASSUME TypeInv, TypeInv', SyncInv, NEW p \in Projects,
           Create(p) \/ Adopt(p) \/ StartFails(p) \/ CloseAsked(p) \/ CloseEnds(p)
    PROVE  SyncInv'
<1>1. UNCHANGED <<memberVars, record, synced, stored, orphans, passVars>>
    BY DEF Create, Adopt, StartFails, CloseAsked, CloseEnds, recordVars
<1>2. accepted' \subseteq accepted
    BY DEF Create, Adopt, StartFails, CloseAsked, CloseEnds
<1>3. \A q \in accepted' : held'[q] = held[q] /\ agent'[q] \in {"managed", "closing"}
    BY DEF Create, Adopt, StartFails, CloseAsked, CloseEnds, SyncInv, HeldInv, TypeInv
<1>4. HeldInv'
    BY <1>1, <1>2, <1>3 DEF memberVars, Wanted, SyncInv, HeldInv
<1>5. PassInv'
    BY <1>1, <1>2, <1>3 DEF memberVars, passVars, Wanted, SyncInv, PassInv, Tells, Releases
<1> QED
    BY <1>1, <1>4, <1>5 DEF memberVars, Wanted, SyncInv, LabInv, NoteInv, OrderInv

LEMMA RestartStep ==
    ASSUME TypeInv, SyncInv, Restart
    PROVE  SyncInv'
<1>1. \A k \in Passes : at'[k] = "off"
    BY DEF Restart
<1> QED
    BY <1>1 DEF Restart, memberVars, agentVars, Wanted, SyncInv, LabInv, NoteInv, OrderInv,
                HeldInv, PassInv

-----------------------------------------------------------------------------
\* The calls.

LEMMA PassStartsStep ==
    ASSUME TypeInv, TypeInv', SyncInv, OnePass, NEW k \in Passes, PassStarts(k)
    PROVE  SyncInv'
<1>1. /\ Proceed(k, Wanted, Recorded, orphans)
      /\ UNCHANGED <<memberVars, record, synced, orphans, agentVars>>
    BY DEF PassStarts
<1>2. stored' \in {stored, <<synced, orphans>>}
    BY <1>1, TypesApart, ProceedOf
<1>3. Wanted' = Wanted
    BY <1>1 DEF memberVars, Wanted
<1>4. LabInv' /\ NoteInv' /\ OrderInv' /\ HeldInv'
    BY <1>1, <1>2, <1>3
       DEF memberVars, agentVars, SyncInv, LabInv, NoteInv, OrderInv, HeldInv, TypeInv
<1>5. PassInv'
    <2>1. SUFFICES /\ at'[k] \in {"put", "told"} => Tells(k)'
                   /\ at'[k] \in {"drop", "bare"} => Releases(k)'
        BY DEF OnePass, PassInv
    <2>2. \A p \in Recorded : p \in Projects /\ record[p[1]] = p
        BY DEF Recorded, TypeInv
    <2>3. CASE \E p \in Recorded :
                   /\ GoesTo(k, "put", p, Recorded \ {p}, dropped[k] \cap Recorded, Wanted)
                   /\ stored' = stored
        <3>1. PICK p \in Recorded :
                  /\ GoesTo(k, "put", p, Recorded \ {p}, dropped[k] \cap Recorded, Wanted)
                  /\ stored' = stored
            BY <2>3
        <3>2. /\ at'[k] = "put" /\ target'[k] = p /\ todo'[k] = Recorded \ {p}
              /\ payload'[k] = Wanted
            BY <3>1 DEF GoesTo, TypeInv, PassTypeOK
        <3>3. AtMost(Wanted, Wanted) /\ Wanted \in Objects
            BY TypesApart, WantedType, OrderOf
        <3>4. Tells(k)'
            BY <1>1, <1>3, <2>2, <3>1, <3>2, <3>3 DEF Tells, SyncInv, OrderInv
        <3> QED
            BY <3>2, <3>4
    <2>4. CASE \E p \in orphans :
                   /\ GoesTo(k, "drop", p, orphans \ {p}, {}, None)
                   /\ stored' = stored
        BY <1>1, <2>4 DEF GoesTo, Releases, TypeInv, PassTypeOK
    <2>5. CASE GoesTo(k, "off", None, {}, {}, None)
        BY <2>5 DEF GoesTo, TypeInv, PassTypeOK
    <2> QED
        BY <1>1, <2>3, <2>4, <2>5, TypesApart, ProceedOf
<1> QED
    BY <1>4, <1>5 DEF SyncInv

LEMMA PutArrivesStep ==
    ASSUME TypeInv, TypeInv', SyncInv, OnePass, NEW k \in Passes, PutArrives(k)
    PROVE  SyncInv'
<1> DEFINE p == target[k]
<1>1. /\ at[k] = "put" /\ Tells(k)
      /\ at' = [at EXCEPT ![k] = "told"]
      /\ UNCHANGED <<memberVars, record, synced, stored, orphans, payload, target, todo, dropped,
                     agent>>
    BY DEF PutArrives, recordVars, SyncInv, PassInv
<1>2. at'[k] = "told" /\ p \in Projects /\ Wanted' = Wanted
    BY <1>1 DEF TypeInv, PassTypeOK, Tells, memberVars, Wanted
<1>3. \/ /\ agent[p] = "managed" /\ held'[p] = payload[k] /\ accepted' = accepted \cup {p}
         /\ \A q \in Projects \ {p} : held'[q] = held[q]
      \/ p \notin accepted' /\ held' = held /\ accepted' \subseteq accepted
    BY <1>2 DEF PutArrives, TypeInv
<1>4. HeldInv'
    BY <1>1, <1>2, <1>3 DEF SyncInv, HeldInv, Tells, TypeInv
<1>5. PassInv'
    <2>1. SUFFICES Tells(k)'
        BY <1>2 DEF OnePass, PassInv
    <2> QED
        BY <1>1, <1>2, <1>3 DEF Tells
<1> QED
    BY <1>1, <1>2, <1>4, <1>5 DEF memberVars, SyncInv, LabInv, NoteInv, OrderInv

\* After an answer or none, the pass goes on to records it holds, then to orphans.
LEMMA TellsOn ==
    ASSUME TypeInv, TypeInv', SyncInv, OnePass, NEW k \in Passes, at[k] \in {"put", "told"},
           Proceed(k, payload[k], todo[k], orphans),
           UNCHANGED <<memberVars, record, orphans, agentVars>>,
           synced' = synced \/ /\ target[k] \notin dropped[k] /\ at[k] = "told"
                               /\ synced' = [synced EXCEPT ![target[k]] = payload[k]]
    PROVE  SyncInv'
<1>1. Tells(k) /\ Wanted' = Wanted
    BY DEF SyncInv, PassInv, memberVars, Wanted
<1>2. target[k] \in Projects /\ payload[k] \in NoteValues
    BY <1>1, Values DEF Tells
<1>3. \A p \in Projects :
          \/ synced'[p] = synced[p]
          \/ /\ p = target[k] /\ p \notin dropped[k] /\ at[k] = "told"
             /\ synced'[p] = payload[k]
    BY <1>2 DEF TypeInv
<1>4. stored' \in {stored, <<synced', orphans'>>}
    BY TypesApart, ProceedOf
<1>5. \A p \in Projects : stored'[1][p] \in {stored[1][p], synced'[p]}
    BY <1>4
<1>6. LabInv'
    BY <1>4 DEF SyncInv, LabInv, memberVars
<1>7. NoteInv'
    <2>1. ASSUME NEW p \in Projects, record[p[1]] # p PROVE synced'[p] = None
        BY <1>1, <1>3, <2>1 DEF Tells, SyncInv, NoteInv
    <2> QED
        BY <1>5, <2>1 DEF SyncInv, NoteInv
<1>8. OrderInv'
    BY <1>1, <1>3, <1>5 DEF SyncInv, OrderInv, Tells
<1>9. AtMost(payload[k], payload[k])
    BY <1>2, OrderOf
<1>10. HeldInv'
    <2>1. ASSUME NEW p \in accepted PROVE AtMost(synced'[p], held[p])
        BY <1>1, <1>3, <1>9, <2>1 DEF SyncInv, HeldInv, Tells, TypeInv
    <2> QED
        BY <1>1, <1>5, <2>1 DEF SyncInv, HeldInv, TypeInv, agentVars
<1>11. PassInv'
    <2>1. SUFFICES /\ at'[k] \in {"put", "told"} => Tells(k)'
                   /\ at'[k] \in {"drop", "bare"} => Releases(k)'
        BY DEF OnePass, PassInv
    <2>2. CASE \E p \in todo[k] :
                   /\ GoesTo(k, "put", p, todo[k] \ {p}, dropped[k] \cap todo[k], payload[k])
                   /\ stored' = stored
        <3>1. PICK p \in todo[k] :
                  /\ GoesTo(k, "put", p, todo[k] \ {p}, dropped[k] \cap todo[k], payload[k])
                  /\ stored' = stored
            BY <2>2
        <3>2. /\ at'[k] = "put" /\ target'[k] = p /\ todo'[k] = todo[k] \ {p}
              /\ payload'[k] = payload[k] /\ dropped'[k] = dropped[k] \cap todo[k]
            BY <3>1 DEF GoesTo, TypeInv, PassTypeOK
        <3>3. \A q \in Projects :
                  AtMost(synced'[q], payload[k]) /\ AtMost(stored'[1][q], payload[k])
            BY <1>1, <1>3, <1>5, <1>9 DEF Tells
        <3>4. p \in Projects
            BY <3>1 DEF TypeInv, PassTypeOK
        <3>5. Tells(k)'
            BY <1>1, <3>1, <3>2, <3>3, <3>4 DEF Tells
        <3> QED
            BY <3>2, <3>5
    <2>3. CASE \E p \in orphans :
                   /\ GoesTo(k, "drop", p, orphans \ {p}, {}, None)
                   /\ stored' = stored
        BY <2>3 DEF GoesTo, Releases, TypeInv, PassTypeOK
    <2>4. CASE GoesTo(k, "off", None, {}, {}, None)
        BY <2>4 DEF GoesTo, TypeInv, PassTypeOK
    <2> QED
        BY <2>2, <2>3, <2>4, TypesApart, ProceedOf
<1> QED
    BY <1>6, <1>7, <1>8, <1>10, <1>11 DEF SyncInv

LEMMA DropArrivesStep ==
    ASSUME TypeInv, TypeInv', SyncInv, OnePass, NEW k \in Passes, DropArrives(k)
    PROVE  SyncInv'
<1>1. /\ Releases(k)
      /\ at' = [at EXCEPT ![k] = "bare"]
      /\ held' \in {held, [held EXCEPT ![target[k]] = None]}
      /\ UNCHANGED <<memberVars, record, synced, stored, orphans, payload, target, todo, dropped,
                     agent, accepted>>
    BY DEF DropArrives, recordVars, SyncInv, PassInv
<1>2. Wanted' = Wanted /\ at'[k] = "bare"
    BY <1>1 DEF memberVars, Wanted, TypeInv, PassTypeOK
<1>3. HeldInv'
    <2>1. target[k] \in Projects /\ record[target[k][1]] = None
        BY <1>1 DEF Releases, TypeInv, SyncInv, LabInv
    <2>2. synced[target[k]] = None /\ stored[1][target[k]] = None
        BY <2>1, SyncAssumption DEF SyncInv, NoteInv
    <2>3. AtMost(None, None) /\ AtMost(None, Wanted)
        BY OrderOf, Values DEF NoteValues
    <2> QED
        BY <1>1, <1>2, <2>1, <2>2, <2>3 DEF SyncInv, HeldInv, TypeInv
<1>4. PassInv'
    <2>1. SUFFICES Releases(k)'
        BY <1>2 DEF OnePass, PassInv
    <2> QED
        BY <1>1 DEF Releases
<1> QED
    BY <1>1, <1>2, <1>3, <1>4 DEF memberVars, SyncInv, LabInv, NoteInv, OrderInv

\* After the answer of an orphan or none, the pass goes on to the orphans left.
LEMMA ReleasesOn ==
    ASSUME TypeInv, TypeInv', SyncInv, OnePass, NEW k \in Passes, at[k] \in {"drop", "bare"},
           Proceed(k, None, {}, todo[k]),
           UNCHANGED <<memberVars, record, synced, agentVars>>,
           orphans' \in {orphans, orphans \ {target[k]}}
    PROVE  SyncInv'
<1>1. Releases(k) /\ Wanted' = Wanted
    BY DEF SyncInv, PassInv, memberVars, Wanted
<1>2. stored' \in {stored, <<synced', orphans'>>}
    BY TypesApart, ProceedOf
<1>3. LabInv'
    BY <1>2 DEF SyncInv, LabInv, memberVars
<1>4. NoteInv' /\ OrderInv' /\ HeldInv'
    BY <1>1, <1>2 DEF SyncInv, NoteInv, OrderInv, HeldInv, agentVars, TypeInv
<1>5. PassInv'
    <2>1. SUFFICES /\ at'[k] \in {"put", "told"} => Tells(k)'
                   /\ at'[k] \in {"drop", "bare"} => Releases(k)'
        BY DEF OnePass, PassInv
    <2>2. CASE \E p \in todo[k] :
                   /\ GoesTo(k, "drop", p, todo[k] \ {p}, {}, None)
                   /\ stored' = stored
        BY <1>1, <2>2 DEF GoesTo, Releases, TypeInv, PassTypeOK
    <2>3. CASE GoesTo(k, "off", None, {}, {}, None)
        BY <2>3 DEF GoesTo, TypeInv, PassTypeOK
    <2> QED
        BY <2>2, <2>3, TypesApart, ProceedOf
<1> QED
    BY <1>3, <1>4, <1>5 DEF SyncInv

LEMMA CallStep ==
    ASSUME TypeInv, TypeInv', SyncInv, OnePass, NEW k \in Passes,
           PutAnswered(k) \/ PutLost(k) \/ DropAnswered(k) \/ DropLost(k)
    PROVE  SyncInv'
<1>1. CASE PutAnswered(k)
    BY <1>1, TellsOn DEF PutAnswered
<1>2. CASE PutLost(k)
    BY <1>2, TellsOn DEF PutLost
<1>3. CASE DropAnswered(k)
    <2>1. target[k] \in orphans
        BY <1>3 DEF DropAnswered, SyncInv, PassInv, Releases
    <2> QED
        BY <1>3, <2>1, ReleasesOn DEF DropAnswered
<1>4. CASE DropLost(k)
    BY <1>4, ReleasesOn DEF DropLost
<1> QED
    BY <1>1, <1>2, <1>3, <1>4

-----------------------------------------------------------------------------
LEMMA StepSync ==
    ASSUME OnePass, ~LabsReturn, TypeInv, SyncInv, [Next]_vars
    PROVE  SyncInv'
<1>1. TypeInv'
    BY StepType
<1>2. CASE UNCHANGED vars
    BY <1>2 DEF vars, Wanted, SyncInv, LabInv, NoteInv, OrderInv, HeldInv, PassInv, Tells,
                Releases
<1>3. CASE Edit
    BY <1>1, <1>3, GrowthStep DEF Edit, passVars, agentVars, syncedVars
<1>4. CASE StartComes
    BY <1>1, <1>4, GrowthStep DEF StartComes, recordVars, passVars, agentVars, syncedVars
<1>5. CASE ClockStarts
    BY <1>1, <1>5, GrowthStep DEF ClockStarts, passVars, agentVars, syncedVars
<1>6. CASE Restart
    BY <1>6, RestartStep
<1>7. CASE \E new \in SUBSET Labs : SetLabs(new) \/ UpdateLabs(new)
    BY <1>1, <1>7, SetLabsStep, UpdateLabsStep
<1>8. CASE \E p \in Projects :
               \/ Observe(p) \/ RetryComes(p)
               \/ Create(p) \/ Adopt(p) \/ StartFails(p) \/ CloseAsked(p) \/ CloseEnds(p)
    <2>1. ASSUME NEW p \in Projects, RetryComes(p) PROVE SyncInv'
        BY <1>1, <2>1, GrowthStep
           DEF RetryComes, memberVars, recordVars, agentVars, syncedVars
    <2> QED
        BY <1>1, <1>8, <2>1, ObserveStep, AgentStep
<1>9. CASE \E k \in Passes :
               \/ PassStarts(k)
               \/ PutArrives(k) \/ PutAnswered(k) \/ PutLost(k)
               \/ DropArrives(k) \/ DropAnswered(k) \/ DropLost(k)
    BY <1>1, <1>9, PassStartsStep, PutArrivesStep, DropArrivesStep, CallStep
<1> QED
    BY <1>2, <1>3, <1>4, <1>5, <1>6, <1>7, <1>8, <1>9 DEF Next

LEMMA InitSync ==
    Init => SyncInv
<1> SUFFICES ASSUME Init PROVE SyncInv
    OBVIOUS
<1>1. /\ orphans = {} /\ stored[2] = {} /\ accepted = {}
      /\ \A p \in Projects : synced[p] = None /\ stored[1][p] = None
      /\ \A k \in Passes : at[k] = "off"
    BY DEF Init
<1>2. AtMost(None, Wanted)
    BY InitType, Values, OrderOf
<1> QED
    BY <1>1, <1>2 DEF SyncInv, LabInv, NoteInv, OrderInv, HeldInv, PassInv

\* What ExamProjects.sync_member has noted as told to an agent that took the
\* last object sent to it is what that agent holds, whatever the instructor
\* changed during the call, whatever was lost and wherever the portal restarted.
THEOREM NotedIsHeld ==
    ASSUME OnePass, ~LabsReturn
    PROVE  Spec => []AcceptedIsHeld
<1>1. Init => TypeInv /\ SyncInv
    BY InitType, InitSync
<1>2. TypeInv /\ SyncInv /\ [Next]_vars => (TypeInv /\ SyncInv)'
    BY StepType, StepSync
<1>3. ASSUME TypeInv, SyncInv PROVE AcceptedIsHeld
    <2>1. SUFFICES ASSUME NEW p \in Recorded \cap accepted, synced[p] = Wanted
                   PROVE  held[p] = Wanted
        BY DEF AcceptedIsHeld
    <2>2. AtMost(Wanted, held[p]) /\ AtMost(held[p], Wanted)
        BY <1>3, <2>1 DEF SyncInv, HeldInv
    <2>3. held[p] \in NoteValues /\ Wanted \in NoteValues
        BY <1>3, Values DEF TypeInv
    <2> QED
        BY <2>2, <2>3, OrderOf
<1> QED
    BY <1>1, <1>2, <1>3, PTL DEF Spec

-----------------------------------------------------------------------------
\* The release of the orphans.

LEMMA RecordedOf ==
    TypeInv => \A p : p \in Recorded <=> p \in Projects /\ record[p[1]] = p
BY SyncAssumption DEF Recorded, TypeInv, Projects

\* Nothing of the records, the passes and the agents changes.
LEMMA MemberRelease ==
    ASSUME ReleaseInv,
           \/ Edit \/ StartComes \/ ClockStarts
           \/ \E new \in SUBSET Labs : UpdateLabs(new)
           \/ \E p \in Projects : RetryComes(p)
    PROVE  ReleaseInv'
<1>1. UNCHANGED <<record, orphans, known, overlooked, at, target, todo, agent, held>>
    BY DEF Edit, StartComes, ClockStarts, UpdateLabs, RetryComes, memberVars, recordVars,
           passVars, agentVars
<1>2. stored' \in {stored, <<synced, orphans>>}
    BY DEF Edit, StartComes, ClockStarts, UpdateLabs, RetryComes, recordVars
<1> QED
    BY <1>1, <1>2 DEF ReleaseInv, AgentInv, InTurnInv, CallInv, PlainInv, Recorded

LEMMA SetLabsRelease ==
    ASSUME TypeInv, ReleaseInv, NEW new \in SUBSET Labs, SetLabs(new)
    PROVE  ReleaseInv'
<1> DEFINE gone == {record[l] : l \in {m \in Labs \ new : record[m] # None}}
<1>1. /\ record' = [l \in Labs |->
                        IF l \in Labs \ new /\ record[l] # None THEN None ELSE record[l]]
      /\ orphans' = orphans \cup gone
      /\ Forgotten(gone)
      /\ stored' = <<synced', orphans'>>
      /\ UNCHANGED <<known, overlooked, at, target, agent, held>>
    BY DEF SetLabs, LabsBecome, agentVars
<1>2. Recorded' \subseteq Recorded /\ gone \subseteq Recorded
    BY <1>1 DEF Recorded
<1>3. Recorded \subseteq Recorded' \cup gone
    BY <1>1 DEF Recorded
<1>4. \A k \in Passes : todo'[k] \subseteq todo[k]
    BY <1>1 DEF Forgotten
<1>5. AgentInv'
    BY <1>1, <1>2 DEF ReleaseInv, AgentInv
<1>6. CallInv'
    BY <1>1, <1>3, <1>4 DEF ReleaseInv, CallInv
<1>7. PlainInv'
    BY <1>1, <1>3 DEF ReleaseInv, PlainInv
<1>8. ~ListsMiss => InTurnInv'
    BY <1>1 DEF ReleaseInv, InTurnInv
<1> QED
    BY <1>5, <1>6, <1>7, <1>8 DEF ReleaseInv

LEMMA ObserveRelease ==
    ASSUME TypeInv, SyncInv, ReleaseInv, NEW p \in Projects, Observe(p)
    PROVE  ReleaseInv'
<1> DEFINE old == record[p[1]]
<1>1. /\ record' = [record EXCEPT ![p[1]] = p]
      /\ agent[p] \in {"managed", "closing", "gone", "creating"}
      /\ ListsMiss \/ \A n \in p[2] + 1..MaxStarts : agent[<<p[1], n>>] = "absent"
      /\ stored' = <<synced', orphans>>
      /\ overlooked' = (overlooked \cup ({old} \ {None})) \ {p}
      /\ known' \subseteq known \cup {p}
      /\ agent[p] = "creating" => known' = known
      /\ \A k \in Passes : todo'[k] \subseteq todo[k]
      /\ UNCHANGED <<orphans, at, target, agent, held>>
    BY DEF Observe, agentVars, Forgotten
<1>2. p[1] \in Labs /\ p[2] \in 1..MaxStarts /\ MaxStarts \in Nat
    BY SyncAssumption DEF Projects
<1>3. p \in Recorded' /\ Recorded' \subseteq Recorded \cup {p}
      /\ Recorded \subseteq Recorded' \cup {old}
    BY <1>1, <1>2, SyncAssumption DEF Recorded, TypeInv
<1>4. ~ListsMiss /\ InTurnInv /\ old \in Recorded /\ old # p => agent[old] \in {"gone", "failed"}
    <2>1. SUFFICES ASSUME ~ListsMiss, InTurnInv, old \in Recorded, old # p
                   PROVE  agent[old] \in {"gone", "failed"}
        OBVIOUS
    <2>2. old \in Projects /\ old[1] = p[1] /\ agent[old] # "absent"
        BY <1>2, <2>1, RecordedOf, SyncAssumption DEF ReleaseInv, AgentInv, TypeInv
    <2>3. old = <<p[1], old[2]>> /\ p = <<p[1], p[2]>> /\ old[2] \in 1..MaxStarts
        BY <2>2 DEF Projects
    <2>4. ~(p[2] < old[2])
        BY <1>1, <1>2, <2>1, <2>2, <2>3
    <2>5. old[2] # p[2]
        BY <2>1, <2>3
    <2>6. old[2] < p[2]
        BY <1>2, <2>3, <2>4, <2>5
    <2>7. agent[p] # "absent"
        BY <1>1
    <2> QED
        BY <2>1, <2>2, <2>6, <2>7 DEF InTurnInv
<1>5. AgentInv'
    BY <1>1, <1>3 DEF ReleaseInv, AgentInv
<1>6. CallInv'
    <2>1. \A q \in Recorded \cup overlooked : q \in Recorded' \cup overlooked'
        BY <1>1, <1>3, SyncAssumption DEF Recorded
    <2>2. \A k \in Passes : at[k] = "bare" => target[k] # p
        BY DEF Observe, SyncInv, PassInv, Releases, LabInv
    <2> QED
        BY <1>1, <2>1, <2>2 DEF ReleaseInv, CallInv
<1>7. PlainInv'
    BY <1>1, <1>3, SyncAssumption DEF ReleaseInv, PlainInv, Recorded
<1>8. ~ListsMiss => InTurnInv'
    <2> SUFFICES ASSUME ~ListsMiss, InTurnInv PROVE InTurnInv'
        BY DEF ReleaseInv
    <2>1. \A q \in overlooked' : q \in overlooked \/ (q = old /\ old \in Recorded /\ old # p)
        BY <1>1, <1>2 DEF Recorded, TypeInv
    <2> QED
        BY <1>1, <1>4, <2>1 DEF InTurnInv
<1> QED
    BY <1>5, <1>6, <1>7, <1>8 DEF ReleaseInv

\* A project that is over stays over, and a project that starts is not known.
LEMMA AgentRelease ==
    ASSUME TypeInv, TypeInv', ReleaseInv, ~StopsFail, NEW p \in Projects,
           Create(p) \/ Adopt(p) \/ StartFails(p) \/ CloseAsked(p) \/ CloseEnds(p)
    PROVE  ReleaseInv'
<1>1. /\ UNCHANGED <<record, orphans, stored, known, overlooked, at, target, todo>>
      /\ \A q \in Projects \ {p} : agent'[q] = agent[q] /\ held'[q] = held[q]
    BY DEF Create, Adopt, StartFails, CloseAsked, CloseEnds, recordVars, passVars, TypeInv
<1>2. \/ /\ agent[p] = "absent" /\ agent'[p] = "creating"
         /\ ListsMiss \/ \A n \in 1..(p[2] - 1) : agent[<<p[1], n>>] \in {"gone", "failed"}
      \/ agent[p] = "creating" /\ agent'[p] \in {"managed", "failed"}
      \/ agent[p] = "managed" /\ agent'[p] = "closing"
      \/ agent[p] = "closing" /\ agent'[p] = "gone"
    BY DEF Create, Adopt, StartFails, CloseAsked, CloseEnds, TypeInv
<1>3. AgentInv'
    <2>1. \A q \in Recorded : agent'[q] # "absent"
        BY <1>1, <1>2, RecordedOf DEF ReleaseInv, AgentInv
    <2>2. \A q \in known : agent'[q] \in {"managed", "closing", "gone"}
        BY <1>1, <1>2 DEF ReleaseInv, AgentInv, TypeInv
    <2> QED
        BY <1>1, <2>1, <2>2 DEF ReleaseInv, AgentInv, Recorded
<1>4. \A q \in Projects : agent[q] \in {"gone", "failed"} => agent'[q] = agent[q]
    BY <1>1, <1>2
<1>5. \A q \in known : agent'[q] = "managed" => agent[q] = "managed" /\ held'[q] = held[q]
    BY <1>1, <1>2 DEF ReleaseInv, AgentInv, TypeInv
<1>6. CallInv'
    BY <1>1, <1>5 DEF ReleaseInv, CallInv, Recorded
<1>7. PlainInv'
    BY <1>1, <1>5 DEF ReleaseInv, PlainInv, Recorded
<1>8. ~ListsMiss => InTurnInv'
    <2> SUFFICES ASSUME ~ListsMiss, InTurnInv PROVE InTurnInv'
        BY DEF ReleaseInv
    <2>1. ASSUME NEW q \in Projects, NEW r \in Projects,
                 q[1] = r[1], r[2] < q[2], agent'[q] # "absent"
          PROVE  agent'[r] \in {"gone", "failed"}
        <3>1. q[2] \in 1..MaxStarts /\ r[2] \in 1..MaxStarts /\ MaxStarts \in Nat
              /\ r = <<q[1], r[2]>>
            BY <2>1, SyncAssumption DEF Projects
        <3>2. CASE agent[q] # "absent"
            BY <1>4, <2>1, <3>2 DEF InTurnInv
        <3>3. CASE agent[q] = "absent"
            <4>1. q = p /\ r[2] \in 1..(q[2] - 1)
                BY <1>1, <2>1, <3>1, <3>3
            <4> QED
                BY <1>2, <1>4, <2>1, <3>1, <3>3, <4>1
        <3> QED
            BY <3>2, <3>3
    <2> QED
        BY <1>1, <1>4, <2>1 DEF InTurnInv, TypeInv
<1> QED
    BY <1>3, <1>6, <1>7, <1>8 DEF ReleaseInv

LEMMA RestartRelease ==
    ASSUME TypeInv, ReleaseInv, SyncInv, Restart
    PROVE  ReleaseInv'
<1>1. /\ orphans \subseteq orphans' /\ orphans' = stored'[2]
      /\ \A k \in Passes : at'[k] = "off"
      /\ UNCHANGED <<record, known, overlooked, agent, held>>
    BY DEF Restart, agentVars, ReleaseInv, AgentInv
<1> QED
    BY <1>1 DEF ReleaseInv, AgentInv, InTurnInv, CallInv, PlainInv, Recorded

\* Neither the records nor the agents change when a pass goes on.
LEMMA ProceedRelease ==
    ASSUME TypeInv, ReleaseInv, OnePass, NEW k \in Passes, NEW object, NEW rest, NEW left,
           Proceed(k, object, rest, left),
           \A p \in rest : p \in Recorded \cup orphans \cup overlooked,
           UNCHANGED <<record, known, overlooked, agent, held>>,
           \/ orphans' = orphans
           \/ rest = {} /\ at[k] = "bare" /\ orphans' = orphans \ {target[k]}
    PROVE  ReleaseInv'
<1>1. stored' \in {stored, <<synced', orphans'>>}
    BY TypesApart, ProceedOf
<1>2. AgentInv'
    BY <1>1 DEF ReleaseInv, AgentInv, Recorded
<1>3. /\ at'[k] \in {"put", "drop", "off"}
      /\ at'[k] = "put" => todo'[k] \cup {target'[k]} \subseteq rest /\ rest # {}
    BY TypesApart, ProceedOf DEF GoesTo, TypeInv, PassTypeOK
<1>4. CallInv'
    BY <1>3 DEF ReleaseInv, CallInv, OnePass, Recorded
<1>5. PlainInv'
    BY DEF ReleaseInv, PlainInv, CallInv, Recorded
<1> QED
    BY <1>2, <1>4, <1>5 DEF ReleaseInv, InTurnInv

LEMMA PutArrivesRelease ==
    ASSUME TypeInv, SyncInv, ReleaseInv, OnePass, NEW k \in Passes, PutArrives(k)
    PROVE  ReleaseInv'
<1>1. /\ at[k] = "put" /\ target[k] \in Projects
      /\ at' = [at EXCEPT ![k] = "told"]
      /\ UNCHANGED <<record, orphans, stored, known, overlooked, target, todo, agent>>
    BY DEF PutArrives, recordVars, SyncInv, PassInv, Tells
<1>2. at'[k] = "told"
    BY <1>1 DEF TypeInv, PassTypeOK
<1>3. /\ \A p \in Projects \ {target[k]} : held'[p] = held[p]
      /\ agent[target[k]] # "managed" => held' = held
    BY <1>1 DEF PutArrives, TypeInv
<1>4. CallInv'
    BY <1>1, <1>2 DEF ReleaseInv, CallInv, OnePass, Recorded
<1>5. PlainInv'
    BY <1>1, <1>3 DEF ReleaseInv, PlainInv, CallInv, Recorded, TypeInv
<1> QED
    BY <1>1, <1>4, <1>5 DEF ReleaseInv, AgentInv, InTurnInv, Recorded

LEMMA DropArrivesRelease ==
    ASSUME TypeInv, ReleaseInv, OnePass, NEW k \in Passes, DropArrives(k)
    PROVE  ReleaseInv'
<1>1. /\ at' = [at EXCEPT ![k] = "bare"]
      /\ UNCHANGED <<record, orphans, stored, known, overlooked, target, todo, agent>>
      /\ \A p \in Projects : held'[p] \in {held[p], None}
    BY DEF DropArrives, recordVars, TypeInv
<1>2. at'[k] = "bare"
    BY <1>1 DEF TypeInv, PassTypeOK
<1>3. agent[target[k]] = "managed" /\ target[k] \in known => held'[target[k]] = None
    BY DEF DropArrives, TypeInv
<1>4. CallInv'
    BY <1>1, <1>2, <1>3 DEF CallInv, OnePass
<1>5. PlainInv'
    BY <1>1 DEF ReleaseInv, PlainInv, Recorded, TypeInv
<1> QED
    BY <1>1, <1>4, <1>5 DEF ReleaseInv, AgentInv, InTurnInv, Recorded

LEMMA PassRelease ==
    ASSUME TypeInv, SyncInv, ReleaseInv, OnePass, NEW k \in Passes,
           \/ PassStarts(k) \/ PutArrives(k) \/ PutAnswered(k) \/ PutLost(k)
           \/ DropArrives(k) \/ DropAnswered(k) \/ DropLost(k)
    PROVE  ReleaseInv'
<1>1. CASE PassStarts(k)
    BY <1>1, ProceedRelease DEF PassStarts, agentVars
<1>2. CASE PutArrives(k)
    BY <1>2, PutArrivesRelease
<1>3. CASE PutAnswered(k)
    BY <1>3, ProceedRelease DEF PutAnswered, agentVars, ReleaseInv, CallInv
<1>4. CASE PutLost(k)
    BY <1>4, ProceedRelease DEF PutLost, agentVars, ReleaseInv, CallInv
<1>5. CASE DropArrives(k)
    BY <1>5, DropArrivesRelease
<1>6. CASE DropAnswered(k)
    <2>1. target[k] \in orphans
        BY <1>6 DEF DropAnswered, SyncInv, PassInv, Releases
    <2> QED
        BY <1>6, <2>1, ProceedRelease DEF DropAnswered, agentVars
<1>7. CASE DropLost(k)
    BY <1>7, ProceedRelease DEF DropLost, agentVars
<1> QED
    BY <1>1, <1>2, <1>3, <1>4, <1>5, <1>6, <1>7

LEMMA StepRelease ==
    ASSUME OnePass, ~StopsFail, TypeInv, SyncInv, ReleaseInv, [Next]_vars
    PROVE  ReleaseInv'
<1>1. TypeInv'
    BY StepType
<1>2. CASE UNCHANGED vars
    BY <1>2 DEF vars, ReleaseInv, AgentInv, InTurnInv, CallInv, PlainInv, Recorded
<1>3. CASE \E new \in SUBSET Labs : SetLabs(new)
    BY <1>3, SetLabsRelease
<1>4. CASE Restart
    BY <1>4, RestartRelease
<1>5. CASE \/ Edit \/ StartComes \/ ClockStarts
           \/ \E new \in SUBSET Labs : UpdateLabs(new)
           \/ \E p \in Projects : RetryComes(p)
    BY <1>5, MemberRelease
<1>6. CASE \E p \in Projects :
               \/ Observe(p)
               \/ Create(p) \/ Adopt(p) \/ StartFails(p) \/ CloseAsked(p) \/ CloseEnds(p)
    BY <1>1, <1>6, ObserveRelease, AgentRelease
<1>7. CASE \E k \in Passes :
               \/ PassStarts(k)
               \/ PutArrives(k) \/ PutAnswered(k) \/ PutLost(k)
               \/ DropArrives(k) \/ DropAnswered(k) \/ DropLost(k)
    BY <1>7, PassRelease
<1> QED
    BY <1>2, <1>3, <1>4, <1>5, <1>6, <1>7 DEF Next

LEMMA InitRelease ==
    Init => ReleaseInv
BY DEF Init, ReleaseInv, AgentInv, InTurnInv, CallInv, PlainInv, Recorded

\* A project whose record left with its lab, and whose release ended, holds no exam
\* (ExamProjects.sync_member: "the orphans told to drop theirs"), whatever requests
\* and answers were lost, wherever the portal restarted, and whatever project the
\* lists missed.  Where they miss none, so does a project whose record another one
\* took (Exams.observe): the run exam_sync_hidden shows what becomes of it otherwise.
THEOREM ReleasedIsPlain ==
    ASSUME OnePass, ~LabsReturn, ~StopsFail
    PROVE  Spec => [](DroppedIsPlain /\ (~ListsMiss => UnrecordedIsPlain))
<1>1. Init => TypeInv /\ SyncInv /\ ReleaseInv
    BY InitType, InitSync, InitRelease
<1>2. TypeInv /\ SyncInv /\ ReleaseInv /\ [Next]_vars => (TypeInv /\ SyncInv /\ ReleaseInv)'
    BY StepType, StepSync, StepRelease
<1>3. ReleaseInv => DroppedIsPlain /\ (~ListsMiss => UnrecordedIsPlain)
    BY DEF ReleaseInv, InTurnInv, PlainInv, DroppedIsPlain, UnrecordedIsPlain
<1> QED
    BY <1>1, <1>2, <1>3, PTL DEF Spec

-----------------------------------------------------------------------------
\* A lab that is not the student's any more, when the records follow the labs.

LEMMA StepRecord ==
    ASSUME TypeInv, RecordInv, [Next]_vars, labs' # labs => SetLabs(labs')
    PROVE  RecordInv'
<1>1. CASE \E new \in SUBSET Labs : SetLabs(new)
    BY <1>1 DEF SetLabs, LabsBecome, RecordInv
<1>2. CASE \E p \in Projects : Observe(p)
  <2>1. PICK p \in Projects : Observe(p)
      BY <1>2
  <2>2. labs' = labs /\ p[1] \in labs /\ record' = [record EXCEPT ![p[1]] = p]
      BY <2>1 DEF Observe
  <2> QED
      BY <2>2 DEF RecordInv, TypeInv
<1>3. CASE UNCHANGED <<labs, record>>
    BY <1>3 DEF RecordInv
<1>4. ASSUME NEW p \in Projects,
             \/ RetryComes(p) \/ Create(p) \/ Adopt(p) \/ StartFails(p)
             \/ CloseAsked(p) \/ CloseEnds(p)
      PROVE  UNCHANGED <<labs, record>>
    BY <1>4 DEF RetryComes, Create, Adopt, StartFails, CloseAsked, CloseEnds, memberVars,
                recordVars
<1>5. ASSUME NEW k \in Passes,
             \/ PassStarts(k) \/ PutArrives(k) \/ PutAnswered(k) \/ PutLost(k)
             \/ DropArrives(k) \/ DropAnswered(k) \/ DropLost(k)
      PROVE  UNCHANGED <<labs, record>>
    BY <1>5 DEF PassStarts, PutArrives, PutAnswered, PutLost, DropArrives, DropAnswered,
                DropLost, memberVars, recordVars
<1>6. CASE Edit \/ StartComes \/ ClockStarts \/ Restart
    BY <1>3, <1>6 DEF Edit, StartComes, ClockStarts, Restart, memberVars, recordVars
<1>7. CASE UNCHANGED vars
    BY <1>3, <1>7 DEF vars
<1>8. CASE \E new \in SUBSET Labs : UpdateLabs(new)
  <2>1. labs' # labs /\ labs' \in SUBSET Labs
      BY <1>8 DEF UpdateLabs
  <2> QED
      BY <1>1, <2>1
<1> QED
    BY <1>1, <1>2, <1>3, <1>4, <1>5, <1>6, <1>7, <1>8 DEF Next

\* The projects but those whose record another one of their lab took.
LabGoneApart ==
    Settled => \A p \in known \ overlooked :
        agent[p] = "managed" /\ p[1] \notin labs => held[p] = None

\* A project the portal saw drops its exam when its lab is no longer the student's
\* (web.md, of ExamProjects.sync_member), once no call is left to do, as long as labs
\* are changed by Exams.set_labs, which makes orphans of their projects, and never by
\* Exams.update, which leaves their exam in place (exams.py:657).  The projects
\* Exams.observe replaced are among them only where the lists miss none.
THEOREM LabGoneCorrect ==
    ASSUME OnePass, ~LabsReturn, ~StopsFail
    PROVE  Spec /\ [][labs' # labs => SetLabs(labs')]_vars
               => [](LabGoneApart /\ (~ListsMiss => LabGoneIsPlain))
<1>1. Init => TypeInv /\ RecordInv
    BY InitType DEF Init, RecordInv
<1>2. /\ TypeInv /\ RecordInv
      /\ [Next]_vars /\ [labs' # labs => SetLabs(labs')]_vars
      => (TypeInv /\ RecordInv)'
  <2> SUFFICES ASSUME TypeInv, RecordInv, [Next]_vars, [labs' # labs => SetLabs(labs')]_vars
               PROVE  (TypeInv /\ RecordInv)'
      OBVIOUS
  <2>1. labs' # labs => SetLabs(labs')
      BY DEF vars
  <2> QED
      BY <2>1, StepType, StepRecord
<1>3. /\ TypeInv /\ RecordInv
      /\ DroppedIsPlain /\ (~ListsMiss => UnrecordedIsPlain)
      => LabGoneApart /\ (~ListsMiss => LabGoneIsPlain)
    BY RecordedOf, SyncAssumption
       DEF DroppedIsPlain, UnrecordedIsPlain, LabGoneApart, LabGoneIsPlain, Settled, RecordInv,
           Projects
<1>4. Spec => [](DroppedIsPlain /\ (~ListsMiss => UnrecordedIsPlain))
    BY ReleasedIsPlain
<1> QED
    BY <1>1, <1>2, <1>3, <1>4, PTL DEF Spec

-----------------------------------------------------------------------------
\* What the portal notes of an agent that took the object or holds no project.

\* Neither the agents nor the notes change, but for notes that go.
LEMMA MemberTell ==
    ASSUME TypeInv, TypeInv', TellInv,
           UNCHANGED <<agent, accepted>>,
           \A p \in Recorded' : p \in Recorded \/ Begun(p),
           \A p \in Projects : synced'[p] \in {synced[p], stored[1][p], None},
           \A p \in Projects : stored'[1][p] \in {synced[p], stored[1][p], None},
           \A k \in Passes :
              \/ at'[k] = "off"
              \/ at'[k] = at[k] /\ target'[k] = target[k] /\ todo'[k] \subseteq todo[k]
    PROVE  TellInv'
BY DEF TellInv, Begun

LEMMA LabsTell ==
    ASSUME TypeInv, TypeInv', TellInv,
           NEW new \in SUBSET Labs, SetLabs(new) \/ UpdateLabs(new)
    PROVE  TellInv'
<1>1. CASE UpdateLabs(new)
    BY <1>1, MemberTell DEF UpdateLabs, recordVars, passVars, agentVars, Recorded
<1>2. CASE SetLabs(new)
  <2>1. Recorded' \subseteq Recorded
      BY <1>2 DEF SetLabs, LabsBecome, Recorded
  <2>2. \A k \in Passes : todo'[k] \subseteq todo[k]
      BY <1>2 DEF SetLabs, LabsBecome, Forgotten
  <2>3. \A p \in Projects : synced'[p] \in {synced[p], None} /\ stored'[1] = synced'
      BY <1>2 DEF SetLabs, LabsBecome
  <2> QED
      BY <1>2, <2>1, <2>2, <2>3, MemberTell DEF SetLabs, LabsBecome, agentVars
<1> QED
    BY <1>1, <1>2

LEMMA ObserveTell ==
    ASSUME TypeInv, TypeInv', TellInv, ~ListsCreating, NEW p \in Projects, Observe(p)
    PROVE  TellInv'
<1>1. Begun(p)
    BY DEF Observe, Begun
<1>2. Recorded' \subseteq Recorded \cup {p}
    BY DEF Observe, Recorded
<1>3. \A k \in Passes : todo'[k] \subseteq todo[k]
    BY DEF Observe, Forgotten
<1>4. \A q \in Projects : synced'[q] \in {synced[q], None} /\ stored'[1] = synced'
    BY DEF Observe
<1> QED
    BY <1>1, <1>2, <1>3, <1>4, MemberTell DEF Observe, agentVars

\* A project that began goes on to its end.
LEMMA AgentTell ==
    ASSUME TypeInv, TypeInv', SyncInv, TellInv, ~StopsFail, NEW p \in Projects,
           Create(p) \/ Adopt(p) \/ StartFails(p) \/ CloseAsked(p) \/ CloseEnds(p)
    PROVE  TellInv'
<1>1. UNCHANGED <<record, synced, stored, passVars>>
    BY DEF Create, Adopt, StartFails, CloseAsked, CloseEnds, recordVars
<1>2. \A q \in Projects : Begun(q) => Begun(q)'
    BY DEF Create, Adopt, StartFails, CloseAsked, CloseEnds, TypeInv, Begun
<1>3. \A q \in Projects : agent'[q] = "managed" => agent[q] \in {"managed", "creating"}
    BY DEF Create, Adopt, StartFails, CloseAsked, CloseEnds, TypeInv
<1>4. \A q \in Projects : agent'[q] = "managed" /\ q \in accepted => q \in accepted'
    BY DEF Create, Adopt, StartFails, CloseAsked, CloseEnds, TypeInv
<1>5. \A q \in Recorded : q \in Projects /\ Begun(q)
    BY DEF TellInv, Recorded, TypeInv
<1>6. \A q \in Recorded : Begun(q)'
    BY <1>2, <1>5
<1>7. ASSUME NEW q \in Projects, synced[q] # None \/ stored[1][q] # None, agent'[q] = "managed"
      PROVE  q \in accepted'
  <2>1. q \in Recorded
      BY <1>7, RecordedOf DEF SyncInv, NoteInv
  <2> QED
      BY <1>3, <1>4, <1>5, <1>7, <2>1 DEF TellInv, Begun
<1>8. ASSUME NEW k \in Passes, at[k] \in {"put", "told"}
      PROVE  /\ \A q \in todo[k] \cup {target[k]} : Begun(q)'
             /\ at[k] = "told" /\ agent'[target[k]] = "managed" => target[k] \in accepted'
  <2>1. todo[k] \cup {target[k]} \subseteq Projects
      BY <1>8 DEF TypeInv, PassTypeOK
  <2>2. Begun(target[k])
      BY <1>8 DEF TellInv
  <2> QED
      BY <1>2, <1>3, <1>4, <1>8, <2>1, <2>2 DEF TellInv, Begun
<1> QED
    BY <1>1, <1>6, <1>7, <1>8 DEF TellInv, Recorded, passVars

\* A pass goes on, with what it noted of the project that answered.
LEMMA ProceedTell ==
    ASSUME TypeInv, TypeInv', TellInv, OnePass, NEW k \in Passes, NEW object, NEW rest, NEW left,
           Proceed(k, object, rest, left),
           UNCHANGED <<record, agent, accepted>>,
           \A p \in rest : Begun(p),
           \/ synced' = synced
           \/ /\ at[k] = "told"
              /\ \A p \in Projects \ {target[k]} : synced'[p] = synced[p]
    PROVE  TellInv'
<1>1. stored' \in {stored, <<synced', orphans'>>}
    BY TypesApart, ProceedOf
<1>2. /\ at'[k] \in {"put", "drop", "off"}
      /\ at'[k] = "put" => todo'[k] \cup {target'[k]} \subseteq rest
    BY TypesApart, ProceedOf DEF GoesTo, TypeInv, PassTypeOK
<1>3. ASSUME NEW p \in Projects, synced'[p] # None, agent[p] = "managed" PROVE p \in accepted
    BY <1>3 DEF TellInv
<1>4. ASSUME NEW p \in Projects, stored'[1][p] # None, agent[p] = "managed"
      PROVE  p \in accepted
    BY <1>1, <1>3, <1>4 DEF TellInv
<1> QED
    BY <1>2, <1>3, <1>4 DEF TellInv, OnePass, Begun, Recorded

LEMMA PutArrivesTell ==
    ASSUME TypeInv, TypeInv', TellInv, OnePass, NEW k \in Passes, PutArrives(k)
    PROVE  TellInv'
<1>1. /\ UNCHANGED <<record, synced, stored, target, todo, agent>>
      /\ at[k] = "put"
      /\ accepted' = IF agent[target[k]] = "managed" THEN accepted \cup {target[k]}
                                                   ELSE accepted \ {target[k]}
    BY DEF PutArrives, recordVars
<1> QED
    BY <1>1 DEF TellInv, OnePass, Begun, Recorded

LEMMA StepTell ==
    ASSUME OnePass, ~ListsCreating, ~StopsFail, TypeInv, SyncInv, TellInv, [Next]_vars
    PROVE  TellInv'
<1>1. TypeInv'
    BY StepType
<1>2. CASE UNCHANGED vars
    BY <1>2 DEF vars, TellInv, Begun, Recorded
<1>3. CASE Edit \/ StartComes \/ ClockStarts \/ Restart \/ \E p \in Projects : RetryComes(p)
  <2>1. Recorded' = Recorded /\ UNCHANGED <<agent, accepted>>
      BY <1>3 DEF Edit, StartComes, ClockStarts, Restart, RetryComes, recordVars, agentVars,
                  Recorded
  <2>2. synced' \in {synced, stored[1]} /\ stored' \in {stored, <<synced, orphans>>}
      BY <1>3 DEF Edit, StartComes, ClockStarts, Restart, RetryComes, recordVars
  <2>3. \A k \in Passes :
            \/ at'[k] = "off"
            \/ at'[k] = at[k] /\ target'[k] = target[k] /\ todo'[k] = todo[k]
      BY <1>3 DEF Edit, StartComes, ClockStarts, Restart, RetryComes, passVars
  <2> QED
      BY <1>1, <2>1, <2>2, <2>3, MemberTell
<1>4. CASE \E new \in SUBSET Labs : SetLabs(new) \/ UpdateLabs(new)
    BY <1>1, <1>4, LabsTell
<1>5. CASE \E p \in Projects :
               \/ Observe(p)
               \/ Create(p) \/ Adopt(p) \/ StartFails(p) \/ CloseAsked(p) \/ CloseEnds(p)
    BY <1>1, <1>5, ObserveTell, AgentTell
<1>6. ASSUME NEW k \in Passes, PassStarts(k) PROVE TellInv'
    BY <1>1, <1>6, ProceedTell DEF PassStarts, agentVars, TellInv
<1>7. ASSUME NEW k \in Passes, PutArrives(k) PROVE TellInv'
    BY <1>1, <1>7, PutArrivesTell
<1>8. ASSUME NEW k \in Passes, PutAnswered(k) PROVE TellInv'
  <2>1. \A p \in Projects \ {target[k]} : synced'[p] = synced[p]
      BY <1>8 DEF PutAnswered, TypeInv
  <2> QED
      BY <1>1, <1>8, <2>1, ProceedTell DEF PutAnswered, agentVars, TellInv
<1>9. ASSUME NEW k \in Passes, PutLost(k) PROVE TellInv'
    BY <1>1, <1>9, ProceedTell DEF PutLost, agentVars, TellInv
<1>10. ASSUME NEW k \in Passes, DropArrives(k) PROVE TellInv'
    BY <1>1, <1>10 DEF DropArrives, recordVars, TellInv, OnePass, Begun, Recorded, TypeInv,
                       PassTypeOK
<1>11. ASSUME NEW k \in Passes, DropAnswered(k) \/ DropLost(k) PROVE TellInv'
  <2>1. target[k] \in orphans
      BY <1>11 DEF DropAnswered, DropLost, SyncInv, PassInv, Releases
  <2> QED
      BY <1>1, <1>11, <2>1, ProceedTell DEF DropAnswered, DropLost, agentVars
<1> QED
    BY <1>2, <1>3, <1>4, <1>5, <1>6, <1>7, <1>8, <1>9, <1>10, <1>11 DEF Next

\* A managed project whose record is up to date.
BehindIsDue ==
    \A p \in Recorded : agent[p] = "managed" /\ synced[p] = Wanted => held[p] = Wanted

\* What ExamProjects.sync_member noted as told is what the agent holds, even while a
\* call is under way: an agent that is behind is due a call (web.md: the portal updates
\* the object "every 5 s until the agent has it"), as long as a listing shows no
\* project whose sre start runs and no stop fails, the two ways an agent answers below
\* 500 without taking the object and still has the project later: the run
\* exam_sync_untold shows the first.
THEOREM ToldCorrect ==
    ASSUME OnePass, ~LabsReturn, ~ListsCreating, ~StopsFail
    PROVE  Spec => [](BehindIsDue /\ ToldIsHeld)
<1> DEFINE IInv == TypeInv /\ SyncInv /\ TellInv
<1>1. Init => IInv
  <2>1. Init => TellInv
      BY DEF Init, TellInv, Recorded
  <2> QED
      BY <2>1, InitType, InitSync
<1>2. IInv /\ [Next]_vars => IInv'
    BY StepType, StepSync, StepTell
<1>3. IInv => BehindIsDue
  <2> SUFFICES ASSUME IInv, NEW p \in Recorded, agent[p] = "managed", synced[p] = Wanted
               PROVE  held[p] = Wanted
      BY DEF BehindIsDue
  <2>1. p \in Projects /\ Wanted \in NoteValues /\ Wanted # None
      BY RecordedOf, WantedType, TypesApart, SyncAssumption
  <2>2. p \in accepted
      BY <2>1 DEF TellInv
  <2>3. AtMost(Wanted, held[p]) /\ AtMost(held[p], Wanted)
      BY <2>2 DEF SyncInv, HeldInv
  <2>4. held[p] \in NoteValues
      BY <2>1, Values
  <2> QED
      BY <2>1, <2>3, <2>4, OrderOf
<1>4. BehindIsDue => ToldIsHeld
    BY DEF BehindIsDue, ToldIsHeld
<1> HIDE DEF IInv
<1> QED
    BY <1>1, <1>2, <1>3, <1>4, PTL DEF Spec
-----------------------------------------------------------------------------
\* The delivery.

LEMMA OrderIs ==
    \A a, b \in NoteValues : <<a, b>> \in Order <=> AtMost(a, b)
BY DEF Order

LEMMA HeldTypes ==
    ASSUME TypeInv
    PROVE  \A p \in Projects : held[p] \in NoteValues /\ born[p] \in NoteValues
BY DEF TypeInv, NoteValues

\* What the portal wants may grow, and the agents do nothing.
LEMMA CalmHold ==
    ASSUME TypeInv, TypeInv', HoldInv,
           \/ started' = started /\ edit' \in {edit, edit + 1}
           \/ started' = TRUE /\ edit' = edit,
           UNCHANGED <<at, payload, target, agent, held, born>>,
           \A k \in Passes : todo'[k] \subseteq todo[k],
           \A p \in Recorded' : p \in Recorded \/ agent[p] # "absent"
    PROVE  HoldInv'
<1>1. \A a \in NoteValues : AtMost(a, Wanted) => AtMost(a, Wanted')
    BY LaterWanted
<1> QED
    BY <1>1, HeldTypes DEF HoldInv

LEMMA MemberHold ==
    ASSUME TypeInv, TypeInv', HoldInv,
           \/ Edit \/ StartComes \/ ClockStarts
           \/ \E new \in SUBSET Labs : SetLabs(new) \/ UpdateLabs(new)
           \/ \E p \in Projects : Observe(p) \/ RetryComes(p)
    PROVE  HoldInv'
<1> USE DEF memberVars, recordVars, passVars, agentVars
<1>1. CASE Edit
    BY <1>1, CalmHold DEF Edit, Recorded
<1>2. CASE StartComes
    BY <1>2, CalmHold DEF StartComes, Recorded
<1>3. CASE ClockStarts
    BY <1>3, CalmHold DEF ClockStarts, Recorded
<1>4. ASSUME NEW new \in SUBSET Labs, SetLabs(new) PROVE HoldInv'
  <2>1. \A k \in Passes : todo'[k] \subseteq todo[k]
      BY <1>4 DEF SetLabs, LabsBecome, Forgotten
  <2>2. Recorded' \subseteq Recorded
      BY <1>4 DEF SetLabs, LabsBecome, Recorded
  <2> QED
      BY <1>4, <2>1, <2>2, CalmHold DEF SetLabs, LabsBecome
<1>5. ASSUME NEW new \in SUBSET Labs, UpdateLabs(new) PROVE HoldInv'
    BY <1>5, CalmHold DEF UpdateLabs, Recorded
<1>6. ASSUME NEW p \in Projects, Observe(p) PROVE HoldInv'
  <2>1. \A k \in Passes : todo'[k] \subseteq todo[k]
      BY <1>6 DEF Observe, Forgotten
  <2>2. \A q \in Recorded' : q \in Recorded \/ agent[q] # "absent"
    <3>1. Recorded' \subseteq Recorded \cup {p}
        BY <1>6 DEF Observe, Recorded
    <3> QED
        BY <1>6, <3>1 DEF Observe
  <2>3. started' = started \/ started' = TRUE
      BY <1>6 DEF Observe, TypeInv
  <2> QED
      BY <1>6, <2>1, <2>2, <2>3, CalmHold DEF Observe
<1>7. ASSUME NEW p \in Projects, RetryComes(p) PROVE HoldInv'
    BY <1>7, CalmHold DEF RetryComes, Recorded
<1> QED
    BY <1>1, <1>2, <1>3, <1>4, <1>5, <1>6, <1>7

LEMMA RestartHold ==
    ASSUME HoldInv, Restart
    PROVE  HoldInv'
<1>1. \A k \in Passes : at'[k] = "off"
    BY DEF Restart
<1> QED
    BY <1>1 DEF Restart, memberVars, agentVars, Wanted, Recorded, HoldInv

\* A creation carries what is wanted then, and a pass has nothing to say about a
\* project that is not there yet.
LEMMA AgentHold ==
    ASSUME TypeInv, TypeInv', HoldInv, NEW p \in Projects,
           Create(p) \/ Adopt(p) \/ StartFails(p) \/ CloseAsked(p) \/ CloseEnds(p)
    PROVE  HoldInv'
<1>1. UNCHANGED <<memberVars, record, passVars>>
    BY DEF Create, Adopt, StartFails, CloseAsked, CloseEnds, recordVars
<1>2. Wanted' = Wanted /\ Recorded' = Recorded /\ Wanted \in NoteValues
    BY <1>1, Values DEF memberVars, Wanted, Recorded
<1>3. \A a \in NoteValues : AtMost(None, a) /\ AtMost(a, a)
    BY OrderOf
<1>4. \A q \in Projects \ {p} :
          agent'[q] = agent[q] /\ held'[q] = held[q] /\ born'[q] = born[q]
    BY DEF Create, Adopt, StartFails, CloseAsked, CloseEnds, TypeInv
<1>5. \/ /\ agent[p] = "absent" /\ agent'[p] = "creating"
         /\ held'[p] = held[p] /\ born'[p] = Wanted
      \/ /\ agent[p] # "absent" /\ agent'[p] \notin {"absent", "creating"}
         /\ held'[p] \in {held[p], born[p], None}
         /\ born'[p] \in {born[p], None}
    BY DEF Create, Adopt, StartFails, CloseAsked, CloseEnds, TypeInv
<1>6. \A k \in Passes : payload[k] \in NoteValues
    BY Values
<1>7. /\ AtMost(held'[p], Wanted) /\ AtMost(born'[p], Wanted)
      /\ agent'[p] \in {"absent", "creating"} => held'[p] = None
      /\ agent'[p] # "absent"
    BY <1>2, <1>3, <1>5 DEF HoldInv
<1>8. ASSUME NEW k \in Passes, at[k] \in {"put", "told"}, NEW q \in todo[k] \cup {target[k]}
      PROVE  /\ agent'[q] # "absent"
             /\ AtMost(held'[q], payload[k]) /\ AtMost(born'[q], payload[k])
  <2>1. q \in Projects
      BY <1>8 DEF TypeInv, PassTypeOK
  <2>2. /\ agent[q] # "absent"
        /\ AtMost(held[q], payload[k]) /\ AtMost(born[q], payload[k])
      BY <1>8 DEF HoldInv
  <2> QED
      BY <1>3, <1>4, <1>5, <1>6, <1>7, <2>1, <2>2
<1>9. Recorded \subseteq Projects
    BY DEF Recorded, TypeInv
<1> QED
    BY <1>1, <1>2, <1>4, <1>7, <1>8, <1>9 DEF HoldInv, passVars

\* A pass goes on with an object that is as late as what its records hold.
LEMMA ProceedHold ==
    ASSUME TypeInv, HoldInv, OnePass, NEW k \in Passes, NEW object, NEW rest, NEW left,
           Proceed(k, object, rest, left),
           UNCHANGED <<memberVars, record, agentVars>>,
           \A p \in rest : /\ agent[p] # "absent"
                           /\ AtMost(held[p], object) /\ AtMost(born[p], object)
    PROVE  HoldInv'
<1>1. /\ at'[k] \in {"put", "drop", "off"}
      /\ at'[k] = "put" =>
            todo'[k] \cup {target'[k]} \subseteq rest /\ payload'[k] = object
    BY TypesApart, ProceedOf DEF GoesTo, TypeInv, PassTypeOK
<1> QED
    BY <1>1 DEF HoldInv, OnePass, memberVars, agentVars, Wanted, Recorded

LEMMA PutArrivesHold ==
    ASSUME TypeInv, SyncInv, HoldInv, OnePass, NEW k \in Passes, PutArrives(k)
    PROVE  HoldInv'
<1> DEFINE p == target[k]
<1>1. /\ at[k] = "put" /\ Tells(k)
      /\ at' = [at EXCEPT ![k] = "told"]
      /\ UNCHANGED <<memberVars, record, payload, target, todo, agent, born>>
    BY DEF PutArrives, recordVars, SyncInv, PassInv
<1>2. /\ Wanted' = Wanted /\ Recorded' = Recorded
      /\ p \in Projects /\ payload[k] \in NoteValues
    BY <1>1, Values DEF memberVars, Wanted, Recorded, Tells
<1>3. /\ \A q \in Projects \ {p} : held'[q] = held[q]
      /\ held'[p] \in {held[p], payload[k]}
      /\ agent[p] # "managed" => held' = held
    BY <1>2 DEF PutArrives, TypeInv
<1>4. AtMost(payload[k], payload[k]) /\ AtMost(payload[k], Wanted)
    BY <1>1, <1>2, OrderOf DEF Tells
<1>5. \A q \in Projects : /\ AtMost(held'[q], Wanted) /\ AtMost(born[q], Wanted)
                          /\ agent[q] \in {"absent", "creating"} => held'[q] = None
    BY <1>3, <1>4 DEF HoldInv
<1>6. \A q \in todo[k] \cup {p} :
          /\ agent[q] # "absent"
          /\ AtMost(held'[q], payload[k]) /\ AtMost(born[q], payload[k])
  <2>1. todo[k] \cup {p} \subseteq Projects
      BY <1>2 DEF TypeInv, PassTypeOK
  <2> QED
      BY <1>1, <1>3, <1>4, <2>1 DEF HoldInv
<1> QED
    BY <1>1, <1>2, <1>5, <1>6 DEF HoldInv, OnePass

LEMMA DropArrivesHold ==
    ASSUME TypeInv, HoldInv, OnePass, NEW k \in Passes, DropArrives(k)
    PROVE  HoldInv'
<1>1. /\ at[k] = "drop" /\ at' = [at EXCEPT ![k] = "bare"]
      /\ \A p \in Projects : held'[p] \in {held[p], None}
      /\ UNCHANGED <<memberVars, record, payload, target, todo, agent, born>>
    BY DEF DropArrives, recordVars, TypeInv
<1>2. /\ Wanted' = Wanted /\ Recorded' = Recorded
      /\ at'[k] = "bare" /\ AtMost(None, Wanted)
    BY <1>1, Values, OrderOf DEF memberVars, Wanted, Recorded, TypeInv, PassTypeOK
<1> QED
    BY <1>1, <1>2 DEF HoldInv, OnePass

LEMMA StepHold ==
    ASSUME OnePass, TypeInv, SyncInv, HoldInv, [Next]_vars
    PROVE  HoldInv'
<1>1. TypeInv'
    BY StepType
<1>2. CASE UNCHANGED vars
    BY <1>2 DEF vars, HoldInv, Wanted, Recorded
<1>3. CASE \/ Edit \/ StartComes \/ ClockStarts
           \/ \E new \in SUBSET Labs : SetLabs(new) \/ UpdateLabs(new)
           \/ \E p \in Projects : Observe(p) \/ RetryComes(p)
    BY <1>1, <1>3, MemberHold
<1>4. CASE Restart
    BY <1>4, RestartHold
<1>5. ASSUME NEW p \in Projects,
             Create(p) \/ Adopt(p) \/ StartFails(p) \/ CloseAsked(p) \/ CloseEnds(p)
      PROVE  HoldInv'
    BY <1>1, <1>5, AgentHold
<1>6. ASSUME NEW k \in Passes, PassStarts(k) PROVE HoldInv'
  <2>1. \A p \in Recorded : p \in Projects
      BY DEF Recorded, TypeInv
  <2> QED
      BY <1>6, <2>1, ProceedHold DEF PassStarts, HoldInv
<1>7. ASSUME NEW k \in Passes, PutAnswered(k) \/ PutLost(k) PROVE HoldInv'
    BY <1>7, ProceedHold DEF PutAnswered, PutLost, HoldInv
<1>8. ASSUME NEW k \in Passes, DropAnswered(k) \/ DropLost(k) PROVE HoldInv'
  <2>1. target[k] \in orphans
      BY <1>8 DEF DropAnswered, DropLost, SyncInv, PassInv, Releases
  <2> QED
      BY <1>8, <2>1, ProceedHold DEF DropAnswered, DropLost
<1> QED
    BY <1>2, <1>3, <1>4, <1>5, <1>6, <1>7, <1>8, PutArrivesHold, DropArrivesHold DEF Next

LEMMA InitHold ==
    Init => HoldInv
<1> SUFFICES ASSUME Init PROVE HoldInv
    OBVIOUS
<1>1. AtMost(None, Wanted)
    BY InitType, Values, OrderOf
<1> QED
    BY <1>1 DEF Init, HoldInv, Recorded

\* The agents do nothing: a change, or nothing the contract shows.
LEMMA CalmDelivers ==
    ASSUME TypeInv, TypeInv', held' = held,
           \/ started' = started /\ edit' \in {edit, edit + 1}
           \/ started' = TRUE /\ edit' = edit
    PROVE  Delivery!Note \/ Delivery!Change
<1>1. AtMost(Wanted, Wanted')
    BY WantedGrows, TypesApart DEF TypeInv, TypeOK, PassTypeOK
<1>2. Wanted \in NoteValues /\ Wanted' \in NoteValues \ {None}
    BY SyncAssumption DEF TypeInv, Wanted, Objects, NoteValues
<1>3. <<Wanted, Wanted'>> \in Order
    BY <1>1, <1>2, OrderIs
<1> QED
    BY <1>2, <1>3 DEF Delivery!Change

\* A later object, that is wanted.
LEMMA Delivers ==
    ASSUME TypeInv, NEW p \in Projects, NEW v \in NoteValues,
           held' = [held EXCEPT ![p] = v], Wanted' = Wanted,
           AtMost(held[p], v), AtMost(v, Wanted)
    PROVE  Delivery!Deliver(p)
<1>1. held[p] \in NoteValues /\ Wanted \in NoteValues
    BY HeldTypes, Values
<1>2. <<held[p], v>> \in Order /\ <<v, Wanted>> \in Order
    BY <1>1, OrderIs
<1> QED
    BY <1>2 DEF Delivery!Deliver

LEMMA AgentDelivers ==
    ASSUME TypeInv, TypeInv', HoldInv, NEW p \in Projects,
           Create(p) \/ Adopt(p) \/ StartFails(p) \/ CloseAsked(p) \/ CloseEnds(p)
    PROVE  \/ Delivery!Note \/ Delivery!Change
           \/ Delivery!Deliver(p) \/ Delivery!Drop(p)
<1>1. UNCHANGED <<started, edit>> /\ Wanted' = Wanted
    BY DEF Create, Adopt, StartFails, CloseAsked, CloseEnds, memberVars, Wanted
<1>2. CASE held' = held
    BY <1>1, <1>2, CalmDelivers
<1>3. CASE Adopt(p)
  <2>1. held[p] = None /\ born[p] \in NoteValues /\ AtMost(born[p], Wanted)
      BY <1>3, HeldTypes DEF Adopt, HoldInv
  <2>2. AtMost(None, born[p])
      BY <2>1, OrderOf
  <2> QED
      BY <1>1, <1>3, <2>1, <2>2, Delivers DEF Adopt
<1>4. CASE held' = [held EXCEPT ![p] = None]
    BY <1>1, <1>4 DEF Delivery!Drop
<1> QED
    BY <1>2, <1>3, <1>4 DEF Create, StartFails, CloseAsked, CloseEnds

LEMMA CallDelivers ==
    ASSUME TypeInv, TypeInv', SyncInv, HoldInv, NEW k \in Passes,
           PutArrives(k) \/ DropArrives(k)
    PROVE  \/ Delivery!Note \/ Delivery!Change
           \/ \E p \in Projects : Delivery!Deliver(p) \/ Delivery!Drop(p)
<1>1. /\ UNCHANGED <<started, edit>> /\ Wanted' = Wanted
      /\ target[k] \in Projects
    BY DEF PutArrives, DropArrives, memberVars, Wanted, TypeInv, PassTypeOK
<1>2. CASE held' = held
    BY <1>1, <1>2, CalmDelivers
<1>3. CASE PutArrives(k) /\ held' = [held EXCEPT ![target[k]] = payload[k]]
  <2>1. /\ payload[k] \in NoteValues /\ AtMost(payload[k], Wanted)
        /\ AtMost(held[target[k]], payload[k])
      BY <1>3, Values DEF PutArrives, SyncInv, PassInv, Tells, HoldInv
  <2> QED
      BY <1>1, <1>3, <2>1, Delivers
<1>4. CASE held' = [held EXCEPT ![target[k]] = None]
    BY <1>1, <1>4 DEF Delivery!Drop
<1> QED
    BY <1>2, <1>3, <1>4 DEF PutArrives, DropArrives

LEMMA StepDelivers ==
    ASSUME TypeInv, TypeInv', SyncInv, SyncInv', HoldInv, Next
    PROVE  Delivery!Next
<1> DEFINE Moves == \/ Delivery!Note \/ Delivery!Change
                    \/ \E p \in Projects : Delivery!Deliver(p) \/ Delivery!Drop(p)
<1>1. Delivery!Notes
  <2>1. /\ accepted' \subseteq Projects
        /\ \A p \in accepted' : /\ synced'[p] \in NoteValues /\ held'[p] \in NoteValues
                                /\ AtMost(synced'[p], held'[p])
      BY DEF TypeInv, SyncInv, HeldInv, NoteValues
  <2>2. \A p \in accepted' : <<synced'[p], held'[p]>> \in Order
      BY <2>1, OrderIs
  <2> QED
      BY <2>1, <2>2 DEF Delivery!Notes
<1>2. ASSUME held' = held, UNCHANGED <<started, edit>> PROVE Moves
    BY <1>2, CalmDelivers
<1>3. ASSUME Edit \/ StartComes \/ ClockStarts \/ Restart PROVE Moves
    BY <1>3, CalmDelivers DEF Edit, StartComes, ClockStarts, Restart, memberVars, agentVars
<1>4. ASSUME NEW new \in SUBSET Labs, SetLabs(new) \/ UpdateLabs(new) PROVE Moves
    BY <1>2, <1>4 DEF SetLabs, LabsBecome, UpdateLabs, agentVars
<1>5. ASSUME NEW p \in Projects, Observe(p) \/ RetryComes(p) PROVE Moves
  <2>1. /\ held' = held /\ edit' = edit
        /\ started' = started \/ started' = TRUE
      BY <1>5 DEF Observe, RetryComes, memberVars, agentVars, TypeInv
  <2> QED
      BY <2>1, CalmDelivers
<1>6. ASSUME NEW k \in Passes,
             \/ PassStarts(k) \/ PutAnswered(k) \/ PutLost(k)
             \/ DropAnswered(k) \/ DropLost(k)
      PROVE  Moves
    BY <1>2, <1>6 DEF PassStarts, PutAnswered, PutLost, DropAnswered, DropLost, memberVars,
                      agentVars
<1>7. Moves
    BY <1>3, <1>4, <1>5, <1>6, AgentDelivers, CallDelivers DEF Next
<1> QED
    BY <1>1, <1>7 DEF Delivery!Next

LEMMA InitDelivers ==
    Init => Delivery!Init
<1> SUFFICES ASSUME Init PROVE Delivery!Init
    OBVIOUS
<1>1. Wanted \in NoteValues \ {None}
    BY SyncAssumption, InitType DEF TypeInv, Wanted, Objects, NoteValues
<1> QED
    BY <1>1 DEF Init, Delivery!Init

\* The exam object of a project never gives way on its agent to an older one, and
\* the portal never notes a later one than the agent has (ExamProjects.sync_member,
\* exam_put, the creation of a project): ExamSync implements ExamDelivery, for any
\* labs, projects, changes, losses and restarts.
THEOREM DeliveryCorrect ==
    ASSUME OnePass, ~LabsReturn
    PROVE  Spec => DeliveryHolds
<1> DEFINE IInv == TypeInv /\ SyncInv /\ HoldInv
<1>1. Init => IInv /\ Delivery!Init
    BY InitType, InitSync, InitHold, InitDelivers
<1>2. IInv /\ [Next]_vars => IInv'
    BY StepType, StepSync, StepHold
<1>3. IInv /\ IInv' /\ [Next]_vars => [Delivery!Next]_(Delivery!vars)
  <2>1. CASE UNCHANGED vars
      BY <2>1 DEF vars, Delivery!vars, Wanted
  <2>2. CASE Next
      BY <2>2, StepDelivers
  <2> QED
      BY <2>1, <2>2
<1> HIDE DEF IInv
<1> QED
    BY <1>1, <1>2, <1>3, PTL DEF Spec, DeliveryHolds, Delivery!Spec
=============================================================================
