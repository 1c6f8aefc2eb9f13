----------------------------- MODULE PortalExam -----------------------------
(***************************************************************************)
(* A programmed exam in the portal (src/sreweb/portal: exams.py,           *)
(* examstore.py, the exam routes of routes.py): the definition and the     *)
(* record of each student in memory and in the database, the requests of   *)
(* the students and of the instructors that read them before an await and  *)
(* change them after it, the tick, and the restarts of the portal.         *)
(*                                                                         *)
(* The portal is one asyncio loop: an action is what runs between two      *)
(* awaits.  The awaits that matter are the calls to the agents and the     *)
(* saves, each a transaction in a thread.                                  *)
(***************************************************************************)
EXTENDS ExamClock, FiniteSets

CONSTANTS
    Students, Labs,
    Exam,           \* the key of the definition among the records
    Durations, Starts, Ends,    \* the times an instructor may define
    Minutes,        \* the minutes an instructor may give or take
    Overlaps,       \* whether requests that save one record may overlap
    Newcomers,      \* whether a student may get a record while set_labs saves them all
    MaxTime,        \* bound: the clock
    MaxChanges,     \* bound: requests of the instructors
    MaxFaults,      \* bound: saves the database refuses
    MaxRestarts     \* bound: restarts of the portal

Records == Students \cup {Exam}

ASSUME PortalAssumption ==
    /\ Exam \notin Students /\ None \notin Students /\ Students # {} /\ Labs # {}
    /\ Durations \subseteq (Nat \ {0}) \cup {None}
    /\ Starts \cup Ends \subseteq Nat \cup {None}
    /\ Minutes \subseteq Nat \ {0}
    /\ {Overlaps, Newcomers} \subseteq BOOLEAN
    /\ {MaxTime, MaxChanges, MaxFaults, MaxRestarts} \subseteq Nat

VARIABLES
    now,        \* the clock of the portal
    memory,     \* the definition of the exam and the record of each student
    stored,     \* the same in the database
    dirty,      \* the records whose last save the database refused
    saving,     \* what each save under way writes
    pending,    \* the records set_labs has still to save
    editing,    \* the edit an instructor is making, between its check and its effect
    running,    \* the labs a project of the student runs for
    starting,   \* the labs a project is being started for
    asking,     \* the students whose page waits for the list of its projects
    changes, faults, restarts

requestVars == <<editing, asking>>
projectVars == <<running, starting>>
bounds == <<changes, faults, restarts>>
vars == <<now, memory, stored, dirty, saving, pending, editing, running, starting, asking,
          changes, faults, restarts>>

-----------------------------------------------------------------------------
Times == Nat \cup {None}

\* parse_extra_minutes: given or taken, never 0.
Shifts == Minutes \cup {-n : n \in Minutes}

\* The labs of an exam, or of a student: one at least.
LabSets == (SUBSET Labs) \ {{}}

Definitions ==
    [duration: (Nat \ {0}) \cup {None}, start_after: Times, end_before: Int \cup {None},
     ended_at: Times, labs: LabSets]

Members ==
    [seen: BOOLEAN, started_at: Times, ended_at: Times, extra: Int, dismissed_at: Times,
     labs: LabSets \cup {None}, projects: SUBSET Labs]

NewMember ==
    [seen |-> FALSE, started_at |-> None, ended_at |-> None, extra |-> 0, dismissed_at |-> None,
     labs |-> None, projects |-> {}]

ASSUME RecordAssumption == None \notin Members

exam == memory[Exam]

\* The students with a record.
Known == {s \in Students : memory[s] # None}

MemberOf(s) == IF memory[s] = None THEN NewMember ELSE memory[s]

\* Exam.labs_of.
LabsOf(s) == IF MemberOf(s).labs = None THEN exam.labs ELSE MemberOf(s).labs

PhaseOf(s) == Phase(exam, MemberOf(s), now)

\* Exams.for_login.
Bound(s) == PhaseOf(s) \in {"waiting", "starting", "active", "ended"}

\* Seeded fault: a clock that runs may start again.
MayStartAgain(s, m) == Begun(exam, now) /\ LabsOf(s) \subseteq m.projects

\* Exam.may_start, for the record m of s.
MayStart(s, m) ==
    /\ m.started_at = None
    /\ Begun(exam, now)
    /\ LabsOf(s) \subseteq m.projects

\* The record r becomes v and is saved: _persist_exam, _persist_member.
Save(r, v) ==
    /\ Overlaps \/ saving[r] = {}
    /\ memory' = [memory EXCEPT ![r] = v]
    /\ saving' = [saving EXCEPT ![r] = @ \cup {v}]
    /\ UNCHANGED <<now, stored, dirty>>

\* A student who gets a record while set_labs goes through them joins the loop if
\* it did not begin, and else ends it: RuntimeError.
Joined(s) ==
    IF memory[s] # None \/ pending = {} THEN pending
    ELSE IF saving[Exam] # {} THEN pending \cup {s} ELSE {}

SaveMember(s, m) ==
    /\ memory[s] # None \/ pending = {} \/ Newcomers
    /\ Save(s, m)
    /\ pending' = Joined(s)

\* Exam.member: the record of s is made if there is none, and nothing is saved.
MakeMember(s) ==
    /\ memory[s] # None \/ pending = {} \/ Newcomers
    /\ memory' = [memory EXCEPT ![s] = MemberOf(s)]
    /\ pending' = Joined(s)
    /\ UNCHANGED <<now, stored, dirty, saving>>

\* No other change of the instructors is under way.
MayChange ==
    /\ changes < MaxChanges
    /\ Overlaps \/ editing = None
    /\ changes' = changes + 1
    /\ UNCHANGED <<requestVars, projectVars, faults, restarts>>

-----------------------------------------------------------------------------
\* The instructors.

\* Exams.end_now.
EndNowForAll ==
    /\ MayChange
    /\ Save(Exam, [exam EXCEPT !.ended_at = now])
    /\ UNCHANGED pending

EndNow(s) ==
    /\ MayChange
    /\ SaveMember(s, [MemberOf(s) EXCEPT !.ended_at = now])

\* Seeded fault: a duration may be taken away whole.
ShiftedToNothing(n) ==
    [exam EXCEPT !.duration = IF @ = None THEN None ELSE @ + n,
                 !.end_before = IF @ = None THEN None ELSE @ + n,
                 !.ended_at = None]

\* Exams.adjust: for everybody the duration and the end move, for one their extra time.
ShiftedBy(n) ==
    [exam EXCEPT !.duration = IF @ = None THEN None ELSE Later(1, @ + n),
                 !.end_before = IF @ = None THEN None ELSE @ + n,
                 !.ended_at = None]

AdjustAll(n) ==
    /\ MayChange
    /\ Save(Exam, ShiftedBy(n))
    /\ UNCHANGED pending

Adjust(s, n) ==
    /\ MayChange
    /\ SaveMember(s, [MemberOf(s) EXCEPT !.extra = @ + n, !.ended_at = None])

\* Exams.set_labs: the projects of the labs that left are orphans, no more among
\* the projects of the student (what becomes of them is ExamSync's).
SetLabs(s, new) ==
    /\ MayChange
    /\ SaveMember(s, [MemberOf(s) EXCEPT !.labs = new, !.projects = @ \cap new])

SetLabsForAll(new) ==
    /\ MayChange
    /\ Overlaps \/ (pending = {} /\ saving[Exam] = {})
    /\ memory' = [r \in Records |->
            IF r = Exam THEN [exam EXCEPT !.labs = new]
            ELSE IF memory[r] = None THEN None
            ELSE [memory[r] EXCEPT !.labs = None, !.projects = @ \cap new]]
    /\ saving' = [saving EXCEPT ![Exam] = @ \cup {memory'[Exam]}]
    /\ pending' = Known
    /\ UNCHANGED <<now, stored, dirty>>

\* The next record of that loop, once the definition is saved.
SetLabsGoesOn(s) ==
    /\ s \in pending /\ saving[Exam] = {}
    /\ Save(s, memory[s])
    /\ pending' = pending \ {s}
    /\ UNCHANGED <<requestVars, projectVars, bounds>>

\* api_exam_update: the edit is checked and completed with the fields it leaves out...
Edited(key, v) ==
    /\ key = "end_before" /\ v # None => v > now
    /\ LET x == [exam EXCEPT ![key] = v]
       IN  /\ Definable(x)
           /\ editing' = [x |-> x, resume |-> key \in {"duration", "end_before"}]

EditChecked ==
    /\ editing = None /\ changes < MaxChanges
    /\ \/ \E v \in Durations : Edited("duration", v)
       \/ \E v \in Starts : Edited("start_after", v)
       \/ \E v \in Ends : Edited("end_before", v)
       \/ \E v \in LabSets : Edited("labs", v)
    /\ changes' = changes + 1
    /\ UNCHANGED <<now, memory, stored, dirty, saving, pending, projectVars, asking, faults,
                   restarts>>

\* ... and takes effect once the groups are read again (Exams.update).
EditMade ==
    /\ editing # None
    /\ Save(Exam, [editing.x EXCEPT
            !.ended_at = IF editing.resume THEN None ELSE exam.ended_at])
    /\ editing' = None
    /\ UNCHANGED <<pending, projectVars, asking, bounds>>

-----------------------------------------------------------------------------
\* The students.

\* Seeded fault: a clock starts with a new project only.
ObserveNews(s, rows) ==
    LET m == [MemberOf(s) EXCEPT !.seen = TRUE, !.projects = @ \cup (rows \cap LabsOf(s))]
    IN  IF m = memory[s] THEN UNCHANGED <<now, memory, stored, dirty, saving, pending>>
        ELSE SaveMember(s, IF MayStart(s, m) THEN [m EXCEPT !.started_at = now] ELSE m)

\* Exams.observe: the projects of the rows are recorded, and the clock may start.
Observe(s, rows) ==
    LET m == [MemberOf(s) EXCEPT !.seen = TRUE, !.projects = @ \cup (rows \cap LabsOf(s))]
        after == IF MayStart(s, m) THEN [m EXCEPT !.started_at = now] ELSE m
    IN  IF after = memory[s] THEN UNCHANGED <<now, memory, stored, dirty, saving, pending>>
                             ELSE SaveMember(s, after)

\* Exams.note_seen.
NoteSeen(s) ==
    IF MemberOf(s).seen THEN UNCHANGED <<now, memory, stored, dirty, saving, pending>>
                        ELSE SaveMember(s, [MemberOf(s) EXCEPT !.seen = TRUE])

\* api_projects_create: what a student in an exam may start, and when, from an
\* address the exam allows (another one is refused before anything changes).
StartAsked(s, l) ==
    /\ PhaseOf(s) \in {"waiting", "starting", "active"}
    /\ l \in LabsOf(s) \ (running[s] \cup starting[s])
    /\ PhaseOf(s) = "waiting" => now >= exam.start_after - PreStart
    /\ NoteSeen(s)
    /\ starting' = [starting EXCEPT ![s] = @ \cup {l}]
    /\ UNCHANGED <<running, requestVars, bounds>>

\* The start ends, whatever became of the exam (_exam_project_created)...
Started(s, l) ==
    /\ l \in starting[s]
    /\ starting' = [starting EXCEPT ![s] = @ \ {l}]
    /\ running' = [running EXCEPT ![s] = @ \cup {l}]
    /\ Observe(s, {l})
    /\ UNCHANGED <<requestVars, bounds>>

\* ... or fails.
StartFails(s, l) ==
    /\ l \in starting[s]
    /\ starting' = [starting EXCEPT ![s] = @ \ {l}]
    /\ UNCHANGED <<now, memory, stored, dirty, saving, pending, running, requestVars, bounds>>

\* A project ends: an instructor closes it, or it dies with its host.
ProjectGone(s, l) ==
    /\ l \in running[s]
    /\ running' = [running EXCEPT ![s] = @ \ {l}]
    /\ UNCHANGED <<now, memory, stored, dirty, saving, pending, starting, requestVars, bounds>>

\* api_projects: from an address the exam does not allow nothing is observed.
ProjectsListed(s, allowed) ==
    /\ Bound(s)
    /\ IF allowed THEN Observe(s, running[s]) ELSE NoteSeen(s)
    /\ UNCHANGED <<requestVars, projectVars, bounds>>

\* api_exam: the phase is read, then the projects are asked for, from an allowed
\* address...
ExamAsked(s, allowed) ==
    /\ Bound(s)
    /\ s \notin asking
    /\ NoteSeen(s)
    /\ asking' = IF allowed /\ PhaseOf(s) = "starting" THEN asking \cup {s} ELSE asking
    /\ UNCHANGED <<editing, projectVars, bounds>>

\* ... and observed when they are known.
ExamAnswered(s) ==
    /\ s \in asking
    /\ asking' = asking \ {s}
    /\ Observe(s, running[s])
    /\ UNCHANGED <<editing, projectVars, bounds>>

\* Exams.dismiss: refused unless the exam of the student is over, once their record
\* is made.
Dismiss(s) ==
    /\ \/ /\ PhaseOf(s) = "ended"
          /\ SaveMember(s, [MemberOf(s) EXCEPT !.dismissed_at = now])
       \/ /\ PhaseOf(s) # "ended"
          /\ MakeMember(s)
    /\ UNCHANGED <<requestVars, projectVars, bounds>>

-----------------------------------------------------------------------------
\* The portal.

\* Exams.tick: the projects were ready before the start.
TickStarts(s) ==
    /\ exam.start_after # None
    /\ s \in Known /\ MayStart(s, memory[s])
    /\ Save(s, [memory[s] EXCEPT !.started_at = exam.start_after])
    /\ UNCHANGED <<pending, requestVars, projectVars, bounds>>

\* Seeded fault: only the definition is saved again.
RetryDefinition(r) ==
    /\ r \in dirty /\ r = Exam
    /\ Save(r, memory[r])
    /\ UNCHANGED <<pending, requestVars, projectVars, bounds>>

\* Exams._retry_dirty.
RetryDirty(r) ==
    /\ r \in dirty
    /\ Save(r, memory[r])
    /\ UNCHANGED <<pending, requestVars, projectVars, bounds>>

\* Seeded fault: a save that succeeds clears every mark.
SaveEndsAll(r) ==
    /\ \E v \in saving[r] :
          /\ saving' = [saving EXCEPT ![r] = @ \ {v}]
          /\ stored' = [stored EXCEPT ![r] = v]
    /\ dirty' = {}
    /\ UNCHANGED <<now, memory, pending, requestVars, projectVars, bounds>>

\* A save under way ends.
SaveEnds(r) ==
    /\ \E v \in saving[r] :
          /\ saving' = [saving EXCEPT ![r] = @ \ {v}]
          /\ stored' = [stored EXCEPT ![r] = v]
    /\ dirty' = dirty \ {r}
    /\ UNCHANGED <<now, memory, pending, requestVars, projectVars, bounds>>

SaveFails(r) ==
    /\ faults < MaxFaults
    /\ \E v \in saving[r] : saving' = [saving EXCEPT ![r] = @ \ {v}]
    /\ dirty' = dirty \cup {r}
    /\ faults' = faults + 1
    /\ UNCHANGED <<now, memory, stored, pending, requestVars, projectVars, changes, restarts>>

\* The portal dies and reads the database; a project that was being started runs
\* then, or not.
Restart ==
    /\ restarts < MaxRestarts
    /\ restarts' = restarts + 1
    /\ memory' = stored
    /\ dirty' = {}
    /\ saving' = [r \in Records |-> {}]
    /\ pending' = {}
    /\ editing' = None
    /\ asking' = {}
    /\ starting' = [s \in Students |-> {}]
    /\ \E left \in [Students -> SUBSET Labs] :
          running' = [s \in Students |-> running[s] \cup (starting[s] \cap left[s])]
    /\ UNCHANGED <<now, stored, changes, faults>>

TimePasses ==
    /\ now < MaxTime
    /\ now' = now + 1
    /\ UNCHANGED <<memory, stored, dirty, saving, pending, requestVars, projectVars, bounds>>

Init ==
    /\ now = 0
    /\ \E d \in Durations, b \in Starts, e \in Ends :
          LET x == [duration |-> d, start_after |-> b, end_before |-> e, ended_at |-> None,
                    labs |-> Labs]
          IN  /\ Definable(x) /\ (e # None => e > now)
              /\ memory = [r \in Records |-> IF r = Exam THEN x ELSE None]
    /\ stored = memory
    /\ dirty = {}
    /\ saving = [r \in Records |-> {}]
    /\ pending = {}
    /\ editing = None
    /\ running = [s \in Students |-> {}]
    /\ starting = [s \in Students |-> {}]
    /\ asking = {}
    /\ changes = 0 /\ faults = 0 /\ restarts = 0

Instructor ==
    \/ EndNowForAll \/ EditChecked \/ EditMade
    \/ \E n \in Shifts : AdjustAll(n)
    \/ \E new \in LabSets : SetLabsForAll(new)
    \/ \E s \in Students :
          \/ EndNow(s)
          \/ \E n \in Shifts : Adjust(s, n)
          \/ \E new \in LabSets : SetLabs(s, new)

Student(s) ==
    \/ \E allowed \in BOOLEAN : ExamAsked(s, allowed) \/ ProjectsListed(s, allowed)
    \/ ExamAnswered(s) \/ Dismiss(s)
    \/ \E l \in Labs : StartAsked(s, l) \/ Started(s, l) \/ StartFails(s, l) \/ ProjectGone(s, l)

Saves ==
    \/ \E s \in Students : SetLabsGoesOn(s)
    \/ \E r \in Records : RetryDirty(r) \/ SaveEnds(r)

Portal ==
    \/ \E s \in Students : TickStarts(s)
    \/ Saves
    \/ \E r \in Records : SaveFails(r)
    \/ Restart

Next == TimePasses \/ Instructor \/ (\E s \in Students : Student(s)) \/ Portal

Spec == Init /\ [][Next]_vars

-----------------------------------------------------------------------------
\* Every variable keeps its shape.
TypeOK ==
    /\ now \in 0..MaxTime
    /\ {memory, stored} \subseteq [Records -> Definitions \cup Members \cup {None}]
    /\ {memory[Exam], stored[Exam]} \subseteq Definitions
    /\ \A s \in Students : {memory[s], stored[s]} \subseteq Members \cup {None}
    /\ dirty \subseteq Records
    /\ saving \in [Records -> SUBSET (Definitions \cup Members)]
    /\ saving[Exam] \subseteq Definitions /\ \A s \in Students : saving[s] \subseteq Members
    /\ \A s \in Students \ Known : s \notin dirty /\ saving[s] = {}
    /\ pending \subseteq Known
    /\ editing \in [x: Definitions, resume: BOOLEAN] \cup {None}
    /\ {running, starting} \subseteq [Students -> SUBSET Labs]
    /\ asking \subseteq Students
    /\ changes \in 0..MaxChanges /\ faults \in 0..MaxFaults /\ restarts \in 0..MaxRestarts

\* The records whose last change is on its way to the database.
Unsaved == {r \in Records : r \in dirty \cup pending \/ saving[r] # {}}

\* What a record says: one that is made and not filled says nothing.
Contents(v) == IF v = NewMember THEN None ELSE v

Saved(r) == Contents(memory[r]) = Contents(stored[r])

\* What a record says and the database does not is being saved, or kept to be saved
\* again (Exams._persist_member, _retry_dirty: "kept in memory, tried again"):
\* whatever saves fail, and however the requests and the restarts fall between them.
\* The record a refused Exams.dismiss makes is not saved, and says nothing.
NothingForgotten == \A r \in Records : Saved(r) \/ r \in Unsaved

\* A clock that started has an end, whatever was edited, adjusted or read back:
\* without one the agents never run the end of the exam (parse_exam: "a duration
\* or an end time is required"; Exam.end_at).
EveryClockEnds ==
    \A s \in Known : memory[s].started_at # None => EndAt(exam, memory[s]) # None

\* A clock that started keeps its start (web.md: "an exam survives a restart of
\* the portal, the clocks of the students included"), but for a restart before
\* the start was saved.
ClockKept ==
    [][\A s \in Known :
           \/ memory[s].started_at = None
           \/ memory'[s] # None /\ memory'[s].started_at = memory[s].started_at
           \/ restarts' # restarts /\ s \in Unsaved]_vars

Rank == [p \in Phases |->
    CASE p = "scheduled" -> 0 [] p = "waiting" -> 1 [] p = "starting" -> 2 [] p = "past" -> 3
      [] p = "active" -> 4 [] p = "ended" -> 5 [] p = "done" -> 6]

\* Unless an instructor acts, a student goes through the phases in their order
\* (web.md, "What a student sees, in order"), over the requests that were under
\* way and the restarts that lose nothing.
PhasesGoForward ==
    [][\/ changes' # changes \/ EditMade
       \/ restarts' # restarts /\ Unsaved # {}
       \/ \A s \in Students : Rank[PhaseOf(s)] <= Rank[PhaseOf(s)']]_vars

-----------------------------------------------------------------------------
\* The page of a student, open at an address the exam allows.
Page(s) == ExamAsked(s, TRUE) \/ ExamAnswered(s)

\* Fairness: the tick runs every second, the page of a student polls, and as long as
\* something is to be saved some save goes on (the database answers again).
Fairness ==
    /\ \A s \in Students : WF_vars(TickStarts(s)) /\ WF_vars(Page(s))
    /\ WF_vars(Saves)

FairSpec == Spec /\ Fairness

\* What the records say reaches the database in the end, if it answers again.
StoredInTheEnd == []<>(\A r \in Records : Saved(r))

Ready(s) == PhaseOf(s) = "starting" /\ LabsOf(s) \subseteq running[s]

\* A student whose page is open at an allowed address starts once all their projects
\* run, unless one of them ends or the exam closes (web.md: "the clock of the student starts when
\* every lab of theirs has a running project").
ReadyStarts == \A s \in Students : Ready(s) ~> ~Ready(s)
=============================================================================
