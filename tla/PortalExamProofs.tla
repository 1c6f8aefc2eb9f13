-------------------------- MODULE PortalExamProofs --------------------------
(***************************************************************************)
(* What the portal keeps of a programmed exam, for any students, labs,     *)
(* times and bounds.                                                       *)
(*                                                                         *)
(* A record reaches the database because a save under way writes what is   *)
(* in memory, unless the record is one set_labs has still to save          *)
(* (SavesInv).  A clock has an end because every copy of the definition    *)
(* has a duration or an end (LimitInv).  What one step may do to a record  *)
(* is said once (Steps); the phases then move forward by what Phase alone  *)
(* does with such a change.                                                *)
(***************************************************************************)
EXTENDS PortalExam, TLAPS

StoreOK ==
    /\ now \in 0..MaxTime
    /\ memory \in [Records -> Definitions \cup Members \cup {None}]
    /\ stored \in [Records -> Definitions \cup Members \cup {None}]
    /\ memory[Exam] \in Definitions /\ stored[Exam] \in Definitions
    /\ \A s \in Students : memory[s] \in Members \cup {None} /\ stored[s] \in Members \cup {None}
    /\ dirty \subseteq Records
    /\ saving \in [Records -> SUBSET (Definitions \cup Members)]
    /\ saving[Exam] \subseteq Definitions /\ \A s \in Students : saving[s] \subseteq Members
    /\ \A s \in Students : memory[s] = None => s \notin dirty /\ saving[s] = {}

RestOK ==
    /\ editing \in [x: Definitions, resume: BOOLEAN] \cup {None}
    /\ running \in [Students -> SUBSET Labs]
    /\ starting \in [Students -> SUBSET Labs]
    /\ asking \subseteq Students
    /\ changes \in 0..MaxChanges
    /\ faults \in 0..MaxFaults
    /\ restarts \in 0..MaxRestarts

LEMMA Parts ==
    /\ TypeOK <=> StoreOK /\ pending \subseteq Known /\ RestOK
    /\ TypeOK' <=> StoreOK' /\ pending' \subseteq Known' /\ RestOK'
BY DEF TypeOK, StoreOK, RestOK, Known

-----------------------------------------------------------------------------
\* The records.

LEMMA Kinds ==
    /\ Exam \in Records /\ Students \subseteq Records
    /\ \A s \in Students : s # Exam
    /\ \A r \in Records : r = Exam \/ r \in Students
BY PortalAssumption DEF Records

LEMMA RecordOf ==
    ASSUME StoreOK, NEW s \in Students
    PROVE  /\ exam \in Definitions
           /\ MemberOf(s) \in Members
           /\ LabsOf(s) \subseteq Labs
           /\ memory[s] # None => MemberOf(s) = memory[s]
<1>1. NewMember \in Members
    BY DEF NewMember, Members, Times
<1>2. exam \in Definitions /\ MemberOf(s) \in Members
    BY <1>1 DEF StoreOK, exam, MemberOf
<1>3. LabsOf(s) \subseteq Labs
    BY <1>2 DEF LabsOf, LabSets, Definitions, Members
<1> QED
    BY <1>2, <1>3 DEF MemberOf

\* What a save does to the copies.
LEMMA SaveTyped ==
    ASSUME StoreOK, NEW r \in Records, NEW v, Save(r, v),
           r = Exam => v \in Definitions, r \in Students => v \in Members
    PROVE  /\ StoreOK'
           /\ memory'[r] = v
           /\ \A q \in Records \ {r} : memory'[q] = memory[q]
           /\ Known \subseteq Known'
<1>1. /\ memory'[r] = v
      /\ \A q \in Records \ {r} : memory'[q] = memory[q]
      /\ memory' \in [Records -> Definitions \cup Members \cup {None}]
    BY Kinds DEF StoreOK, Save
<1>2. /\ saving' \in [Records -> SUBSET (Definitions \cup Members)]
      /\ saving'[r] = saving[r] \cup {v}
      /\ \A q \in Records \ {r} : saving'[q] = saving[q]
    BY Kinds DEF StoreOK, Save
<1>3. UNCHANGED <<now, stored, dirty>>
    BY DEF Save
<1>4. StoreOK'
    BY <1>1, <1>2, <1>3, Kinds, RecordAssumption DEF StoreOK
<1>5. Known \subseteq Known'
    BY <1>1, Kinds, RecordAssumption DEF Known
<1> QED
    BY <1>1, <1>4, <1>5

LEMMA SaveMemberTyped ==
    ASSUME StoreOK, pending \subseteq Known, NEW s \in Students, NEW m \in Members,
           SaveMember(s, m)
    PROVE  /\ StoreOK' /\ (pending \subseteq Known)'
           /\ memory'[s] = m
           /\ \A q \in Records \ {s} : memory'[q] = memory[q]
<1>1. Save(s, m) /\ pending' = Joined(s)
    BY DEF SaveMember
<1>2. /\ StoreOK'
      /\ memory'[s] = m
      /\ \A q \in Records \ {s} : memory'[q] = memory[q]
      /\ Known \subseteq Known'
    BY <1>1, Kinds, SaveTyped
<1>3. s \in Known'
    BY <1>2, RecordAssumption DEF Known
<1>4. Joined(s) \subseteq Known \cup {s}
    BY DEF Joined
<1> QED
    BY <1>1, <1>2, <1>3, <1>4

LEMMA ShiftsAreIntegers == \A n \in Shifts : n \in Int
<1>1. Minutes \subseteq Int
    BY PortalAssumption
<1>2. \A n \in Minutes : -n \in Int
    BY <1>1
<1> QED
    BY <1>1, <1>2 DEF Shifts

LEMMA ShiftedTyped ==
    ASSUME StoreOK, NEW n \in Shifts
    PROVE  ShiftedBy(n) \in Definitions
<1>1. exam \in Definitions
    BY DEF StoreOK, exam
<1>2. n \in Int
    BY ShiftsAreIntegers
<1>3. exam.duration # None => exam.duration \in Nat /\ Later(1, exam.duration + n) \in Nat \ {0}
    BY <1>1, <1>2 DEF Definitions, Later
<1>4. exam.end_before # None => exam.end_before + n \in Int
    BY <1>1, <1>2 DEF Definitions
<1> QED
    BY <1>1, <1>3, <1>4 DEF ShiftedBy, Definitions, Times

LEMMA ObserveTyped ==
    ASSUME StoreOK, pending \subseteq Known, NEW s \in Students, NEW rows \in SUBSET Labs,
           Observe(s, rows)
    PROVE  StoreOK' /\ (pending \subseteq Known)'
<1> DEFINE m == [MemberOf(s) EXCEPT !.seen = TRUE, !.projects = @ \cup (rows \cap LabsOf(s))]
           after == IF MayStart(s, m) THEN [m EXCEPT !.started_at = now] ELSE m
<1>1. m \in Members
    BY RecordOf DEF Members
<1>2. after \in Members
    <2>1. now \in Times
        BY PortalAssumption DEF StoreOK, Times
    <2> HIDE DEF m
    <2> QED
        BY <1>1, <2>1 DEF Members
<1>3. CASE after = memory[s]
    BY <1>3 DEF Observe, StoreOK, Known
<1>4. CASE after # memory[s]
    <2>1. SaveMember(s, after)
        BY <1>4 DEF Observe
    <2> QED
        BY <2>1, <1>2, SaveMemberTyped
<1> QED
    BY <1>3, <1>4

LEMMA NoteSeenTyped ==
    ASSUME StoreOK, pending \subseteq Known, NEW s \in Students, NoteSeen(s)
    PROVE  StoreOK' /\ (pending \subseteq Known)'
<1>1. [MemberOf(s) EXCEPT !.seen = TRUE] \in Members
    BY RecordOf DEF Members
<1>2. CASE MemberOf(s).seen
    BY <1>2 DEF NoteSeen, StoreOK, Known
<1>3. CASE ~MemberOf(s).seen
    BY <1>1, <1>3, SaveMemberTyped DEF NoteSeen
<1> QED
    BY <1>2, <1>3

LEMMA MakeMemberTyped ==
    ASSUME StoreOK, pending \subseteq Known, NEW s \in Students, MakeMember(s)
    PROVE  StoreOK' /\ (pending \subseteq Known)'
<1>1. MemberOf(s) \in Members
    BY RecordOf
<1>2. /\ memory'[s] = MemberOf(s)
      /\ \A q \in Records \ {s} : memory'[q] = memory[q]
      /\ memory' \in [Records -> Definitions \cup Members \cup {None}]
      /\ UNCHANGED <<now, stored, dirty, saving>>
    BY <1>1, Kinds DEF MakeMember, StoreOK
<1>3. StoreOK'
    BY <1>1, <1>2, Kinds, RecordAssumption DEF StoreOK
<1>4. pending' \subseteq pending \cup {s}
    BY DEF MakeMember, Joined
<1> QED
    BY <1>1, <1>2, <1>3, <1>4, Kinds, RecordAssumption DEF Known

LEMMA ChangeTyped ==
    ASSUME RestOK, MayChange
    PROVE  RestOK'
BY PortalAssumption DEF RestOK, MayChange, requestVars, projectVars

LEMMA Typing ==
    ASSUME TypeOK, [Next]_vars
    PROVE  TypeOK'
<1> USE Parts
<1>1. ASSUME EndNowForAll PROVE TypeOK'
    <2>1. Save(Exam, [exam EXCEPT !.ended_at = now]) /\ UNCHANGED pending /\ RestOK'
        BY <1>1, ChangeTyped DEF EndNowForAll
    <2>2. [exam EXCEPT !.ended_at = now] \in Definitions
        BY RecordOf DEF StoreOK, exam, Definitions, Times
    <2> QED
        BY <2>1, <2>2, SaveTyped, Kinds
<1>2. ASSUME NEW n \in Shifts, AdjustAll(n) PROVE TypeOK'
    <2>1. Save(Exam, ShiftedBy(n)) /\ UNCHANGED pending /\ RestOK'
        BY <1>2, ChangeTyped DEF AdjustAll
    <2> QED
        BY <2>1, ShiftedTyped, SaveTyped, Kinds
<1>3. ASSUME NEW s \in Students, EndNow(s) PROVE TypeOK'
    <2>1. SaveMember(s, [MemberOf(s) EXCEPT !.ended_at = now]) /\ RestOK'
        BY <1>3, ChangeTyped DEF EndNow
    <2>2. [MemberOf(s) EXCEPT !.ended_at = now] \in Members
        BY RecordOf DEF StoreOK, Members, Times
    <2> QED
        BY <2>1, <2>2, SaveMemberTyped
<1>4. ASSUME NEW s \in Students, NEW n \in Shifts, Adjust(s, n) PROVE TypeOK'
    <2>1. SaveMember(s, [MemberOf(s) EXCEPT !.extra = @ + n, !.ended_at = None]) /\ RestOK'
        BY <1>4, ChangeTyped DEF Adjust
    <2>2. [MemberOf(s) EXCEPT !.extra = @ + n, !.ended_at = None] \in Members
        <3>1. n \in Int
            BY ShiftsAreIntegers
        <3>2. MemberOf(s) \in Members
            BY RecordOf
        <3>3. MemberOf(s).extra + n \in Int
            BY <3>1, <3>2 DEF Members
        <3> QED
            BY <3>2, <3>3 DEF Members, Times
    <2> QED
        BY <2>1, <2>2, SaveMemberTyped
<1>5. ASSUME NEW s \in Students, NEW new \in LabSets, SetLabs(s, new) PROVE TypeOK'
    <2>1. SaveMember(s, [MemberOf(s) EXCEPT !.labs = new, !.projects = @ \cap new]) /\ RestOK'
        BY <1>5, ChangeTyped DEF SetLabs
    <2>2. [MemberOf(s) EXCEPT !.labs = new, !.projects = @ \cap new] \in Members
        BY RecordOf DEF Members
    <2> QED
        BY <2>1, <2>2, SaveMemberTyped
<1>6. ASSUME NEW new \in LabSets, SetLabsForAll(new) PROVE TypeOK'
    <2>1. RestOK'
        BY <1>6, ChangeTyped DEF SetLabsForAll
    <2>2. /\ memory'[Exam] = [exam EXCEPT !.labs = new]
          /\ \A s \in Students : memory'[s] =
                IF memory[s] = None THEN None
                ELSE [memory[s] EXCEPT !.labs = None, !.projects = @ \cap new]
        BY <1>6, Kinds DEF SetLabsForAll
    <2>3. /\ memory'[Exam] \in Definitions
          /\ \A s \in Students : memory'[s] \in Members \cup {None}
          /\ \A s \in Students : memory[s] = None <=> memory'[s] = None
        <3>1. memory'[Exam] \in Definitions
            BY <2>2 DEF StoreOK, exam, Definitions
        <3>2. ASSUME NEW s \in Students, memory[s] # None
              PROVE  memory'[s] \in Members
            <4>1. memory[s] \in Members
                BY <3>2 DEF StoreOK
            <4>2. memory'[s] = [memory[s] EXCEPT !.labs = None, !.projects = @ \cap new]
                BY <2>2, <3>2
            <4> QED
                BY <4>1, <4>2 DEF Members
        <3> QED
            BY <2>2, <3>1, <3>2, RecordAssumption
    <2>4. memory' \in [Records -> Definitions \cup Members \cup {None}]
        <3>1. \A r \in Records : memory'[r] \in Definitions \cup Members \cup {None}
            BY <2>3, Kinds
        <3>2. memory' = [r \in Records |-> memory'[r]]
            BY <1>6 DEF SetLabsForAll
        <3> QED
            BY <3>1, <3>2
    <2>5. StoreOK'
        BY <1>6, <2>3, <2>4, Kinds DEF SetLabsForAll, StoreOK
    <2> QED
        BY <1>6, <2>1, <2>3, <2>5 DEF SetLabsForAll, Known
<1>7. ASSUME NEW s \in Students, SetLabsGoesOn(s) PROVE TypeOK'
    <2>1. Save(s, memory[s]) /\ pending' \subseteq pending /\ RestOK'
        BY <1>7 DEF SetLabsGoesOn, RestOK, requestVars, projectVars, bounds
    <2>2. memory[s] \in Members
        BY <1>7 DEF SetLabsGoesOn, Known, StoreOK
    <2> QED
        BY <2>1, <2>2, SaveTyped, Kinds
<1>8. ASSUME EditChecked PROVE TypeOK'
    <2>1. exam \in Definitions
        BY DEF StoreOK, exam
    <2>2. editing' \in [x: Definitions, resume: BOOLEAN]
        <3>1. \A v \in Durations : [exam EXCEPT !["duration"] = v] \in Definitions
            BY <2>1, PortalAssumption DEF Definitions
        <3>2. \A v \in Starts : [exam EXCEPT !["start_after"] = v] \in Definitions
            BY <2>1, PortalAssumption DEF Definitions, Times
        <3>3. \A v \in Ends : [exam EXCEPT !["end_before"] = v] \in Definitions
            BY <2>1, PortalAssumption DEF Definitions
        <3>4. \A v \in LabSets : [exam EXCEPT !["labs"] = v] \in Definitions
            BY <2>1 DEF Definitions
        <3> QED
            <4>1. ASSUME NEW key, NEW v, Edited(key, v), [exam EXCEPT ![key] = v] \in Definitions
                  PROVE  editing' \in [x: Definitions, resume: BOOLEAN]
                BY <4>1 DEF Edited
            <4> QED
                BY <1>8, <3>1, <3>2, <3>3, <3>4, <4>1 DEF EditChecked
    <2> QED
        BY <1>8, <2>2, PortalAssumption
        DEF EditChecked, StoreOK, RestOK, Known, projectVars
<1>9. ASSUME EditMade PROVE TypeOK'
    <2> DEFINE v == [editing.x EXCEPT
                        !.ended_at = IF editing.resume THEN None ELSE exam.ended_at]
    <2>1. editing.x \in Definitions /\ exam \in Definitions
        BY <1>9 DEF EditMade, RestOK, StoreOK, exam
    <2>2. v \in Definitions
        BY <2>1 DEF Definitions, Times
    <2>3. Save(Exam, v) /\ UNCHANGED pending /\ RestOK'
        BY <1>9 DEF EditMade, RestOK, projectVars, bounds
    <2> QED
        BY <2>2, <2>3, SaveTyped, Kinds
<1>10. ASSUME NEW s \in Students, NEW l \in Labs, StartAsked(s, l) PROVE TypeOK'
    BY <1>10, NoteSeenTyped DEF StartAsked, RestOK, requestVars, bounds
<1>11. ASSUME NEW s \in Students, NEW l \in Labs, Started(s, l) PROVE TypeOK'
    BY <1>11, ObserveTyped DEF Started, RestOK, requestVars, bounds
<1>12. ASSUME NEW s \in Students, NEW l \in Labs, StartFails(s, l) PROVE TypeOK'
    BY <1>12 DEF StartFails, StoreOK, Known, RestOK, requestVars, bounds
<1>13. ASSUME NEW s \in Students, NEW l \in Labs, ProjectGone(s, l) PROVE TypeOK'
    BY <1>13 DEF ProjectGone, StoreOK, Known, RestOK, requestVars, bounds
<1>14. ASSUME NEW s \in Students, NEW allowed, ProjectsListed(s, allowed) PROVE TypeOK'
    <2>1. running[s] \in SUBSET Labs
        BY DEF RestOK
    <2>2. Observe(s, running[s]) \/ NoteSeen(s)
        BY <1>14 DEF ProjectsListed
    <2> QED
        BY <1>14, <2>1, <2>2, ObserveTyped, NoteSeenTyped
        DEF ProjectsListed, RestOK, requestVars, projectVars, bounds
<1>15. ASSUME NEW s \in Students, NEW allowed, ExamAsked(s, allowed) PROVE TypeOK'
    BY <1>15, NoteSeenTyped DEF ExamAsked, RestOK, projectVars, bounds
<1>16. ASSUME NEW s \in Students, ExamAnswered(s) PROVE TypeOK'
    <2>1. running[s] \in SUBSET Labs
        BY DEF RestOK
    <2> QED
        BY <1>16, <2>1, ObserveTyped DEF ExamAnswered, RestOK, projectVars, bounds
<1>17. ASSUME NEW s \in Students, Dismiss(s) PROVE TypeOK'
    <2>1. [MemberOf(s) EXCEPT !.dismissed_at = now] \in Members
        BY RecordOf DEF StoreOK, Members, Times
    <2> QED
        BY <1>17, <2>1, SaveMemberTyped, MakeMemberTyped
        DEF Dismiss, RestOK, requestVars, projectVars, bounds
<1>18. ASSUME NEW s \in Students, TickStarts(s) PROVE TypeOK'
    <2> DEFINE v == [memory[s] EXCEPT !.started_at = exam.start_after]
    <2>1. memory[s] \in Members /\ exam.start_after \in Times
        BY <1>18 DEF TickStarts, Known, StoreOK, exam, Definitions
    <2>2. v \in Members
        BY <2>1 DEF Members
    <2>3. Save(s, v) /\ UNCHANGED pending /\ RestOK'
        BY <1>18 DEF TickStarts, RestOK, requestVars, projectVars, bounds
    <2> QED
        BY <2>2, <2>3, SaveTyped, Kinds
<1>19. ASSUME NEW r \in Records, RetryDirty(r) PROVE TypeOK'
    <2>1. Save(r, memory[r]) /\ UNCHANGED pending /\ RestOK'
        BY <1>19 DEF RetryDirty, RestOK, requestVars, projectVars, bounds
    <2>2. (r = Exam /\ memory[r] \in Definitions) \/ (r \in Students /\ memory[r] \in Members)
        BY <1>19, Kinds DEF RetryDirty, StoreOK
    <2> QED
        BY <2>1, <2>2, SaveTyped, Kinds
<1>20. ASSUME NEW r \in Records, SaveEnds(r) PROVE TypeOK'
    BY <1>20, Kinds DEF SaveEnds, StoreOK, Known, RestOK, requestVars, projectVars, bounds
<1>21. ASSUME NEW r \in Records, SaveFails(r) PROVE TypeOK'
    BY <1>21, Kinds, PortalAssumption
    DEF SaveFails, StoreOK, Known, RestOK, requestVars, projectVars
<1>22. ASSUME Restart PROVE TypeOK'
    <2>1. StoreOK'
        BY <1>22, Kinds DEF Restart, StoreOK
    <2>2. RestOK'
        BY <1>22, PortalAssumption DEF Restart, RestOK
    <2> QED
        BY <1>22, <2>1, <2>2 DEF Restart
<1>23. ASSUME TimePasses PROVE TypeOK'
    BY <1>23, PortalAssumption
    DEF TimePasses, StoreOK, Known, RestOK, requestVars, projectVars, bounds
<1>24. ASSUME UNCHANGED vars PROVE TypeOK'
    BY <1>24 DEF vars, StoreOK, Known, RestOK
<1> QED
    BY <1>1, <1>2, <1>3, <1>4, <1>5, <1>6, <1>7, <1>8, <1>9, <1>10, <1>11, <1>12, <1>13, <1>14,
       <1>15, <1>16, <1>17, <1>18, <1>19, <1>20, <1>21, <1>22, <1>23, <1>24
    DEF Next, Instructor, Student, Portal, Saves

\* The shape of every variable holds in every reachable state.
THEOREM TypeCorrect == Spec => []TypeOK
<1>1. Init => TypeOK
    <2> SUFFICES ASSUME Init PROVE TypeOK
        OBVIOUS
    <2>1. memory[Exam] \in Definitions /\ \A s \in Students : memory[s] = None
        <3>1. PICK d \in Durations, b \in Starts, e \in Ends :
                /\ Definable([duration |-> d, start_after |-> b, end_before |-> e,
                              ended_at |-> None, labs |-> Labs])
                /\ memory = [r \in Records |->
                        IF r = Exam
                        THEN [duration |-> d, start_after |-> b, end_before |-> e,
                              ended_at |-> None, labs |-> Labs]
                        ELSE None]
            BY DEF Init
        <3>2. /\ d \in (Nat \ {0}) \cup {None} /\ b \in Times /\ e \in Int \cup {None}
              /\ None \in Times /\ Labs \in LabSets
            BY PortalAssumption DEF Times, LabSets
        <3>3. memory[Exam] \in Definitions
            BY <3>1, <3>2, Kinds DEF Definitions
        <3> QED
            BY <3>1, <3>3, Kinds
    <2>2. memory \in [Records -> Definitions \cup Members \cup {None}]
        <3>1. memory = [r \in Records |-> memory[r]]
            BY DEF Init
        <3>2. \A r \in Records : memory[r] \in Definitions \cup Members \cup {None}
            BY <2>1, Kinds
        <3> QED
            BY <3>1, <3>2
    <2>3. StoreOK
        <3>1. /\ now = 0 /\ stored = memory /\ dirty = {}
              /\ saving = [r \in Records |-> {}]
            BY DEF Init
        <3> QED
            BY <2>1, <2>2, <3>1, Kinds, PortalAssumption DEF StoreOK
    <2>4. RestOK /\ pending \subseteq Known
        BY PortalAssumption DEF Init, RestOK
    <2> QED
        BY <2>3, <2>4, Parts
<1> QED
    BY <1>1, Typing, PTL DEF Spec

-----------------------------------------------------------------------------
\* What a step does to the copies of the records.

HasLimit(x) == x.duration # None \/ x.end_before # None

\* Every copy of the definition has a limit.
LimitInv ==
    /\ HasLimit(memory[Exam]) /\ HasLimit(stored[Exam])
    /\ \A x \in saving[Exam] : HasLimit(x)
    /\ editing # None => HasLimit(editing.x)

DefinitionSaved ==
    \E x \in Definitions :
        /\ Save(Exam, x) /\ UNCHANGED pending
        /\ HasLimit(x)
        /\ changes' # changes \/ EditMade \/ x = exam

SameClock(m, o) ==
    /\ m.started_at = o.started_at /\ m.extra = o.extra
    /\ m.ended_at = o.ended_at /\ m.dismissed_at = o.dismissed_at

KeepsClock(m, o) == o.started_at # None => m.started_at = o.started_at

\* The clock of m goes on, starts, or is dismissed.
GoesOn(s, m) ==
    \/ SameClock(m, MemberOf(s))
    \/ MemberOf(s).started_at = None /\ Begun(exam, now) /\ m.started_at # None
    \/ PhaseOf(s) = "ended" /\ m = [MemberOf(s) EXCEPT !.dismissed_at = now]

MemberSaved(s) ==
    \E m \in Members :
        /\ Save(s, m)
        /\ Newcomers \/ (pending \ {s} \subseteq pending' /\ pending' \subseteq pending)
        /\ KeepsClock(m, MemberOf(s))
        /\ changes' # changes \/ GoesOn(s, m)

\* The record of s is made, and says nothing.
MemberMade(s) ==
    /\ memory[s] = None
    /\ memory' = [memory EXCEPT ![s] = NewMember]
    /\ UNCHANGED <<now, stored, dirty, saving>>
    /\ Newcomers \/ pending' = pending

NothingSaved == UNCHANGED <<memory, stored, dirty, saving, pending>> /\ now' \in {now, now + 1}

LEMMA MemberSteps ==
    ASSUME StoreOK, NEW s \in Students, NEW m \in Members, SaveMember(s, m),
           KeepsClock(m, MemberOf(s)), changes' # changes \/ GoesOn(s, m)
    PROVE  MemberSaved(s)
<1>1. Save(s, m) /\ pending' = Joined(s)
    BY DEF SaveMember
<1>2. Newcomers \/ pending' = pending
    BY <1>1, PortalAssumption DEF SaveMember, Joined
<1> QED
    BY <1>1, <1>2 DEF MemberSaved

LEMMA ObserveSteps ==
    ASSUME StoreOK, NEW s \in Students, NEW rows \in SUBSET Labs, Observe(s, rows)
    PROVE  MemberSaved(s) \/ NothingSaved
<1> DEFINE m == [MemberOf(s) EXCEPT !.seen = TRUE, !.projects = @ \cup (rows \cap LabsOf(s))]
           after == IF MayStart(s, m) THEN [m EXCEPT !.started_at = now] ELSE m
<1>1. m \in Members /\ SameClock(m, MemberOf(s))
    BY RecordOf DEF Members, SameClock
<1>2. now \in Nat /\ None \notin Nat
    BY PortalAssumption, ClockAssumption DEF StoreOK
<1>3. CASE after = memory[s]
    BY <1>2, <1>3 DEF Observe, NothingSaved
<1>4. CASE after # memory[s]
    <2>1. SaveMember(s, after)
        BY <1>4 DEF Observe
    <2>2. CASE MayStart(s, m)
        <3>1. after = [m EXCEPT !.started_at = now]
            BY <2>2
        <3>2. m.started_at = None /\ Begun(exam, now)
            BY <2>2 DEF MayStart
        <3> HIDE DEF m
        <3>3. after \in Members /\ after.started_at = now
            BY <1>1, <1>2, <3>1 DEF Members, Times
        <3>4. MemberOf(s).started_at = None
            BY <1>1, <3>2 DEF SameClock
        <3>5. KeepsClock(after, MemberOf(s)) /\ GoesOn(s, after)
            BY <1>2, <3>2, <3>3, <3>4 DEF KeepsClock, GoesOn
        <3> QED
            BY <2>1, <3>3, <3>5, MemberSteps
    <2>3. CASE ~MayStart(s, m)
        <3>1. after = m
            BY <2>3
        <3> HIDE DEF m, after
        <3>2. KeepsClock(after, MemberOf(s)) /\ GoesOn(s, after)
            BY <1>1, <3>1 DEF KeepsClock, GoesOn, SameClock
        <3> QED
            BY <1>1, <2>1, <3>1, <3>2, MemberSteps
    <2> QED
        BY <2>2, <2>3
<1> QED
    BY <1>3, <1>4

LEMMA NoteSeenSteps ==
    ASSUME StoreOK, NEW s \in Students, NoteSeen(s)
    PROVE  MemberSaved(s) \/ NothingSaved
<1>1. now \in Nat
    BY PortalAssumption DEF StoreOK
<1>2. CASE MemberOf(s).seen
    BY <1>1, <1>2 DEF NoteSeen, NothingSaved
<1>3. CASE ~MemberOf(s).seen
    <2> DEFINE m == [MemberOf(s) EXCEPT !.seen = TRUE]
    <2>1. m \in Members /\ SameClock(m, MemberOf(s))
        BY RecordOf DEF Members, SameClock
    <2>2. SaveMember(s, m)
        BY <1>3 DEF NoteSeen
    <2> HIDE DEF m
    <2>3. KeepsClock(m, MemberOf(s)) /\ GoesOn(s, m)
        BY <2>1 DEF KeepsClock, GoesOn, SameClock
    <2> QED
        BY <2>1, <2>2, <2>3, MemberSteps
<1> QED
    BY <1>2, <1>3

LEMMA MakeMemberSteps ==
    ASSUME StoreOK, NEW s \in Students, MakeMember(s)
    PROVE  MemberMade(s) \/ NothingSaved
<1>1. CASE memory[s] = None
    BY <1>1, PortalAssumption DEF MakeMember, MemberMade, MemberOf, Joined
<1>2. CASE memory[s] # None
    <2>1. memory' = memory
        BY <1>2 DEF MakeMember, MemberOf, StoreOK
    <2> QED
        BY <1>2, <2>1 DEF MakeMember, Joined, NothingSaved
<1> QED
    BY <1>1, <1>2

LEMMA ShiftLimited ==
    ASSUME StoreOK, HasLimit(exam), NEW n \in Shifts
    PROVE  HasLimit(ShiftedBy(n))
<1>1. exam \in Definitions
    BY DEF StoreOK, exam
<1>2. n \in Int
    BY ShiftsAreIntegers
<1>3. exam.duration # None => Later(1, exam.duration + n) # None
    BY <1>1, <1>2, ClockAssumption DEF Definitions, Later
<1>4. exam.end_before # None => exam.end_before + n # None
    BY <1>1, <1>2, ClockAssumption DEF Definitions
<1>5. /\ ShiftedBy(n).duration =
            IF exam.duration = None THEN None ELSE Later(1, exam.duration + n)
      /\ ShiftedBy(n).end_before =
            IF exam.end_before = None THEN None ELSE exam.end_before + n
    BY <1>1 DEF ShiftedBy, Definitions
<1> QED
    BY <1>3, <1>4, <1>5 DEF HasLimit

\* Every step saves the definition, or the record of one student, or all of them
\* (SetLabsForAll), makes a record that says nothing, ends a save, restarts the portal,
\* or changes no copy.
LEMMA Steps ==
    ASSUME TypeOK, LimitInv, [Next]_vars
    PROVE  \/ DefinitionSaved
           \/ \E s \in Students : MemberSaved(s) \/ MemberMade(s)
           \/ \E new \in LabSets : SetLabsForAll(new)
           \/ \E r \in Records : SaveEnds(r) \/ SaveFails(r)
           \/ Restart
           \/ NothingSaved
<1> DEFINE Goal == \/ DefinitionSaved
                   \/ \E s \in Students : MemberSaved(s) \/ MemberMade(s)
                   \/ \E new \in LabSets : SetLabsForAll(new)
                   \/ \E r \in Records : SaveEnds(r) \/ SaveFails(r)
                   \/ Restart
                   \/ NothingSaved
<1>a. StoreOK /\ pending \subseteq Known /\ RestOK
    BY Parts
<1>b. /\ exam \in Definitions /\ HasLimit(exam) /\ now \in Nat
      /\ \A x : changes' = changes + 1 => changes' # changes
    BY <1>a, PortalAssumption DEF StoreOK, RestOK, exam, LimitInv
<1>c. \A s \in Students : MemberOf(s) \in Members
    BY <1>a, RecordOf
<1>1. ASSUME EndNowForAll PROVE DefinitionSaved
    <2> DEFINE v == [exam EXCEPT !.ended_at = now]
    <2>1. v \in Definitions /\ HasLimit(v)
        BY <1>b DEF Definitions, Times, HasLimit
    <2> QED
        BY <1>1, <1>b, <2>1 DEF EndNowForAll, DefinitionSaved, MayChange
<1>2. ASSUME NEW n \in Shifts, AdjustAll(n) PROVE DefinitionSaved
    BY <1>2, <1>a, <1>b, ShiftedTyped, ShiftLimited DEF AdjustAll, DefinitionSaved, MayChange
<1>3. ASSUME NEW s \in Students, EndNow(s) PROVE MemberSaved(s)
    <2> DEFINE m == [MemberOf(s) EXCEPT !.ended_at = now]
    <2>1. m \in Members /\ KeepsClock(m, MemberOf(s))
        BY <1>b, <1>c DEF Members, Times, KeepsClock
    <2> QED
        BY <1>3, <1>a, <1>b, <2>1, MemberSteps DEF EndNow, MayChange
<1>4. ASSUME NEW s \in Students, NEW n \in Shifts, Adjust(s, n) PROVE MemberSaved(s)
    <2> DEFINE m == [MemberOf(s) EXCEPT !.extra = @ + n, !.ended_at = None]
    <2>1. MemberOf(s).extra + n \in Int
        BY <1>c, ShiftsAreIntegers DEF Members
    <2>2. m \in Members /\ KeepsClock(m, MemberOf(s))
        BY <1>c, <2>1 DEF Members, Times, KeepsClock
    <2> QED
        BY <1>4, <1>a, <1>b, <2>2, MemberSteps DEF Adjust, MayChange
<1>5. ASSUME NEW s \in Students, NEW new \in LabSets, SetLabs(s, new) PROVE MemberSaved(s)
    <2> DEFINE m == [MemberOf(s) EXCEPT !.labs = new, !.projects = @ \cap new]
    <2>1. m \in Members /\ KeepsClock(m, MemberOf(s))
        BY <1>c DEF Members, KeepsClock
    <2> QED
        BY <1>5, <1>a, <1>b, <2>1, MemberSteps DEF SetLabs, MayChange
<1>6. ASSUME NEW s \in Students, SetLabsGoesOn(s) PROVE MemberSaved(s)
    <2>1. memory[s] = MemberOf(s) /\ memory[s] \in Members
        BY <1>6, <1>a DEF SetLabsGoesOn, MemberOf, Known, StoreOK
    <2>2. Save(s, memory[s]) /\ pending' = pending \ {s}
        BY <1>6 DEF SetLabsGoesOn
    <2> QED
        BY <2>1, <2>2 DEF MemberSaved, KeepsClock, GoesOn, SameClock
<1>7. ASSUME EditMade PROVE DefinitionSaved
    <2> DEFINE v == [editing.x EXCEPT
                        !.ended_at = IF editing.resume THEN None ELSE exam.ended_at]
    <2>1. editing.x \in Definitions /\ HasLimit(editing.x)
        BY <1>7, <1>a DEF EditMade, RestOK, LimitInv
    <2>2. v \in Definitions /\ HasLimit(v)
        BY <1>b, <2>1 DEF Definitions, Times, HasLimit
    <2> QED
        BY <1>7, <2>2 DEF EditMade, DefinitionSaved
<1>8. ASSUME NEW s \in Students, NEW l \in Labs, StartAsked(s, l) PROVE Goal
    BY <1>8, <1>a, NoteSeenSteps DEF StartAsked
<1>9. ASSUME NEW s \in Students, NEW l \in Labs, Started(s, l) PROVE Goal
    BY <1>9, <1>a, ObserveSteps DEF Started
<1>10. ASSUME NEW s \in Students,
              \/ ExamAnswered(s)
              \/ \E allowed \in BOOLEAN : ExamAsked(s, allowed) \/ ProjectsListed(s, allowed)
       PROVE  Goal
    <2>1. running[s] \in SUBSET Labs
        BY <1>a DEF RestOK
    <2> QED
        BY <1>10, <1>a, <2>1, ObserveSteps, NoteSeenSteps
        DEF ExamAsked, ExamAnswered, ProjectsListed
<1>11. ASSUME NEW s \in Students, Dismiss(s) PROVE Goal
    <2> DEFINE m == [MemberOf(s) EXCEPT !.dismissed_at = now]
    <2>1. m \in Members /\ KeepsClock(m, MemberOf(s))
        BY <1>b, <1>c DEF Members, Times, KeepsClock
    <2> QED
        BY <1>11, <1>a, <2>1, MemberSteps, MakeMemberSteps DEF Dismiss, GoesOn
<1>12. ASSUME NEW s \in Students, TickStarts(s) PROVE MemberSaved(s)
    <2> DEFINE m == [memory[s] EXCEPT !.started_at = exam.start_after]
    <2>1. /\ exam.start_after # None /\ MayStart(s, memory[s])
          /\ Save(s, m) /\ UNCHANGED pending
          /\ memory[s] = MemberOf(s)
        BY <1>12 DEF TickStarts, Known, MemberOf
    <2>2. m \in Members /\ m.started_at # None
        BY <1>b, <1>c, <2>1 DEF Members, Definitions
    <2>3. MemberOf(s).started_at = None /\ Begun(exam, now)
        BY <2>1 DEF MayStart
    <2> HIDE DEF m
    <2> QED
        BY <2>1, <2>2, <2>3 DEF MemberSaved, KeepsClock, GoesOn
<1>13. ASSUME NEW r \in Records, RetryDirty(r) PROVE Goal
    <2>1. Save(r, memory[r]) /\ UNCHANGED pending /\ r \in dirty
        BY <1>13 DEF RetryDirty
    <2>2. CASE r = Exam
        BY <1>b, <2>1, <2>2 DEF DefinitionSaved, exam
    <2>3. CASE r \in Students
        <3>1. memory[r] = MemberOf(r)
            BY <1>a, <2>1, <2>3 DEF StoreOK, MemberOf
        <3> QED
            BY <1>c, <2>1, <2>3, <3>1 DEF MemberSaved, KeepsClock, GoesOn, SameClock
    <2> QED
        BY <2>2, <2>3, Kinds
<1>14. ASSUME \/ EditChecked \/ TimePasses \/ UNCHANGED vars
              \/ \E s \in Students, l \in Labs : StartFails(s, l) \/ ProjectGone(s, l)
       PROVE  NothingSaved
    BY <1>14 DEF EditChecked, TimePasses, vars, StartFails, ProjectGone, NothingSaved
<1> QED
    BY <1>1, <1>2, <1>3, <1>4, <1>5, <1>6, <1>7, <1>8, <1>9, <1>10, <1>11, <1>12, <1>13, <1>14
    DEF Next, Instructor, Student, Portal, Saves

-----------------------------------------------------------------------------
\* Every clock ends.

LEMMA InitLimited == Init => LimitInv
<1> SUFFICES ASSUME Init PROVE LimitInv
    OBVIOUS
<1>1. HasLimit(memory[Exam])
    BY Kinds DEF Init, Definable, HasLimit
<1>2. stored = memory /\ saving = [r \in Records |-> {}] /\ editing = None
    BY DEF Init
<1> QED
    BY <1>1, <1>2, Kinds DEF LimitInv

LEMMA LimitSteps ==
    ASSUME TypeOK, LimitInv, [Next]_vars
    PROVE  LimitInv'
<1> DEFINE Copies == /\ HasLimit(memory'[Exam]) /\ HasLimit(stored'[Exam])
                     /\ \A x \in saving'[Exam] : HasLimit(x)
<1>a. StoreOK /\ pending \subseteq Known /\ RestOK
    BY Parts
<1>1. ASSUME DefinitionSaved PROVE Copies
    <2>1. PICK x : Save(Exam, x) /\ HasLimit(x)
        BY <1>1 DEF DefinitionSaved
    <2>2. /\ memory'[Exam] = x /\ stored' = stored
          /\ saving'[Exam] = saving[Exam] \cup {x}
        BY <1>a, <2>1, Kinds DEF Save, StoreOK
    <2> QED
        BY <2>1, <2>2 DEF LimitInv
<1>2. ASSUME NEW s \in Students, MemberSaved(s) PROVE Copies
    <2>1. PICK m : Save(s, m)
        BY <1>2 DEF MemberSaved
    <2>2. memory'[Exam] = memory[Exam] /\ stored' = stored /\ saving'[Exam] = saving[Exam]
        BY <1>a, <2>1, Kinds DEF Save, StoreOK
    <2> QED
        BY <2>2 DEF LimitInv
<1>3. ASSUME NEW new \in LabSets, SetLabsForAll(new) PROVE Copies
    <2>1. /\ memory'[Exam] = [exam EXCEPT !.labs = new] /\ stored' = stored
          /\ saving'[Exam] = saving[Exam] \cup {memory'[Exam]}
        BY <1>3, <1>a, Kinds DEF SetLabsForAll, StoreOK
    <2>2. exam \in Definitions /\ HasLimit(exam)
        BY <1>a DEF StoreOK, exam, LimitInv
    <2>3. HasLimit(memory'[Exam])
        BY <2>1, <2>2 DEF Definitions, HasLimit
    <2> QED
        BY <2>1, <2>3 DEF LimitInv
<1>4. ASSUME NEW r \in Records, SaveEnds(r) \/ SaveFails(r) PROVE Copies
    BY <1>4, <1>a, Kinds DEF SaveEnds, SaveFails, StoreOK, LimitInv
<1>5. ASSUME Restart PROVE Copies
    BY <1>5, Kinds DEF Restart, LimitInv
<1>6. ASSUME NothingSaved PROVE Copies
    BY <1>6 DEF NothingSaved, LimitInv
<1>7. ASSUME NEW s \in Students, MemberMade(s) PROVE Copies
    BY <1>7, <1>a, Kinds DEF MemberMade, StoreOK, LimitInv
<1>8. Copies
    BY <1>1, <1>2, <1>3, <1>4, <1>5, <1>6, <1>7, Steps
<1>9. editing' # None => HasLimit(editing'.x)
    <2>1. ASSUME NEW key, NEW v, Edited(key, v) PROVE HasLimit(editing'.x)
        BY <2>1 DEF Edited, Definable, HasLimit
    <2>2. CASE EditChecked
        BY <2>1, <2>2 DEF EditChecked
    <2>3. CASE ~EditChecked
        <3>1. editing' = editing \/ editing' = None
            <4>1. CASE TimePasses \/ (\E s \in Students : Student(s)) \/ UNCHANGED vars
                BY <4>1 DEF vars, TimePasses, Student, StartAsked, Started, StartFails,
                            ProjectGone, ProjectsListed, ExamAsked, ExamAnswered, Dismiss,
                            requestVars
            <4>2. CASE Instructor
                BY <2>3, <4>2
                DEF Instructor, MayChange, EndNowForAll, EndNow, AdjustAll, Adjust, SetLabs,
                    SetLabsForAll, EditMade, requestVars
            <4>3. CASE Portal
                BY <4>3 DEF Portal, Saves, SetLabsGoesOn, TickStarts, RetryDirty, SaveEnds,
                            SaveFails, Restart, requestVars
            <4> QED
                BY <4>1, <4>2, <4>3 DEF Next
        <3> QED
            BY <3>1 DEF LimitInv
    <2> QED
        BY <2>2, <2>3
<1> QED
    BY <1>8, <1>9 DEF LimitInv

LEMMA EndsWithLimit ==
    ASSUME NEW x \in Definitions, NEW m \in Members, HasLimit(x), m.started_at # None
    PROVE  EndAt(x, m) # None
<1>1. m.started_at \in Int /\ m.extra \in Int /\ None \notin Int
    BY ClockAssumption DEF Members, Times
<1>2. x.duration \in Int \cup {None} /\ x.end_before \in Int \cup {None}
    BY DEF Definitions
<1>3. Allowed(x, m) \in Int
    BY <1>1, <1>2 DEF Allowed, Earlier, HasLimit
<1>4. Later(Allowed(x, m) + m.extra, m.started_at) \in Int
    BY <1>1, <1>3 DEF Later
<1>5. ASSUME NEW s, NEW t, s # None PROVE Earlier(s, t) # None
    BY <1>5 DEF Earlier
<1> QED
    BY <1>1, <1>3, <1>4, <1>5 DEF EndAt

\* A clock that started has an end, whatever was edited, adjusted or read back
\* (Exam.end_at, parse_exam), overlapping requests included.
THEOREM ClocksEnd == Spec => []EveryClockEnds
<1>1. Init => LimitInv
    BY InitLimited
<1>2. TypeOK /\ LimitInv => EveryClockEnds
    <2> SUFFICES ASSUME TypeOK, LimitInv, NEW s \in Known, memory[s].started_at # None
                 PROVE  EndAt(exam, memory[s]) # None
        BY DEF EveryClockEnds
    <2>1. exam \in Definitions /\ HasLimit(exam) /\ memory[s] \in Members
        BY Parts DEF StoreOK, exam, LimitInv, Known
    <2> QED
        BY <2>1, EndsWithLimit
<1> QED
    BY <1>1, <1>2, LimitSteps, TypeCorrect, PTL DEF Spec

-----------------------------------------------------------------------------
\* Every change is saved.

\* A save under way writes what is in memory, or the record is saved again.
SavesInv == \A r \in Records : r \in pending \/ \A v \in saving[r] : v = memory[r]

LEMMA SavesSteps ==
    ASSUME ~Overlaps, ~Newcomers, TypeOK, LimitInv, SavesInv, NothingForgotten, [Next]_vars
    PROVE  SavesInv' /\ NothingForgotten'
<1> DEFINE Goal == SavesInv' /\ NothingForgotten'
<1>a. StoreOK /\ pending \subseteq Known /\ RestOK
    BY Parts
<1>1. ASSUME NEW r \in Records, NEW v, Save(r, v),
             pending \ {r} \subseteq pending', pending' \subseteq pending
      PROVE  Goal
    <2>1. /\ saving[r] = {} /\ memory'[r] = v /\ saving'[r] = {v}
          /\ stored' = stored /\ dirty' = dirty
          /\ \A q \in Records \ {r} : memory'[q] = memory[q] /\ saving'[q] = saving[q]
        BY <1>1, <1>a DEF Save, StoreOK
    <2>2. SavesInv'
        BY <1>1, <2>1 DEF SavesInv
    <2>3. NothingForgotten'
        BY <1>1, <2>1 DEF NothingForgotten, Saved, Unsaved
    <2> QED
        BY <2>2, <2>3
<1>2. ASSUME DefinitionSaved PROVE Goal
    BY <1>1, <1>2, Kinds DEF DefinitionSaved
<1>3. ASSUME NEW s \in Students, MemberSaved(s) PROVE Goal
    BY <1>1, <1>3, Kinds DEF MemberSaved
<1>4. ASSUME NEW new \in LabSets, SetLabsForAll(new) PROVE Goal
    <2>1. /\ saving[Exam] = {} /\ pending = {} /\ saving'[Exam] = {memory'[Exam]}
          /\ \A s \in Students : saving'[s] = saving[s]
          /\ \A s \in Students : memory[s] = None => memory'[s] = memory[s]
          /\ stored' = stored /\ dirty' = dirty
          /\ pending' = Known
        BY <1>4, <1>a, Kinds DEF SetLabsForAll, StoreOK
    <2>2. SavesInv'
        <3> SUFFICES ASSUME NEW r \in Records
                     PROVE  r \in pending' \/ \A v \in saving'[r] : v = memory'[r]
            BY DEF SavesInv
        <3>1. CASE r = Exam
            BY <2>1, <3>1
        <3>2. CASE r \in Students
            BY <1>a, <2>1, <3>2 DEF Known, StoreOK
        <3> QED
            BY <3>1, <3>2, Kinds
    <2>3. NothingForgotten'
        <3> SUFFICES ASSUME NEW r \in Records, ~Saved(r)' PROVE r \in Unsaved'
            BY DEF NothingForgotten
        <3>1. CASE r = Exam
            BY <2>1, <3>1 DEF Unsaved
        <3>2. CASE r \in Students
            BY <2>1, <3>2 DEF Unsaved, Known, NothingForgotten, Saved
        <3> QED
            BY <3>1, <3>2, Kinds
    <2> QED
        BY <2>2, <2>3
<1>5. ASSUME NEW r \in Records, SaveEnds(r) PROVE Goal
    <2>1. PICK v \in saving[r] :
            /\ saving' = [saving EXCEPT ![r] = @ \ {v}]
            /\ stored' = [stored EXCEPT ![r] = v]
        BY <1>5 DEF SaveEnds
    <2>2. UNCHANGED <<memory, pending>> /\ dirty' = dirty \ {r}
        BY <1>5 DEF SaveEnds
    <2>3. /\ saving'[r] = saving[r] \ {v} /\ stored'[r] = v
          /\ \A q \in Records \ {r} : saving'[q] = saving[q] /\ stored'[q] = stored[q]
        BY <1>a, <2>1 DEF StoreOK
    <2>4. SavesInv'
        BY <2>2, <2>3 DEF SavesInv
    <2>5. r \in pending' \/ memory'[r] = stored'[r]
        BY <2>1, <2>2, <2>3 DEF SavesInv
    <2>6. NothingForgotten'
        BY <2>2, <2>3, <2>5 DEF NothingForgotten, Saved, Unsaved
    <2> QED
        BY <2>4, <2>6
<1>6. ASSUME NEW r \in Records, SaveFails(r) PROVE Goal
    <2>1. UNCHANGED <<memory, stored, pending>> /\ dirty' = dirty \cup {r}
        BY <1>6 DEF SaveFails
    <2>2. /\ saving'[r] \subseteq saving[r]
          /\ \A q \in Records \ {r} : saving'[q] = saving[q]
        BY <1>6, <1>a DEF SaveFails, StoreOK
    <2> QED
        BY <2>1, <2>2 DEF SavesInv, NothingForgotten, Saved, Unsaved
<1>7. ASSUME Restart PROVE Goal
    BY <1>7 DEF Restart, SavesInv, NothingForgotten, Saved
<1>8. ASSUME NothingSaved PROVE Goal
    BY <1>8 DEF NothingSaved, SavesInv, NothingForgotten, Saved, Unsaved
<1>9. ASSUME NEW s \in Students, MemberMade(s) PROVE Goal
    <2>1. /\ memory[s] = None /\ memory'[s] = NewMember
          /\ \A q \in Records \ {s} : memory'[q] = memory[q]
          /\ UNCHANGED <<stored, dirty, saving, pending>>
        BY <1>9, <1>a, Kinds DEF MemberMade, StoreOK
    <2>2. s \notin Unsaved /\ saving[s] = {}
        BY <1>a, <2>1 DEF Unsaved, Known, StoreOK
    <2>3. Saved(s)'
        BY <2>1, <2>2, Kinds DEF NothingForgotten, Saved, Contents
    <2>4. \A q \in Records \ {s} : Saved(q)' = Saved(q) /\ (q \in Unsaved' <=> q \in Unsaved)
        BY <2>1 DEF Saved, Unsaved
    <2> QED
        BY <2>1, <2>2, <2>3, <2>4 DEF SavesInv, NothingForgotten
<1> QED
    BY <1>2, <1>3, <1>4, <1>5, <1>6, <1>7, <1>8, <1>9, Steps

LEMMA SavesHold ==
    ASSUME ~Overlaps, ~Newcomers
    PROVE  Spec => [](TypeOK /\ LimitInv /\ SavesInv /\ NothingForgotten)
<1>1. Init => LimitInv
    BY InitLimited
<1>2. Init => SavesInv /\ NothingForgotten
    BY DEF Init, SavesInv, NothingForgotten, Saved
<1> QED
    BY <1>1, <1>2, LimitSteps, SavesSteps, TypeCorrect, PTL DEF Spec

\* What a record says and the database does not is on its way to it, through the saves that
\* fail, the loop of set_labs and the restarts (Exams._persist_exam,
\* _persist_member, _retry_dirty), if the saves of one record do not overlap and
\* nobody gets a record while set_labs saves them all.
THEOREM NothingIsForgotten ==
    ASSUME ~Overlaps, ~Newcomers
    PROVE  Spec => []NothingForgotten
BY SavesHold, PTL

-----------------------------------------------------------------------------
\* The clocks keep their starts.

LEMMA ClockKeptStep ==
    ASSUME TypeOK, LimitInv, NothingForgotten, [Next]_vars,
           NEW s \in Known, memory[s].started_at # None,
           restarts' = restarts \/ s \notin Unsaved
    PROVE  memory'[s] # None /\ memory'[s].started_at = memory[s].started_at
<1> DEFINE Goal == memory'[s] # None /\ memory'[s].started_at = memory[s].started_at
<1>a. /\ StoreOK /\ s \in Students /\ s # Exam /\ s \in Records
      /\ memory[s] # None /\ memory[s] \in Members
    BY Parts, Kinds DEF Known, StoreOK
<1>b. restarts \in Nat
    BY Parts, PortalAssumption DEF RestOK
<1>1. ASSUME DefinitionSaved PROVE Goal
    BY <1>1, <1>a DEF DefinitionSaved, Save, StoreOK
<1>2. ASSUME NEW t \in Students, MemberSaved(t) PROVE Goal
    <2>1. PICK m \in Members : Save(t, m) /\ KeepsClock(m, MemberOf(t))
        BY <1>2 DEF MemberSaved
    <2>2. memory' = [memory EXCEPT ![t] = m]
        BY <2>1 DEF Save
    <2>3. CASE t = s
        <3>1. memory'[s] = m
            BY <1>a, <2>2, <2>3 DEF StoreOK
        <3>2. m.started_at = memory[s].started_at
            BY <1>a, <2>1, <2>3 DEF KeepsClock, MemberOf
        <3> QED
            BY <3>1, <3>2, RecordAssumption
    <2>4. CASE t # s
        BY <1>a, <2>2, <2>4 DEF StoreOK
    <2> QED
        BY <2>3, <2>4
<1>3. ASSUME NEW new \in LabSets, SetLabsForAll(new) PROVE Goal
    <2>1. memory'[s] = [memory[s] EXCEPT !.labs = None, !.projects = @ \cap new]
        BY <1>3, <1>a DEF SetLabsForAll
    <2>2. memory'[s] \in [seen: BOOLEAN, started_at: Times, ended_at: Times, extra: Int,
                          dismissed_at: Times, labs: LabSets \cup {None},
                          projects: SUBSET Labs]
        BY <1>a, <2>1 DEF Members
    <2>3. memory'[s].started_at = memory[s].started_at
        BY <1>a, <2>1 DEF Members
    <2> QED
        BY <2>2, <2>3, RecordAssumption DEF Members
<1>4. ASSUME NEW r \in Records, SaveEnds(r) \/ SaveFails(r) PROVE Goal
    BY <1>4, <1>a DEF SaveEnds, SaveFails
<1>5. ASSUME Restart PROVE Goal
    <2>1. memory' = stored /\ Saved(s)
        BY <1>5, <1>a, <1>b DEF Restart, NothingForgotten
    <2>2. memory[s] # NewMember
        BY DEF NewMember
    <2>3. memory[s] = stored[s]
        BY <1>a, <2>1, <2>2 DEF Saved, Contents
    <2> QED
        BY <1>a, <2>1, <2>3
<1>6. ASSUME NothingSaved PROVE Goal
    BY <1>6, <1>a DEF NothingSaved
<1>7. ASSUME NEW t \in Students, MemberMade(t) PROVE Goal
    BY <1>7, <1>a DEF MemberMade, StoreOK
<1> QED
    BY <1>1, <1>2, <1>3, <1>4, <1>5, <1>6, <1>7, Steps

\* A clock that started keeps its start, but for a restart before the start was
\* saved (web.md: "an exam survives a restart of the portal, the clocks of the
\* students included").
THEOREM ClocksAreKept ==
    ASSUME ~Overlaps, ~Newcomers
    PROVE  Spec => ClockKept
<1>1. TypeOK /\ LimitInv /\ NothingForgotten /\ [Next]_vars
      => [\A s \in Known :
             \/ memory[s].started_at = None
             \/ memory'[s] # None /\ memory'[s].started_at = memory[s].started_at
             \/ restarts' # restarts /\ s \in Unsaved]_vars
    BY ClockKeptStep
<1> QED
    BY <1>1, SavesHold, PTL DEF Spec, ClockKept

-----------------------------------------------------------------------------
\* The phases go forward.

LEMMA EndAtTyped ==
    ASSUME NEW x \in Definitions, NEW m \in Members
    PROVE  EndAt(x, m) \in Int \cup {None}
<1>1. /\ m.started_at \in Int \cup {None} /\ m.extra \in Int /\ m.ended_at \in Int \cup {None}
      /\ None \notin Int
    BY ClockAssumption DEF Members, Times
<1>2. /\ x.duration \in Int \cup {None} /\ x.end_before \in Int \cup {None}
      /\ x.ended_at \in Int \cup {None}
    BY DEF Definitions, Times
<1>3. \A s \in Int \cup {None}, t \in Int \cup {None} : Earlier(s, t) \in Int \cup {None}
    BY DEF Earlier
<1>4. m.started_at # None => Allowed(x, m) \in Int \cup {None}
    <2>1. m.started_at # None /\ x.duration # None => m.started_at + x.duration \in Int
        BY <1>1, <1>2
    <2> QED
        BY <1>2, <1>3, <2>1 DEF Allowed
<1>5. m.started_at # None /\ Allowed(x, m) # None
      => Later(Allowed(x, m) + m.extra, m.started_at) \in Int \cup {None}
    BY <1>1, <1>4 DEF Later
<1> QED
    BY <1>1, <1>2, <1>3, <1>4, <1>5 DEF EndAt

\* Time alone takes no student back.
LEMMA PhaseInTime ==
    ASSUME NEW x \in Definitions, NEW m \in Members, NEW t \in Nat
    PROVE  /\ Phase(x, m, t) \in Phases
           /\ Rank[Phase(x, m, t)] <= Rank[Phase(x, m, t + 1)]
<1>1. /\ EndAt(x, m) \in Int \cup {None} /\ x.start_after \in Int \cup {None}
      /\ x.end_before \in Int \cup {None} /\ m.dismissed_at \in Int \cup {None}
      /\ Lead \in Nat
    BY EndAtTyped, ClockAssumption DEF Definitions, Members, Times
<1>2. \A u : Phase(x, m, u) \in Phases
    BY DEF Phase, Phases
<1> QED
    BY <1>1, <1>2, ClockAssumption DEF Phase, Rank, Phases, Closed, Begun

LEMMA SamePhase ==
    ASSUME NEW x, NEW m, NEW o, NEW t, SameClock(m, o)
    PROVE  Phase(x, m, t) = Phase(x, o, t)
BY DEF SameClock, Phase, EndAt, Allowed

\* A clock that starts leaves what comes before it.
LEMMA PhaseAtStart ==
    ASSUME NEW x \in Definitions, NEW o \in Members, NEW m \in Members, NEW t \in Nat,
           Begun(x, t), o.started_at = None, m.started_at # None
    PROVE  Rank[Phase(x, o, t)] <= Rank[Phase(x, m, t)]
<1>1. ~(x.start_after # None /\ t < x.start_after - Lead)
    BY ClockAssumption DEF Begun, Definitions, Times
<1>2. EndAt(x, o) = None
    BY DEF EndAt
<1>3. Phase(x, o, t) \in {"past", "starting"}
    BY <1>1, <1>2 DEF Phase
<1>4. Phase(x, m, t) \in {"done", "ended", "active"}
    BY <1>1 DEF Phase
<1> QED
    BY <1>3, <1>4 DEF Rank, Phases

LEMMA PhaseDismissed ==
    ASSUME NEW x \in Definitions, NEW o \in Members, NEW t \in Nat, Phase(x, o, t) = "ended"
    PROVE  Phase(x, [o EXCEPT !.dismissed_at = t], t) = "done"
<1> DEFINE m == [o EXCEPT !.dismissed_at = t]
<1>1. /\ m.started_at = o.started_at /\ m.extra = o.extra /\ m.ended_at = o.ended_at
      /\ m.dismissed_at = t /\ t # None
    BY ClockAssumption DEF Members
<1> HIDE DEF m
<1>2. EndAt(x, m) = EndAt(x, o)
    BY <1>1 DEF EndAt, Allowed
<1>3. /\ ~(x.start_after # None /\ t < x.start_after - Lead)
      /\ EndAt(x, o) # None /\ t >= EndAt(x, o)
    BY DEF Phase
<1>4. m.dismissed_at # None /\ m.dismissed_at >= EndAt(x, m)
    BY <1>1, <1>2, <1>3
<1>5. Phase(x, m, t) = "done"
    BY <1>2, <1>3, <1>4 DEF Phase
<1> QED
    BY <1>5 DEF m

\* The definition is a record that says something.
LEMMA Distinct ==
    ASSUME NEW x \in Definitions
    PROVE  x # NewMember
<1>1. "duration" \in DOMAIN x /\ "duration" \notin DOMAIN NewMember
    BY DEF Definitions, NewMember
<1> QED
    BY <1>1

LEMMA PhaseStep ==
    ASSUME TypeOK, LimitInv, NothingForgotten, [Next]_vars,
           changes' = changes, ~EditMade, restarts' = restarts \/ Unsaved = {},
           NEW s \in Students
    PROVE  Rank[PhaseOf(s)] <= Rank[PhaseOf(s)']
<1> DEFINE Goal == Rank[PhaseOf(s)] <= Rank[PhaseOf(s)']
<1>a. /\ StoreOK /\ RestOK /\ now \in Nat /\ s # Exam
      /\ exam \in Definitions /\ MemberOf(s) \in Members
    BY Parts, RecordOf, Kinds, PortalAssumption DEF StoreOK
<1>b. /\ PhaseOf(s) = Phase(exam, MemberOf(s), now)
      /\ PhaseOf(s)' = Phase(exam', MemberOf(s)', now')
    BY DEF PhaseOf
<1>c. /\ \A t \in Nat : Rank[Phase(exam, MemberOf(s), t)] \in Int
      /\ \A t \in Nat : Rank[Phase(exam, MemberOf(s), t)]
                        <= Rank[Phase(exam, MemberOf(s), t + 1)]
    <2>1. \A p \in Phases : Rank[p] \in Int
        BY DEF Rank, Phases
    <2> QED
        BY <1>a, <2>1, PhaseInTime
<1>1. ASSUME exam' = exam, MemberOf(s)' = MemberOf(s), now' \in {now, now + 1} PROVE Goal
    BY <1>1, <1>a, <1>b, <1>c
<1>2. ASSUME memory' = memory, now' \in {now, now + 1} PROVE Goal
    BY <1>1, <1>2 DEF exam, MemberOf
<1>3. ASSUME DefinitionSaved PROVE Goal
    <2>1. memory' = [memory EXCEPT ![Exam] = exam] /\ now' = now
        BY <1>3 DEF DefinitionSaved, Save
    <2>2. exam' = exam /\ MemberOf(s)' = MemberOf(s)
        BY <1>a, <2>1, Kinds DEF exam, MemberOf, StoreOK
    <2> QED
        BY <1>1, <2>1, <2>2
<1>4. ASSUME NEW t \in Students, MemberSaved(t) PROVE Goal
    <2>1. PICK m \in Members : Save(t, m) /\ GoesOn(t, m)
        BY <1>4 DEF MemberSaved
    <2>2. /\ now' = now /\ memory'[t] = m /\ exam' = exam
          /\ t # s => memory'[s] = memory[s]
        BY <1>a, <2>1, Kinds DEF Save, StoreOK, exam
    <2>3. CASE t # s
        <3>1. MemberOf(s)' = MemberOf(s)
            BY <2>2, <2>3 DEF MemberOf
        <3> QED
            BY <1>1, <2>2, <3>1
    <2>4. CASE t = s
        <3>1. MemberOf(s)' = m
            BY <2>2, <2>4, RecordAssumption DEF MemberOf
        <3>2. PhaseOf(s)' = Phase(exam, m, now)
            BY <1>b, <2>2, <3>1
        <3>3. CASE SameClock(m, MemberOf(s))
            BY <1>a, <1>b, <1>c, <3>2, <3>3, SamePhase
        <3>4. CASE MemberOf(s).started_at = None /\ Begun(exam, now) /\ m.started_at # None
            BY <1>a, <1>b, <3>2, <3>4, PhaseAtStart
        <3>5. CASE PhaseOf(s) = "ended" /\ m = [MemberOf(s) EXCEPT !.dismissed_at = now]
            <4>1. PhaseOf(s)' = "done"
                BY <1>a, <1>b, <3>2, <3>5, PhaseDismissed
            <4> QED
                BY <3>5, <4>1 DEF Rank, Phases
        <3> QED
            BY <2>1, <2>4, <3>3, <3>4, <3>5 DEF GoesOn
    <2> QED
        BY <2>3, <2>4
<1>5. ASSUME NEW new \in LabSets, SetLabsForAll(new) PROVE Goal
    <2>1. changes' = changes + 1
        BY <1>5 DEF SetLabsForAll, MayChange
    <2>2. changes \in Int
        BY <1>a, PortalAssumption DEF RestOK
    <2> QED
        BY <2>1, <2>2
<1>6. ASSUME NEW r \in Records, SaveEnds(r) \/ SaveFails(r) PROVE Goal
    BY <1>2, <1>6 DEF SaveEnds, SaveFails
<1>7. ASSUME Restart PROVE Goal
    <2>1. memory' = stored /\ now' = now /\ Unsaved = {}
        BY <1>7, <1>a DEF Restart, RestOK
    <2>2. Saved(Exam) /\ Saved(s)
        BY <1>a, <2>1, Kinds DEF NothingForgotten
    <2>3. exam' = exam
        BY <1>a, <2>1, <2>2, Distinct DEF StoreOK, Saved, Contents, exam
    <2>4. MemberOf(s)' = MemberOf(s)
        BY <2>1, <2>2 DEF Saved, Contents, MemberOf
    <2> QED
        BY <1>1, <2>1, <2>3, <2>4
<1>8. ASSUME NothingSaved PROVE Goal
    BY <1>2, <1>8 DEF NothingSaved
<1>9. ASSUME NEW t \in Students, MemberMade(t) PROVE Goal
    <2>1. exam' = exam /\ MemberOf(s)' = MemberOf(s) /\ now' = now
        BY <1>9, <1>a, Kinds DEF MemberMade, StoreOK, exam, MemberOf
    <2> QED
        BY <1>1, <2>1
<1> QED
    BY <1>3, <1>4, <1>5, <1>6, <1>7, <1>8, <1>9, Steps

\* Unless an instructor acts, or the portal restarts before a change was saved,
\* no student goes back to an earlier phase (Exam.phase; web.md: "What a student
\* sees, in order").
THEOREM PhasesAreInOrder ==
    ASSUME ~Overlaps, ~Newcomers
    PROVE  Spec => PhasesGoForward
<1>1. TypeOK /\ LimitInv /\ NothingForgotten /\ [Next]_vars
      => [\/ changes' # changes \/ EditMade
          \/ restarts' # restarts /\ Unsaved # {}
          \/ \A s \in Students : Rank[PhaseOf(s)] <= Rank[PhaseOf(s)']]_vars
    BY PhaseStep
<1> QED
    BY <1>1, SavesHold, PTL DEF Spec, PhasesGoForward
=============================================================================
