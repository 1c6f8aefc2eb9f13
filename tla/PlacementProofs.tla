--------------------------- MODULE PlacementProofs ---------------------------
(***************************************************************************)
(* The capacity of a host holds for every number of starts, every limit    *)
(* and every policy of the pool, and every bound on the events.            *)
(*                                                                         *)
(* The strengthening relates the three places where a project is counted:  *)
(* the list of the agent, the answer under way and the reservations.  The  *)
(* answer counts every managed project whose reservation the poll that     *)
(* brings it will forget; so what the portal counts, once it received the  *)
(* answer, is never less than what is on the host.                         *)
(*                                                                         *)
(* The policy of the pool does not flap, whatever the pool: the sum of the *)
(* free slots is taken apart one host at a time.                           *)
(***************************************************************************)
EXTENDS Placement, FiniteSetTheorems, WellFoundedInduction, TLAPS

\* A start is on its way exactly while its reservation is open or its browser
\* gone; a managed project had its start, which is over.
StartsInv ==
    \A s \in Starts :
        /\ at[s] = "none" => claim[s] = "none"
        /\ s \in managed => at[s] = "over"
        /\ at[s] \in {"sent", "queued", "running"} => claim[s] = "open"

\* What counts against max_projects.
Taken == {s \in Starts : claim[s] = "open" \/ s \in managed}

\* The managed projects whose reservation is not counted with the poll under way.
Forgotten == {s \in managed : claim[s] \in {"none", "released"}}

CountInv ==
    /\ poll = "served" => Cardinality(Forgotten) <= answer.projects
    /\ reachable => Cardinality(Taken) <= projects
    /\ Cardinality(Taken) <= MaxProjects

-----------------------------------------------------------------------------
\* Finite sets.

LEMMA StartsFinite == \A S \in SUBSET Starts : IsFiniteSet(S) /\ Cardinality(S) \in Nat
<1>1. NStarts \in Nat
    BY AgentAssumption
<1>2. IsFiniteSet(Starts)
    BY <1>1, FS_Interval DEF Starts
<1> QED
    BY <1>2, FS_Subset, FS_CardinalityType

LEMMA Smaller ==
    ASSUME NEW T \in SUBSET Starts, NEW S \in SUBSET T
    PROVE  Cardinality(S) <= Cardinality(T)
BY StartsFinite, FS_Subset

LEMMA OneMore ==
    ASSUME NEW S \in SUBSET Starts, NEW s \in Starts
    PROVE  Cardinality(S \cup {s}) <= Cardinality(S) + 1
BY StartsFinite, FS_AddElement

LEMMA Together ==
    ASSUME NEW S \in SUBSET Starts, NEW T \in SUBSET Starts
    PROVE  Cardinality(S \cup T) <= Cardinality(S) + Cardinality(T)
<1>1. /\ IsFiniteSet(S) /\ IsFiniteSet(T)
      /\ Cardinality(S) \in Nat /\ Cardinality(T) \in Nat
      /\ Cardinality(S \cap T) \in Nat
    BY StartsFinite
<1>2. Cardinality(S \cup T) = Cardinality(S) + Cardinality(T) - Cardinality(S \cap T)
    BY <1>1, FS_Union
<1> QED
    BY <1>1, <1>2
-----------------------------------------------------------------------------
LEMMA CountedIsNat == \A claims : Counted(claims) \in Nat
BY StartsFinite DEF Counted

LEMMA AgentTypeKept ==
    ASSUME TypeOK, StartsInv, Next
    PROVE  AgentTypeOK'
<1> USE DEF TypeOK, AgentTypeOK, StartsInv, Places, Running,
           agentVars, portalVars, callVars, statusVars, pollVars, runtimeVars
<1>1. ASSUME NEW s \in Starts, Pick(s) PROVE AgentTypeOK'
    BY <1>1 DEF Pick, Event, MayPlace
<1>2. ASSUME RestartServed PROVE AgentTypeOK'
    BY <1>2 DEF RestartServed, Event
<1>3. ASSUME Halted PROVE AgentTypeOK'
    BY <1>3 DEF Halted, HaltedByHand, GoesOff, Cut, Event
<1>4. ASSUME NEW s \in Starts, CreateArrives(s), UNCHANGED portalVars PROVE AgentTypeOK'
    BY <1>4 DEF CreateArrives
<1>5. ASSUME NEW s \in Starts, SreStarts(s), UNCHANGED portalVars PROVE AgentTypeOK'
    BY <1>5 DEF SreStarts
<1>6. ASSUME NEW s \in Starts, SreEnds(s), UNCHANGED portalVars PROVE AgentTypeOK'
    BY <1>6 DEF SreEnds
<1>7. ASSUME NEW s \in Starts, SreFails(s), UNCHANGED portalVars PROVE AgentTypeOK'
    BY <1>7 DEF SreFails
<1>8. ASSUME NEW s \in Starts, StrayEnds(s), UNCHANGED portalVars PROVE AgentTypeOK'
    BY <1>8 DEF StrayEnds
<1>9. ASSUME NEW s \in Starts, SreListed(s), UNCHANGED portalVars PROVE AgentTypeOK'
    BY <1>9 DEF SreListed
<1>10. ASSUME NEW s \in Starts, ProjectCloses(s), UNCHANGED portalVars PROVE AgentTypeOK'
    BY <1>10 DEF ProjectCloses
<1>11. ASSUME RestartRuns, UNCHANGED portalVars PROVE AgentTypeOK'
    BY <1>11 DEF RestartRuns, Cut
<1>12. ASSUME RestartFails, UNCHANGED portalVars PROVE AgentTypeOK'
    BY <1>12 DEF RestartFails
<1>13. ASSUME AgentBack, UNCHANGED portalVars PROVE AgentTypeOK'
    BY <1>13 DEF AgentBack
<1>14. ASSUME PowerOffRuns, UNCHANGED portalVars PROVE AgentTypeOK'
    BY <1>14 DEF PowerOffRuns, GoesOff, Cut
<1>15. ASSUME PowerOffFails, UNCHANGED portalVars PROVE AgentTypeOK'
    BY <1>15 DEF PowerOffFails
<1>16. ASSUME MachineBoots, UNCHANGED portalVars PROVE AgentTypeOK'
    BY <1>16 DEF MachineBoots, Boots
<1>17. ASSUME NEW s \in Starts, BrowserLeaves(s) PROVE AgentTypeOK'
    BY <1>17 DEF BrowserLeaves, WriteFails, Released
<1>18. ASSUME PollReceived PROVE AgentTypeOK'
    BY <1>18 DEF PollReceived, Consumed, Kept, RestartTracked, Event, NoAnswer
<1>19. ASSUME PowerOffServed PROVE AgentTypeOK'
    BY <1>19 DEF PowerOffServed, Answered, Event
<1>20. ASSUME RestartDone PROVE AgentTypeOK'
    BY <1>20 DEF RestartDone
<1>21. CASE UNCHANGED agentVars
    BY <1>21
<1> QED
    BY <1>1, <1>2, <1>3, <1>4, <1>5, <1>6, <1>7, <1>8, <1>9, <1>10, <1>11, <1>12, <1>13,
       <1>14, <1>15, <1>16, <1>17, <1>18, <1>19, <1>20, <1>21
       DEF Next, People, HostStep, AgentStep, PortalStep, PollStep, CallStep, Elapses,
           PollSent, PollServed, ManagerAsked, DrainAsked, Release, WakeDone,
              PowerOffDone, WakeTimesOut,
           PowerOffTimesOut, RestartTimesOut, HoldElapses, Tick

LEMMA PortalTypeKept ==
    ASSUME TypeOK, Next
    PROVE  PortalTypeOK'
<1> USE DEF TypeOK, PortalTypeOK, Ages, Calls,
           agentVars, portalVars, callVars, statusVars, pollVars, runtimeVars
<1>1. ASSUME NEW s \in Starts, Pick(s) PROVE PortalTypeOK'
    BY <1>1, PlacementAssumption DEF Pick, Event, MayPlace
<1>2. ASSUME ManagerAsked PROVE PortalTypeOK'
    BY <1>2, PlacementAssumption DEF ManagerAsked, Event
<1>3. ASSUME DrainAsked PROVE PortalTypeOK'
    BY <1>3, PlacementAssumption DEF DrainAsked, Event
<1>4. ASSUME RestartServed PROVE PortalTypeOK'
    BY <1>4, PlacementAssumption DEF RestartServed, Event
<1>5. ASSUME Halted PROVE PortalTypeOK'
    BY <1>5, PlacementAssumption DEF Halted, HaltedByHand, GoesOff, Cut, Event
<1>6. ASSUME NEW s \in Starts, Release(s) PROVE PortalTypeOK'
    BY <1>6 DEF Release, Released
<1>7. ASSUME NEW s \in Starts, BrowserLeaves(s) PROVE PortalTypeOK'
    BY <1>7 DEF BrowserLeaves, WriteFails, Released
<1>8. ASSUME PollSent PROVE PortalTypeOK'
    BY <1>8 DEF PollSent
<1>9. ASSUME PollServed PROVE PortalTypeOK'
  <2>1. Cardinality(listed) \in Nat /\ Occupied \in BOOLEAN
      BY StartsFinite DEF TypeOK, AgentTypeOK, Occupied
  <2>2. answer' \in [projects : Nat, occupied : BOOLEAN, young : BOOLEAN, refusing : BOOLEAN]
      BY <1>9, <2>1 DEF PollServed, AgentTypeOK
  <2> QED
      BY <1>9, <2>2 DEF PollServed
<1>10. ASSUME PollReceived PROVE PortalTypeOK'
    BY <1>10, PlacementAssumption, CountedIsNat
       DEF PollReceived, Consumed, Kept, RestartTracked, Event, NoAnswer
<1>11. ASSUME WakeDone PROVE PortalTypeOK'
  <2>1. held' \in BOOLEAN
      BY <1>11, Zenon DEF WakeDone
  <2>2. woken' \in Ages /\ call' \in Calls
      BY <1>11 DEF WakeDone
  <2>3. UNCHANGED <<claim, statusVars, pollVars, drain, offSent, restartSent, events>>
      BY <1>11 DEF WakeDone
  <2> QED
      BY <2>1, <2>2, <2>3
<1>12. ASSUME PowerOffServed PROVE PortalTypeOK'
    BY <1>12, PlacementAssumption DEF PowerOffServed, Answered, Event
<1>13. ASSUME PowerOffDone PROVE PortalTypeOK'
    BY <1>13 DEF PowerOffDone
<1>14. ASSUME RestartDone PROVE PortalTypeOK'
    BY <1>14 DEF RestartDone
<1>15. ASSUME WakeTimesOut PROVE PortalTypeOK'
    BY <1>15 DEF WakeTimesOut
<1>16. ASSUME PowerOffTimesOut PROVE PortalTypeOK'
    BY <1>16 DEF PowerOffTimesOut
<1>17. ASSUME RestartTimesOut PROVE PortalTypeOK'
    BY <1>17 DEF RestartTimesOut
<1>18. ASSUME HoldElapses PROVE PortalTypeOK'
  <2>1. held' \in BOOLEAN
      BY <1>18, Zenon DEF HoldElapses
  <2>2. woken' \in Ages /\ call' \in Calls
      BY <1>18 DEF HoldElapses
  <2>3. UNCHANGED <<claim, statusVars, pollVars, drain, offSent, restartSent, events>>
      BY <1>18 DEF HoldElapses
  <2> QED
      BY <2>1, <2>2, <2>3
<1>19. ASSUME NEW active \in BOOLEAN, Tick(active) PROVE PortalTypeOK'
  <2>1. held' \in BOOLEAN
      BY <1>19, Zenon DEF Tick, WakesExpire
  <2>2. woken' \in Ages /\ call' \in Calls
      BY <1>19 DEF Tick, WakesExpire
  <2>3. UNCHANGED <<claim, statusVars, pollVars, drain, offSent, restartSent, events>>
      BY <1>19 DEF Tick, WakesExpire
  <2> QED
      BY <2>1, <2>2, <2>3
<1>20. CASE UNCHANGED portalVars
    BY <1>20
<1> QED
    BY <1>1, <1>2, <1>3, <1>4, <1>5, <1>6, <1>7, <1>8, <1>9, <1>10, <1>11, <1>12, <1>13,
       <1>14, <1>15, <1>16, <1>17, <1>18, <1>19, <1>20
       DEF Next, People, HostStep, AgentStep, PortalStep, PollStep, CallStep, Elapses

-----------------------------------------------------------------------------
\* The places of the starts.

LEMMA StartsKept ==
    ASSUME TypeOK, StartsInv, Next
    PROVE  StartsInv'
<1> USE DEF StartsInv, TypeOK, AgentTypeOK, PortalTypeOK,
           agentVars, portalVars, callVars, statusVars, pollVars, runtimeVars
<1>1. ASSUME NEW s \in Starts, Pick(s) PROVE StartsInv'
    BY <1>1 DEF Pick, Event, MayPlace
<1>2. ASSUME Halted PROVE StartsInv'
    BY <1>2 DEF Halted, HaltedByHand, GoesOff, Cut, Event
<1>3. ASSUME NEW s \in Starts, CreateArrives(s), UNCHANGED portalVars PROVE StartsInv'
    BY <1>3 DEF CreateArrives
<1>4. ASSUME NEW s \in Starts, SreStarts(s), UNCHANGED portalVars PROVE StartsInv'
    BY <1>4 DEF SreStarts
<1>5. ASSUME NEW s \in Starts, SreEnds(s), UNCHANGED portalVars PROVE StartsInv'
    BY <1>5 DEF SreEnds
<1>6. ASSUME NEW s \in Starts, SreFails(s), UNCHANGED portalVars PROVE StartsInv'
    BY <1>6 DEF SreFails
<1>7. ASSUME NEW s \in Starts, StrayEnds(s), UNCHANGED portalVars PROVE StartsInv'
    BY <1>7 DEF StrayEnds
<1>8. ASSUME NEW s \in Starts, ProjectCloses(s), UNCHANGED portalVars PROVE StartsInv'
    BY <1>8 DEF ProjectCloses
<1>9. ASSUME RestartRuns, UNCHANGED portalVars PROVE StartsInv'
    BY <1>9 DEF RestartRuns, Cut
<1>10. ASSUME PowerOffRuns, UNCHANGED portalVars PROVE StartsInv'
    BY <1>10 DEF PowerOffRuns, GoesOff, Cut
<1>11. ASSUME NEW s \in Starts, Release(s) PROVE StartsInv'
    BY <1>11 DEF Release, Released
<1>12. ASSUME NEW s \in Starts, BrowserLeaves(s) PROVE StartsInv'
    BY <1>12 DEF BrowserLeaves, WriteFails, Released
<1>13. ASSUME PollReceived PROVE StartsInv'
    BY <1>13 DEF PollReceived, Consumed, Kept, RestartTracked, Event, NoAnswer
<1>14. CASE UNCHANGED <<at, claim, managed>>
    BY <1>14
<1> QED
    BY <1>1, <1>2, <1>3, <1>4, <1>5, <1>6, <1>7, <1>8, <1>9, <1>10, <1>11, <1>12, <1>13,
       <1>14
       DEF Next, People, HostStep, AgentStep, PortalStep, PollStep, CallStep, Elapses,
           ManagerAsked, DrainAsked, RestartServed, SreListed, RestartFails, AgentBack,
              PowerOffFails, MachineBoots,
           Boots, PollSent, PollServed, WakeDone, PowerOffServed, PowerOffDone,
              RestartDone, WakeTimesOut,
           PowerOffTimesOut, RestartTimesOut, HoldElapses, Tick

-----------------------------------------------------------------------------
\* What the portal counts.

\* A step that takes nothing more, forgets nothing more and counts the same.
LEMMA CalmStep ==
    ASSUME TypeOK, TypeOK', CountInv,
           Taken' \subseteq Taken,
           reachable' => reachable /\ projects' = projects,
           poll' = "served" => poll = "served" /\ answer' = answer /\ Forgotten' \subseteq Forgotten
    PROVE  CountInv'
<1>1. Taken \subseteq Starts /\ Forgotten \subseteq Starts
    BY DEF Taken, Forgotten, TypeOK, AgentTypeOK
<1>2. Cardinality(Taken') <= Cardinality(Taken)
    BY <1>1, Smaller
<1>3. poll' = "served" => Cardinality(Forgotten') <= Cardinality(Forgotten)
    BY <1>1, Smaller
<1>4. /\ Cardinality(Taken) \in Nat /\ Cardinality(Taken') \in Nat
      /\ Cardinality(Forgotten) \in Nat
      /\ poll' = "served" => Cardinality(Forgotten') \in Nat
    BY <1>1, StartsFinite
<1>5. projects \in Nat /\ answer.projects \in Nat /\ MaxProjects \in Nat
    BY PlacementAssumption DEF TypeOK, PortalTypeOK
<1> QED
    BY <1>2, <1>3, <1>4, <1>5 DEF CountInv

\* A placement takes one place and counts one more, on a host that has room.
LEMMA PickCounts ==
    ASSUME TypeOK, TypeOK', CountInv, NEW s \in Starts, Pick(s)
    PROVE  CountInv'
<1>1. Taken \subseteq Starts /\ Forgotten \subseteq Starts
    BY DEF Taken, Forgotten, TypeOK, AgentTypeOK
<1>2. Taken' \subseteq Taken \cup {s} /\ Forgotten' \subseteq Forgotten
    BY DEF Pick, Taken, Forgotten, TypeOK, AgentTypeOK, PortalTypeOK
<1>3. Cardinality(Taken') <= Cardinality(Taken) + 1
  <2>1. Cardinality(Taken') <= Cardinality(Taken \cup {s})
      BY <1>1, <1>2, Smaller
  <2>2. Cardinality(Taken \cup {s}) <= Cardinality(Taken) + 1
      BY <1>1, OneMore
  <2>3. /\ Cardinality(Taken') \in Nat /\ Cardinality(Taken) \in Nat
        /\ Cardinality(Taken \cup {s}) \in Nat
      BY <1>1, <1>2, StartsFinite
  <2> QED
      BY <2>1, <2>2, <2>3
<1>4. Cardinality(Forgotten') <= Cardinality(Forgotten)
    BY <1>1, <1>2, Smaller
<1>5. /\ Cardinality(Taken) \in Nat /\ Cardinality(Taken') \in Nat
      /\ Cardinality(Forgotten) \in Nat /\ Cardinality(Forgotten') \in Nat
    BY <1>1, <1>2, StartsFinite
<1>6. projects \in Nat /\ answer.projects \in Nat /\ MaxProjects \in Nat
    BY PlacementAssumption DEF TypeOK, PortalTypeOK
<1>7. reachable /\ projects < MaxProjects
    BY DEF Pick, MayPlace, HostState
<1>8. projects' = projects + 1 /\ poll' = poll /\ answer' = answer
    BY DEF Pick, pollVars
<1> QED
    BY <1>3, <1>4, <1>5, <1>6, <1>7, <1>8 DEF CountInv

\* The agent answers with at least the managed projects to be forgotten.
LEMMA ServedCounts ==
    ASSUME TypeOK, TypeOK', CountInv, PollServed
    PROVE  CountInv'
<1>1. /\ Taken' = Taken /\ Forgotten' = Forgotten
      /\ reachable' = reachable /\ projects' = projects
    BY DEF PollServed, Taken, Forgotten, agentVars, statusVars
<1>2. Forgotten \subseteq listed /\ listed \subseteq Starts
    BY DEF Forgotten, TypeOK, AgentTypeOK
<1>3. Cardinality(Forgotten) <= Cardinality(listed)
    BY <1>2, Smaller
<1>4. answer'.projects = Cardinality(listed)
    BY DEF PollServed
<1> QED
    BY <1>1, <1>3, <1>4 DEF CountInv

\* A managed project is in the answer, or its reservation is counted with it.
LEMMA ReceivedCounts ==
    ASSUME TypeOK, TypeOK', CountInv, PollReceived
    PROVE  CountInv'
<1>1. /\ managed' = managed /\ poll' = "idle"
      /\ \A s \in Starts : claim'[s] = "open" => claim[s] = "open"
    BY DEF PollReceived, Consumed, Kept, TypeOK, PortalTypeOK
<1>2. Taken' \subseteq Taken /\ Taken \subseteq Starts
    BY <1>1 DEF Taken
<1>3. CASE ~reachable'
    BY <1>1, <1>2, <1>3, CalmStep
<1>4. CASE reachable'
  <2> DEFINE Still == {s \in Starts : Consumed[s] # "none"}
  <2>1. /\ poll = "served"
        /\ projects' = answer.projects + Cardinality(Still)
      BY <1>4 DEF PollReceived, Counted
  <2>2. Taken \subseteq Forgotten \cup Still
      BY DEF Taken, Forgotten, Consumed, TypeOK, AgentTypeOK, PortalTypeOK
  <2>3. Forgotten \subseteq Starts /\ Still \subseteq Starts
      BY DEF Forgotten, TypeOK, AgentTypeOK
  <2>4. /\ Cardinality(Taken') <= Cardinality(Forgotten \cup Still)
        /\ Cardinality(Taken') <= Cardinality(Taken)
    <3>1. Taken' \subseteq Forgotten \cup Still /\ Forgotten \cup Still \subseteq Starts
        BY <1>2, <2>2, <2>3
    <3> HIDE DEF Still
    <3> QED
        BY <1>2, <3>1, Smaller
  <2> HIDE DEF Still
  <2>5. Cardinality(Forgotten \cup Still) <= Cardinality(Forgotten) + Cardinality(Still)
      BY <2>3, Together
  <2>6. /\ Cardinality(Taken') \in Nat /\ Cardinality(Taken) \in Nat
        /\ Cardinality(Forgotten) \in Nat /\ Cardinality(Still) \in Nat
        /\ Cardinality(Forgotten \cup Still) \in Nat
      BY <1>2, <2>3, StartsFinite
  <2>7. answer.projects \in Nat /\ MaxProjects \in Nat
      BY PlacementAssumption DEF TypeOK, PortalTypeOK
  <2> QED
      BY <1>1, <2>1, <2>4, <2>5, <2>6, <2>7 DEF CountInv
<1> QED
    BY <1>3, <1>4

LEMMA CountKept ==
    ASSUME TypeOK, TypeOK', StartsInv, CountInv, Next
    PROVE  CountInv'
<1> USE DEF agentVars, portalVars, callVars, statusVars, pollVars, runtimeVars
<1>1. ASSUME NEW s \in Starts, Pick(s) PROVE CountInv'
    BY <1>1, PickCounts
<1>2. CASE PollServed
    BY <1>2, ServedCounts
<1>3. CASE PollReceived
    BY <1>3, ReceivedCounts
<1>4. ASSUME NEW s \in Starts, CreateArrives(s), UNCHANGED portalVars PROVE CountInv'
    BY <1>4, CalmStep
       DEF CreateArrives, Taken, Forgotten, StartsInv, TypeOK, AgentTypeOK,
           PortalTypeOK
<1>5. ASSUME NEW s \in Starts, SreStarts(s), UNCHANGED portalVars PROVE CountInv'
    BY <1>5, CalmStep
       DEF SreStarts, Taken, Forgotten, StartsInv, TypeOK, AgentTypeOK, PortalTypeOK
<1>6. ASSUME NEW s \in Starts, SreEnds(s), UNCHANGED portalVars PROVE CountInv'
    BY <1>6, CalmStep
       DEF SreEnds, Taken, Forgotten, StartsInv, TypeOK, AgentTypeOK, PortalTypeOK
<1>7. ASSUME NEW s \in Starts, SreFails(s), UNCHANGED portalVars PROVE CountInv'
    BY <1>7, CalmStep
       DEF SreFails, Taken, Forgotten, StartsInv, TypeOK, AgentTypeOK, PortalTypeOK
<1>8. ASSUME NEW s \in Starts, StrayEnds(s), UNCHANGED portalVars PROVE CountInv'
    BY <1>8, CalmStep
       DEF StrayEnds, Taken, Forgotten, StartsInv, TypeOK, AgentTypeOK, PortalTypeOK
<1>9. ASSUME NEW s \in Starts, SreListed(s), UNCHANGED portalVars PROVE CountInv'
    BY <1>9, CalmStep
       DEF SreListed, Taken, Forgotten, StartsInv, TypeOK, AgentTypeOK, PortalTypeOK
<1>10. ASSUME NEW s \in Starts, ProjectCloses(s), UNCHANGED portalVars PROVE CountInv'
    BY <1>10, CalmStep
       DEF ProjectCloses, Taken, Forgotten, StartsInv, TypeOK, AgentTypeOK,
           PortalTypeOK
<1>11. ASSUME RestartRuns, UNCHANGED portalVars PROVE CountInv'
    BY <1>11, CalmStep
       DEF RestartRuns, Cut, Taken, Forgotten, StartsInv, TypeOK, AgentTypeOK,
           PortalTypeOK
<1>12. ASSUME PowerOffRuns, UNCHANGED portalVars PROVE CountInv'
    BY <1>12, CalmStep
       DEF PowerOffRuns, GoesOff, Cut, Taken, Forgotten, StartsInv, TypeOK,
           AgentTypeOK, PortalTypeOK
<1>13. ASSUME Halted PROVE CountInv'
    BY <1>13, CalmStep
       DEF Halted, HaltedByHand, GoesOff, Cut, Taken, Forgotten, StartsInv, TypeOK,
           AgentTypeOK, PortalTypeOK
<1>14. ASSUME NEW s \in Starts, Release(s) PROVE CountInv'
    BY <1>14, CalmStep
       DEF Release, Released, Taken, Forgotten, StartsInv, TypeOK, AgentTypeOK,
           PortalTypeOK
<1>15. ASSUME NEW s \in Starts, BrowserLeaves(s) PROVE CountInv'
    BY <1>15, CalmStep
       DEF BrowserLeaves, WriteFails, Released, Taken, Forgotten, StartsInv, TypeOK,
           AgentTypeOK, PortalTypeOK
<1>16. ASSUME UNCHANGED <<claim, managed, answer, reachable, projects>>,
             poll' = "served" => poll = "served"
      PROVE  CountInv'
    BY <1>16, CalmStep DEF Taken, Forgotten
<1> QED
    BY <1>1, <1>2, <1>3, <1>4, <1>5, <1>6, <1>7, <1>8, <1>9, <1>10, <1>11, <1>12, <1>13,
       <1>14, <1>15, <1>16
       DEF Next, People, HostStep, AgentStep, PortalStep, PollStep, CallStep, Elapses,
           ManagerAsked, DrainAsked, RestartServed, RestartFails, AgentBack, PowerOffFails,
           MachineBoots, Boots, PollSent, WakeDone, PowerOffServed, PowerOffDone,
              RestartDone,
           WakeTimesOut, PowerOffTimesOut, RestartTimesOut, HoldElapses, Tick

-----------------------------------------------------------------------------
IInv == TypeOK /\ StartsInv /\ CountInv

LEMMA InitHolds == Init => IInv
<1> SUFFICES ASSUME Init PROVE IInv
    OBVIOUS
<1>1. TypeOK
  <2>1. AgentTypeOK
      BY DEF Init, AgentInit, AgentTypeOK, Places
  <2>2. reachable \in BOOLEAN
      BY Zenon DEF Init
  <2>3. occupied \in BOOLEAN /\ drain \in BOOLEAN /\ held \in BOOLEAN
      BY DEF Init
  <2>4. /\ claim \in [Starts -> {"none", "open", "late", "released"}]
        /\ projects \in Nat /\ events \in 0..MaxEvents
        /\ poll \in {"idle", "sent", "early", "served"}
        /\ answer \in [projects : Nat, occupied : BOOLEAN, young : BOOLEAN, refusing : BOOLEAN]
      BY PlacementAssumption DEF Init, NoAnswer
  <2>5. offSent \in Ages /\ restartSent \in Ages /\ woken \in Ages /\ call \in Calls
      BY DEF Init, Ages, Calls
  <2> QED
      BY <2>1, <2>2, <2>3, <2>4, <2>5, Zenon DEF TypeOK, PortalTypeOK
<1>2. StartsInv
    BY DEF Init, AgentInit, StartsInv
<1>3. CountInv
  <2>1. Taken = {} /\ poll # "served" /\ projects = 0
      BY DEF Init, AgentInit, Taken
  <2>2. Cardinality({}) = 0
      BY FS_EmptySet
  <2> QED
      BY <2>1, <2>2, PlacementAssumption DEF CountInv
<1> QED
    BY <1>1, <1>2, <1>3 DEF IInv

LEMMA StepHolds == IInv /\ [Next]_vars => IInv'
<1> SUFFICES ASSUME IInv, [Next]_vars PROVE IInv'
    OBVIOUS
<1>1. CASE Next
    BY <1>1, AgentTypeKept, PortalTypeKept, StartsKept, CountKept DEF IInv, TypeOK
<1>2. CASE UNCHANGED vars
  <2> USE <1>2 DEF IInv, vars, agentVars, portalVars, statusVars, pollVars, runtimeVars, callVars
  <2>1. AgentTypeOK'
      BY DEF TypeOK, AgentTypeOK
  <2>2. PortalTypeOK'
      BY DEF TypeOK, PortalTypeOK
  <2>3. StartsInv'
      BY DEF StartsInv
  <2>4. CountInv'
      BY DEF CountInv, Taken, Forgotten
  <2> QED
      BY <2>1, <2>2, <2>3, <2>4 DEF TypeOK
<1> QED
    BY <1>1, <1>2

LEMMA Invariant == Spec => []IInv
BY InitHolds, StepHolds, PTL DEF Spec

\* Placement is type correct.
THEOREM PlacementTyped == Spec => []TypeOK
<1>1. IInv => TypeOK
    BY DEF IInv
<1> QED
    BY <1>1, Invariant, PTL

\* Whatever the numbers of starts and projects and the policy of the pool, the
\* host never has more projects and starts than max_projects.
THEOREM CapacityCorrect == Spec => []CapacityHolds
<1>1. IInv => CapacityHolds
    BY DEF IInv, CountInv, CapacityHolds, Taken
<1> QED
    BY <1>1, Invariant, PTL

-----------------------------------------------------------------------------
\* The sum of a function on a finite set.  The induction is over a set of
\* sizes, those for which the fact holds.

\* Induction on a set of sizes.
LEMMA SizesInduct ==
    ASSUME NEW P, 0 \in P, \A n \in Nat : n \in P => n + 1 \in P
    PROVE  Nat \subseteq P
<1> DEFINE R == OpToRel(<, Nat)
           T == Nat \ P
<1>1. SUFFICES ASSUME T # {} PROVE FALSE
    OBVIOUS
<1>2. IsWellFoundedOn(R, Nat)
    BY NatLessThanWellFounded
<1>3. PICK x \in T : \A y \in T : ~(<<y, x>> \in R)
    <2> HIDE DEF R
    <2> QED
        BY <1>1, <1>2, WFMin
<1>4. \A y \in T : ~(y < x)
    <2>1. ASSUME NEW y \in T PROVE ~(<<y, x>> \in {pair \in Nat \X Nat : pair[1] < pair[2]})
        BY <1>3 DEF OpToRel
    <2> HIDE DEF R
    <2> QED
        BY <1>3, <2>1
<1> HIDE DEF R
<1>5. x # 0 /\ x \in Nat
    BY <1>3
<1>6. x - 1 \notin P
    BY <1>5
<1> QED
    BY <1>4, <1>5, <1>6

\* The element the fold takes first.
First(s) == CHOOSE x \in s : TRUE

\* The sums of F over the subsets of T, in the order the fold takes them.
SumsOf(sum, F, T) ==
    sum = [s \in SUBSET T |-> IF s = {} THEN 0 ELSE F[First(s)] + sum[s \ {First(s)}]]

Sums(F, T) == CHOOSE sum : SumsOf(sum, F, T)

LEMMA SumIs ==
    ASSUME NEW F, NEW T
    PROVE  SumFunctionOnSet(F, T) = Sums(F, T)[T]
BY Zenon DEF SumFunctionOnSet, FoldFunctionOnSet, MapThenFoldSet, Sums, SumsOf, First

LEMMA FirstOf ==
    ASSUME NEW s, s # {} PROVE First(s) \in s
BY DEF First

\* A subset without one of its elements.
LEMMA OneLess ==
    ASSUME NEW T, IsFiniteSet(T), NEW s \in SUBSET T, NEW x \in s
    PROVE  /\ IsFiniteSet(s) /\ IsFiniteSet(s \ {x}) /\ s \ {x} \in SUBSET T
           /\ Cardinality(s) \in Nat /\ Cardinality(s \ {x}) \in Nat
           /\ Cardinality(s \ {x}) = Cardinality(s) - 1
BY FS_Subset, FS_CardinalityType, FS_RemoveElement

LEMMA SumsExist ==
    ASSUME NEW F, NEW T, IsFiniteSet(T)
    PROVE  SumsOf(Sums(F, T), F, T)
<1> DEFINE Small(n) == {s \in SUBSET T : Cardinality(s) <= n}
           Found(g, n) ==
               g = [s \in Small(n) |->
                       IF s = {} THEN 0 ELSE F[First(s)] + g[s \ {First(s)}]]
           P == {n \in Nat : \E g : Found(g, n)}
<1>1. 0 \in P
    <2>1. \A s \in Small(0) : s = {}
        <3>1. ASSUME NEW s \in SUBSET T, s # {} PROVE ~(Cardinality(s) <= 0)
            <4>1. First(s) \in s
                BY <3>1, FirstOf
            <4>2. /\ Cardinality(s) \in Nat /\ Cardinality(s \ {First(s)}) \in Nat
                  /\ Cardinality(s \ {First(s)}) = Cardinality(s) - 1
                BY <4>1, OneLess
            <4> QED
                BY <4>2
        <3> QED
            BY <3>1
    <2> DEFINE g == [s \in Small(0) |-> 0]
    <2>2. Found(g, 0)
        BY <2>1
    <2> QED
        BY <2>2
<1>2. ASSUME NEW n \in Nat, n \in P PROVE n + 1 \in P
    <2>1. PICK g : Found(g, n)
        BY <1>2
    <2> DEFINE h == [s \in Small(n + 1) |->
                        IF s = {} THEN 0 ELSE F[First(s)] + g[s \ {First(s)}]]
    <2>2. \A s \in Small(n) : h[s] = g[s]
        <3>1. \A s \in Small(n) : s \in Small(n + 1)
            <4>1. \A s \in SUBSET T : Cardinality(s) \in Nat
                BY FS_Subset, FS_CardinalityType
            <4> QED
                BY <4>1
        <3>2. ASSUME NEW s \in Small(n)
              PROVE  g[s] = IF s = {} THEN 0 ELSE F[First(s)] + g[s \ {First(s)}]
            BY <2>1
        <3> QED
            BY <3>1, <3>2
    <2>3. ASSUME NEW s \in Small(n + 1), s # {} PROVE s \ {First(s)} \in Small(n)
        <3>1. s \in SUBSET T /\ First(s) \in s
            BY <2>3, FirstOf
        <3>2. /\ s \ {First(s)} \in SUBSET T
              /\ Cardinality(s) \in Nat /\ Cardinality(s \ {First(s)}) \in Nat
              /\ Cardinality(s \ {First(s)}) = Cardinality(s) - 1
            <4> HIDE DEF Small, Found, P, h
            <4> QED
                BY <3>1, OneLess
        <3> QED
            BY <3>2
    <2>4. Found(h, n + 1)
        <3>1. \A s \in Small(n + 1) :
                  s # {} => F[First(s)] + g[s \ {First(s)}] = F[First(s)] + h[s \ {First(s)}]
            BY <2>2, <2>3
        <3> QED
            BY <3>1
    <2> HIDE DEF h, Found
    <2> QED
        BY <2>4
<1>3. Cardinality(T) \in P
    <2> HIDE DEF P
    <2> QED
        BY <1>1, <1>2, SizesInduct, FS_CardinalityType
<1>4. Small(Cardinality(T)) = SUBSET T
    BY FS_Subset
<1>5. \E g : SumsOf(g, F, T)
    BY <1>3, <1>4 DEF SumsOf
<1> QED
    BY <1>5 DEF Sums

\* There is one such function.
LEMMA SumsAgree ==
    ASSUME NEW F, NEW T, IsFiniteSet(T), NEW g, NEW h, SumsOf(g, F, T), SumsOf(h, F, T)
    PROVE  \A s \in SUBSET T : g[s] = h[s]
<1> DEFINE P == {n \in Nat : \A s \in SUBSET T : Cardinality(s) = n => g[s] = h[s]}
<1>1. \A s \in SUBSET T :
          /\ g[s] = IF s = {} THEN 0 ELSE F[First(s)] + g[s \ {First(s)}]
          /\ h[s] = IF s = {} THEN 0 ELSE F[First(s)] + h[s \ {First(s)}]
    BY DEF SumsOf
<1>2. 0 \in P
    <2>1. ASSUME NEW s \in SUBSET T, Cardinality(s) = 0 PROVE s = {}
        <3>1. IsFiniteSet(s)
            BY FS_Subset
        <3> QED
            BY <2>1, <3>1, FS_EmptySet
    <2> QED
        BY <1>1, <2>1
<1>3. ASSUME NEW n \in Nat, n \in P PROVE n + 1 \in P
    <2>1. ASSUME NEW s \in SUBSET T, Cardinality(s) = n + 1 PROVE g[s] = h[s]
        <3>1. s # {}
            BY <2>1, FS_EmptySet
        <3>2. s \ {First(s)} \in SUBSET T /\ Cardinality(s \ {First(s)}) = n
            <4>1. First(s) \in s
                BY <3>1, FirstOf
            <4>2. /\ Cardinality(s \ {First(s)}) = Cardinality(s) - 1
                  /\ s \ {First(s)} \in SUBSET T
                BY <4>1, OneLess
            <4> QED
                BY <2>1, <4>2
        <3> QED
            BY <1>1, <1>3, <3>1, <3>2
    <2> QED
        BY <2>1
<1>4. \A s \in SUBSET T : Cardinality(s) \in P
    <2> HIDE DEF P
    <2> QED
        BY <1>2, <1>3, SizesInduct, FS_Subset, FS_CardinalityType
<1> QED
    BY <1>4

\* What the fold computes: one element, and the rest of them.
LEMMA SumFirst ==
    ASSUME NEW F, NEW T, IsFiniteSet(T)
    PROVE  SumFunctionOnSet(F, T)
             = IF T = {} THEN 0 ELSE F[First(T)] + SumFunctionOnSet(F, T \ {First(T)})
<1> DEFINE S == T \ {First(T)}
           g == Sums(F, T)
           h == [s \in SUBSET S |-> g[s]]
<1>1. SumsOf(g, F, T) /\ IsFiniteSet(S)
    BY SumsExist, FS_Subset
<1>2. \A s \in SUBSET T : g[s] = IF s = {} THEN 0 ELSE F[First(s)] + g[s \ {First(s)}]
    <2> HIDE DEF g
    <2> QED
        BY <1>1 DEF SumsOf
<1>3. SumsOf(h, F, S)
    <2>1. \A s \in SUBSET S : s \in SUBSET T /\ s \ {First(s)} \in SUBSET S
        OBVIOUS
    <2> HIDE DEF g, S
    <2> QED
        BY <1>2, <2>1 DEF SumsOf
<1>4. Sums(F, S)[S] = h[S]
    BY <1>1, <1>3, SumsExist, SumsAgree
<1>5. SumFunctionOnSet(F, S) = g[S]
    BY <1>4, SumIs
<1>6. SumFunctionOnSet(F, T) = g[T]
    BY SumIs
<1> QED
    BY <1>2, <1>5, <1>6

LEMMA SumEmpty == \A F : SumFunctionOnSet(F, {}) = 0
<1> SUFFICES ASSUME NEW F PROVE SumFunctionOnSet(F, {}) = 0
    OBVIOUS
<1>1. IsFiniteSet({})
    BY FS_EmptySet
<1> QED
    BY <1>1, SumFirst

LEMMA SumType ==
    ASSUME NEW D, NEW F \in [D -> Int], NEW T \in SUBSET D, IsFiniteSet(T)
    PROVE  SumFunctionOnSet(F, T) \in Int
<1> DEFINE P == {n \in Nat : \A s \in SUBSET T :
                                Cardinality(s) = n => SumFunctionOnSet(F, s) \in Int}
<1>1. 0 \in P
  <2>1. ASSUME NEW s \in SUBSET T, Cardinality(s) = 0 PROVE SumFunctionOnSet(F, s) \in Int
    <3>1. s = {}
        BY <2>1, FS_Subset, FS_EmptySet
    <3> QED
        BY <3>1, SumEmpty
  <2> QED
      BY <2>1
<1>2. ASSUME NEW n \in Nat, n \in P PROVE n + 1 \in P
  <2>1. ASSUME NEW s \in SUBSET T, Cardinality(s) = n + 1
        PROVE  SumFunctionOnSet(F, s) \in Int
    <3>1. IsFiniteSet(s) /\ s # {}
        BY <2>1, FS_Subset, FS_EmptySet
    <3>2. First(s) \in s
        BY <3>1, FirstOf
    <3>3. s \ {First(s)} \in SUBSET T /\ Cardinality(s \ {First(s)}) = n
      <4>1. /\ Cardinality(s \ {First(s)}) = Cardinality(s) - 1
            /\ s \ {First(s)} \in SUBSET T
          BY <3>2, OneLess
      <4> QED
          BY <2>1, <4>1
    <3>4. SumFunctionOnSet(F, s \ {First(s)}) \in Int
        BY <1>2, <3>3
    <3>5. F[First(s)] \in Int
        BY <3>2
    <3>6. SumFunctionOnSet(F, s) = F[First(s)] + SumFunctionOnSet(F, s \ {First(s)})
        BY <3>1, SumFirst
    <3> QED
        BY <3>4, <3>5, <3>6
  <2> QED
      BY <2>1
<1>3. Cardinality(T) \in P
  <2> HIDE DEF P
  <2> QED
      BY <1>1, <1>2, SizesInduct, FS_CardinalityType
<1> QED
    BY <1>3

\* It does not matter which element is taken first.
LEMMA SumAny ==
    ASSUME NEW D, NEW F \in [D -> Int], NEW T \in SUBSET D, IsFiniteSet(T), NEW e \in T
    PROVE  SumFunctionOnSet(F, T) = F[e] + SumFunctionOnSet(F, T \ {e})
<1> DEFINE Splits(s) == \A x \in s :
                            SumFunctionOnSet(F, s) = F[x] + SumFunctionOnSet(F, s \ {x})
           P == {n \in Nat : \A s \in SUBSET T : Cardinality(s) = n => Splits(s)}
<1>1. 0 \in P
  <2>1. ASSUME NEW s \in SUBSET T, Cardinality(s) = 0 PROVE s = {}
      BY <2>1, FS_Subset, FS_EmptySet
  <2> QED
      BY <2>1
<1>2. ASSUME NEW n \in Nat, n \in P PROVE n + 1 \in P
  <2>1. ASSUME NEW s \in SUBSET T, Cardinality(s) = n + 1, NEW x \in s
        PROVE  SumFunctionOnSet(F, s) = F[x] + SumFunctionOnSet(F, s \ {x})
    <3> DEFINE c == First(s)
               both == (s \ {c}) \ {x}
    <3>1. IsFiniteSet(s) /\ c \in s
        BY FS_Subset, FirstOf
    <3>2. SumFunctionOnSet(F, s) = F[c] + SumFunctionOnSet(F, s \ {c})
        BY <3>1, SumFirst
    <3>3. CASE x = c
        BY <3>2, <3>3
    <3>4. CASE x # c
      <4> HIDE DEF c
      <4>1. /\ Cardinality(s \ {c}) = n /\ s \ {c} \in SUBSET T
            /\ Cardinality(s \ {x}) = n /\ s \ {x} \in SUBSET T
        <5>1. ASSUME NEW y \in s PROVE Cardinality(s \ {y}) = n /\ s \ {y} \in SUBSET T
          <6>1. /\ Cardinality(s) \in Nat /\ s \ {y} \in SUBSET T
                /\ Cardinality(s \ {y}) = Cardinality(s) - 1
              BY OneLess
          <6> QED
              BY <2>1, <6>1
        <5> QED
            BY <3>1, <5>1
      <4>2. SumFunctionOnSet(F, s \ {c}) = F[x] + SumFunctionOnSet(F, both)
        <5>1. Splits(s \ {c}) /\ x \in s \ {c}
            BY <1>2, <3>4, <4>1
        <5> QED
            BY <5>1
      <4>3. SumFunctionOnSet(F, s \ {x}) = F[c] + SumFunctionOnSet(F, both)
        <5>1. Splits(s \ {x}) /\ c \in s \ {x}
            BY <1>2, <3>1, <3>4, <4>1
        <5>2. (s \ {x}) \ {c} = both
            OBVIOUS
        <5> QED
            BY <5>1, <5>2
      <4>4. SumFunctionOnSet(F, both) \in Int
        <5>1. both \in SUBSET D /\ IsFiniteSet(both)
            BY <3>1, FS_Subset
        <5> HIDE DEF both
        <5> QED
            BY <5>1, SumType
      <4>5. F[x] \in Int /\ F[c] \in Int
          BY <3>1
      <4> HIDE DEF both
      <4> QED
          BY <3>2, <4>2, <4>3, <4>4, <4>5
    <3> QED
        BY <3>3, <3>4
  <2> QED
      BY <2>1
<1>3. Cardinality(T) \in P
  <2> HIDE DEF P
  <2> QED
      BY <1>1, <1>2, SizesInduct, FS_CardinalityType
<1> QED
    BY <1>3

\* Functions that agree on a set have the same sum.
LEMMA SumSame ==
    ASSUME NEW D, NEW F \in [D -> Int], NEW G \in [D -> Int], NEW T \in SUBSET D,
           IsFiniteSet(T), \A x \in T : F[x] = G[x]
    PROVE  SumFunctionOnSet(F, T) = SumFunctionOnSet(G, T)
<1> DEFINE P == {n \in Nat : \A s \in SUBSET T :
                    Cardinality(s) = n => SumFunctionOnSet(F, s) = SumFunctionOnSet(G, s)}
<1>1. 0 \in P
  <2>1. ASSUME NEW s \in SUBSET T, Cardinality(s) = 0 PROVE s = {}
      BY <2>1, FS_Subset, FS_EmptySet
  <2> QED
      BY <2>1, SumEmpty
<1>2. ASSUME NEW n \in Nat, n \in P PROVE n + 1 \in P
  <2>1. ASSUME NEW s \in SUBSET T, Cardinality(s) = n + 1
        PROVE  SumFunctionOnSet(F, s) = SumFunctionOnSet(G, s)
    <3>1. IsFiniteSet(s) /\ s # {}
        BY <2>1, FS_Subset, FS_EmptySet
    <3>2. First(s) \in s
        BY <3>1, FirstOf
    <3>3. s \ {First(s)} \in SUBSET T /\ Cardinality(s \ {First(s)}) = n
      <4>1. /\ Cardinality(s \ {First(s)}) = Cardinality(s) - 1
            /\ s \ {First(s)} \in SUBSET T
          BY <3>2, OneLess
      <4> QED
          BY <2>1, <4>1
    <3>4. SumFunctionOnSet(F, s \ {First(s)}) = SumFunctionOnSet(G, s \ {First(s)})
        BY <1>2, <3>3
    <3>5. /\ SumFunctionOnSet(F, s) = F[First(s)] + SumFunctionOnSet(F, s \ {First(s)})
          /\ SumFunctionOnSet(G, s) = G[First(s)] + SumFunctionOnSet(G, s \ {First(s)})
        BY <3>1, SumFirst
    <3>6. F[First(s)] = G[First(s)]
        BY <3>2
    <3> QED
        BY <3>4, <3>5, <3>6
  <2> QED
      BY <2>1
<1>3. Cardinality(T) \in P
  <2> HIDE DEF P
  <2> QED
      BY <1>1, <1>2, SizesInduct, FS_CardinalityType
<1> QED
    BY <1>3

\* An element that counts for nothing may be left out.
LEMMA SumWithout ==
    ASSUME NEW D, NEW F \in [D -> Int], NEW G \in [D -> Int], NEW T \in SUBSET D,
           IsFiniteSet(T), NEW e \in T, G[e] = 0, \A x \in T \ {e} : F[x] = G[x]
    PROVE  /\ SumFunctionOnSet(G, T) = SumFunctionOnSet(F, T \ {e})
           /\ SumFunctionOnSet(F, T \ {e}) \in Int
<1>1. SumFunctionOnSet(G, T) = G[e] + SumFunctionOnSet(G, T \ {e})
    BY SumAny
<1>2. T \ {e} \in SUBSET D /\ IsFiniteSet(T \ {e})
    BY FS_Subset
<1>3. SumFunctionOnSet(F, T \ {e}) = SumFunctionOnSet(G, T \ {e})
    BY <1>2, SumSame
<1>4. SumFunctionOnSet(F, T \ {e}) \in Int
    BY <1>2, SumType
<1> QED
    BY <1>1, <1>3, <1>4

-----------------------------------------------------------------------------
\* The least host of a set.
LEMMA LeastHost ==
    ASSUME NEW S \in SUBSET Nat, S # {}
    PROVE  Min(S) \in S
<1>1. PICK x \in S : \A y \in S : ~(<<y, x>> \in OpToRel(<, Nat))
    BY NatLessThanWellFounded, WFMin
<1>2. \A y \in S : x <= y
  <2>1. ASSUME NEW y \in S PROVE ~(<<y, x>> \in {pair \in Nat \X Nat : pair[1] < pair[2]})
      BY <1>1 DEF OpToRel
  <2>2. ASSUME NEW y \in S PROVE ~(y < x)
      BY <2>1
  <2> QED
      BY <2>2
<1> QED
    BY <1>2 DEF Min

\* What one host more that is off, or less, changes for the policy.
LEMMA OneHostLess ==
    ASSUME NEW pool \in Seq(HostViews), NEW h \in Shared(pool),
           pool[h].state \in {"up", "draining"},
           NEW fewer \in Seq(HostViews), DOMAIN fewer = DOMAIN pool,
           fewer[h].state = "off", ~fewer[h].reserved,
           \A g \in DOMAIN pool \ {h} : fewer[g] = pool[g]
    PROVE  /\ SpareCapacity(fewer, DOMAIN fewer) = SpareCapacity(pool, DOMAIN pool \ {h})
           /\ AwakeCount(fewer) = AwakeCount(pool) - 1
           /\ AwakeCount(pool) \in Nat
           /\ SpareCapacity(pool, DOMAIN pool \ {h}) \in Int
<1> DEFINE D == DOMAIN pool
           T == Shared(pool)
           F == [g \in D |-> SpareOf(pool[g])]
           G == [g \in D |-> SpareOf(fewer[g])]
           Up == {g \in T : pool[g].state \in AwakeStates \cup {"waking"}}
           Left == {g \in Shared(fewer) : fewer[g].state \in AwakeStates \cup {"waking"}}
<1>1. /\ D \subseteq Nat /\ IsFiniteSet(D)
      /\ \A g \in D : pool[g] \in HostViews
  <2>1. Len(pool) \in Nat /\ D = 1..Len(pool)
      OBVIOUS
  <2> QED
      BY <2>1, FS_Interval
<1>2. /\ \A g \in D : /\ fewer[g] \in HostViews
                      /\ g # h => fewer[g] = pool[g]
                      /\ fewer[g].reserved <=> pool[g].reserved
      /\ h \in D
    BY <1>1 DEF Shared
<1>3. Shared(fewer) = T /\ T \subseteq D /\ IsFiniteSet(T)
    BY <1>1, <1>2, FS_Subset DEF Shared
<1>4. /\ SpareCapacity(fewer, DOMAIN fewer) = SpareCapacity(pool, D \ {h})
      /\ SpareCapacity(pool, D \ {h}) \in Int
  <2>1. ASSUME NEW view \in HostViews PROVE SpareOf(view) \in Int
      BY DEF SpareOf, HostViews
  <2>2. F \in [D -> Int] /\ G \in [D -> Int]
      BY <1>1, <1>2, <2>1
  <2>3. G[h] = 0 /\ \A g \in T \ {h} : F[g] = G[g]
      BY <1>2, <1>3 DEF SpareOf
  <2>4. /\ SpareCapacity(fewer, DOMAIN fewer) = SumFunctionOnSet(G, T)
        /\ SpareCapacity(pool, D \ {h}) = SumFunctionOnSet(F, T \ {h})
    <3>1. D \cap T = T /\ (D \ {h}) \cap T = T \ {h}
        BY <1>3
    <3> QED
        BY <1>2, <1>3, <3>1 DEF SpareCapacity
  <2>5. h \in T /\ T \in SUBSET D /\ IsFiniteSet(T)
      BY <1>3
  <2> HIDE DEF F, G, D, T
  <2>6. /\ SumFunctionOnSet(G, T) = SumFunctionOnSet(F, T \ {h})
        /\ SumFunctionOnSet(F, T \ {h}) \in Int
      BY <2>2, <2>3, <2>5, SumWithout, Zenon
  <2> QED
      BY <2>4, <2>6
<1>5. Cardinality(Left) = Cardinality(Up) - 1 /\ Cardinality(Up) \in Nat
  <2>1. h \in Up /\ Left = Up \ {h}
      BY <1>2, <1>3 DEF AwakeStates
  <2>2. IsFiniteSet(Up)
      BY <1>3, FS_Subset
  <2> HIDE DEF Up, Left
  <2> QED
      BY <2>1, <2>2, FS_RemoveElement, FS_CardinalityType
<1> QED
    BY <1>4, <1>5 DEF AwakeCount

\* The power off planned is of a host that is drained, or can be spared.
LEMMA PlanIsAHost ==
    ASSUME NEW pool \in Seq(HostViews), NEW active \in BOOLEAN,
           NEW h \in PowerOffPlans(pool, active)
    PROVE  /\ h \in Empties(pool)
           /\ pool[h].drain \/ Spared(pool, h, active)
<1> DEFINE drained == {g \in Empties(pool) : pool[g].drain}
<1>1. CASE drained # {}
  <2>1. h = Min(drained)
      BY <1>1 DEF PowerOffPlans
  <2>2. drained \in SUBSET Nat
    <3>1. DOMAIN pool \subseteq Nat
        OBVIOUS
    <3> QED
        BY <3>1 DEF Empties
  <2> HIDE DEF drained
  <2>3. h \in drained
      BY <1>1, <2>1, <2>2, LeastHost
  <2> QED
      BY <2>3 DEF drained
<1>2. CASE drained = {}
    BY <1>2 DEF PowerOffPlans
<1> QED
    BY <1>1, <1>2

\* Whatever the pool: a shared host that is powered off for having been idle
\* leaves nothing lacking, so that no host is woken for it (poweroff_plan,
\* wake_plan: the free slots and the hosts awake are compared with the same
\* limits, without the host and after it).
THEOREM PolicySettles ==
    ASSUME NEW pool \in Seq(HostViews), NEW active \in BOOLEAN,
           NEW h \in PowerOffPlans(pool, active), ~pool[h].drain, ~pool[h].reserved
    PROVE  WakePlan([pool EXCEPT ![h].state = "off"], active) = {}
<1> DEFINE fewer == [pool EXCEPT ![h].state = "off"]
<1>1. h \in Empties(pool)
    BY PlanIsAHost
<1>2. Spared(pool, h, active)
    BY PlanIsAHost
<1>3. h \in Shared(pool) /\ pool[h].state \in {"up", "draining"}
    BY <1>1 DEF Empties, Shared
<1>4. /\ AwakeCount(pool) > Floor(active)
      /\ SpareCapacity(pool, DOMAIN pool \ {h}) >= SpareProjects
    BY <1>2 DEF Spared
<1>5. /\ SpareCapacity(fewer, DOMAIN fewer) = SpareCapacity(pool, DOMAIN pool \ {h})
      /\ AwakeCount(fewer) = AwakeCount(pool) - 1
      /\ AwakeCount(pool) \in Nat
      /\ SpareCapacity(pool, DOMAIN pool \ {h}) \in Int
  <2>1. /\ fewer \in Seq(HostViews) /\ DOMAIN fewer = DOMAIN pool
        /\ fewer[h].state = "off" /\ ~fewer[h].reserved
        /\ \A g \in DOMAIN pool \ {h} : fewer[g] = pool[g]
    <3>1. pool[h] \in HostViews /\ h \in DOMAIN pool
        BY <1>3 DEF Shared
    <3>2. [pool[h] EXCEPT !.state = "off"] \in HostViews
        BY <3>1 DEF HostViews, States
    <3>3. fewer = [pool EXCEPT ![h] = [pool[h] EXCEPT !.state = "off"]]
        OBVIOUS
    <3>4. fewer \in Seq(HostViews)
        BY <3>1, <3>2, <3>3
    <3>5. /\ DOMAIN fewer = DOMAIN pool
          /\ fewer[h] = [pool[h] EXCEPT !.state = "off"]
          /\ \A g \in DOMAIN pool \ {h} : fewer[g] = pool[g]
        BY <3>1, <3>3
    <3>6. fewer[h].state = "off" /\ ~fewer[h].reserved
        BY <3>1, <3>5 DEF HostViews
    <3> QED
        BY <3>4, <3>5, <3>6
  <2> HIDE DEF fewer
  <2> QED
      BY <1>3, <2>1, OneHostLess
<1> HIDE DEF fewer
<1>6. ~Lacking(fewer, active)
    BY <1>4, <1>5, PolicyAssumption DEF Lacking, Floor
<1> QED
    BY <1>6 DEF WakePlan, fewer

\* Whatever the pool: once the shared host that was woken is up, it is not powered
\* off for having been idle while the other hosts are as they were (wake_plan,
\* poweroff_plan: what was lacking without the host is lacking if it goes).
THEOREM WokenIsKept ==
    ASSUME NEW pool \in Seq(HostViews), NEW active \in BOOLEAN,
           NEW h \in WakePlan(pool, active),
           NEW view \in HostViews, view.state = "up", ~view.reserved, ~view.drain
    PROVE  h \notin PowerOffPlans([pool EXCEPT ![h] = view], active)
<1> DEFINE more == [pool EXCEPT ![h] = view]
           Wakeable == {g \in Shared(pool) : /\ pool[g].state = "off"
                                             /\ pool[g].canWake
                                             /\ ~pool[g].held
                                             /\ ~pool[g].restarting}
<1>1. Lacking(pool, active) /\ h = Min(Wakeable) /\ Wakeable # {}
    BY DEF WakePlan
<1>2. h \in Shared(pool) /\ pool[h].state = "off"
  <2>1. DOMAIN pool \subseteq Nat
      OBVIOUS
  <2>2. Wakeable \in SUBSET Nat
      BY <2>1 DEF Shared
  <2>3. Min(Wakeable) \in Wakeable
    <3> HIDE DEF Wakeable
    <3> QED
        BY <1>1, <2>2, LeastHost
  <2> QED
      BY <1>1, <2>3
<1>3. /\ more \in Seq(HostViews) /\ DOMAIN more = DOMAIN pool
      /\ more[h] = view
      /\ \A g \in DOMAIN more \ {h} : pool[g] = more[g]
      /\ h \in Shared(more)
    BY <1>2 DEF Shared
<1> HIDE DEF more
<1>4. /\ SpareCapacity(pool, DOMAIN pool) = SpareCapacity(more, DOMAIN more \ {h})
      /\ AwakeCount(pool) = AwakeCount(more) - 1
      /\ AwakeCount(more) \in Nat
      /\ SpareCapacity(more, DOMAIN more \ {h}) \in Int
  <2>1. pool[h].state = "off" /\ ~pool[h].reserved /\ more[h].state = "up"
      BY <1>2, <1>3 DEF Shared
  <2> QED
      BY <1>3, <2>1, OneHostLess
<1>5. ~Spared(more, h, active)
    BY <1>1, <1>3, <1>4, PolicyAssumption DEF Lacking, Spared, Floor
<1>6. ~more[h].drain
    BY <1>3
<1>7. h \notin PowerOffPlans(more, active)
    BY <1>3, <1>5, <1>6, PlanIsAHost
<1> QED
    BY <1>7 DEF more

-----------------------------------------------------------------------------
LEMMA ViewsTyped ==
    ASSUME TypeOK
    PROVE  /\ Views \in Seq(HostViews)
           /\ \A h \in DOMAIN Views : ~Views[h].reserved
<1>1. HostState \in States
    BY DEF HostState, States
<1>2. ThisView \in HostViews
  <2>1. /\ MaxProjects \in Nat /\ projects \in Nat
        /\ held \in BOOLEAN /\ drain \in BOOLEAN
      BY PlacementAssumption DEF TypeOK, PortalTypeOK
  <2>2. /\ (projects = 0) \in BOOLEAN /\ (offSent = "recent") \in BOOLEAN
        /\ (restartSent # "no") \in BOOLEAN
      BY Zenon
  <2> QED
      BY <1>1, <2>1, <2>2 DEF ThisView, HostViews
<1>3. OtherView \in HostViews
    BY <1>2, PlacementAssumption DEF OtherView, HostViews, States
<1>4. ~ThisView.reserved /\ ~OtherView.reserved
    BY DEF ThisView, OtherView
<1> QED
    BY <1>2, <1>3, <1>4 DEF Views

\* The pool of the host and of the rest never flaps.
THEOREM NoFlappingCorrect == Spec => []NoFlapping
<1>1. TypeOK => NoFlapping
  <2> SUFFICES ASSUME TypeOK, NEW active \in BOOLEAN,
                      NEW h \in PowerOffPlans(Views, active), ~Views[h].drain
               PROVE  WakePlan([Views EXCEPT ![h].state = "off"], active) = {}
      BY DEF NoFlapping
  <2>1. Views \in Seq(HostViews) /\ \A g \in DOMAIN Views : ~Views[g].reserved
      BY ViewsTyped
  <2>2. h \in DOMAIN Views
      BY <2>1, PlanIsAHost DEF Empties
  <2> QED
      BY <2>1, <2>2, PolicySettles
<1> QED
    BY <1>1, PlacementTyped, PTL

=============================================================================
