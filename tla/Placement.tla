------------------------------ MODULE Placement ------------------------------
(***************************************************************************)
(* The portal and one host of its pool: the placement of the starts and    *)
(* their reservations, the polls of the status, the drain, the power off,  *)
(* the wake and the restart of the host (src/sreweb/portal: pool.py,       *)
(* manager.py, the route api_projects_create), composed with AgentHost.    *)
(*                                                                         *)
(* The other hosts of the pool are one view that is always up.             *)
(***************************************************************************)
EXTENDS AgentHost, PoolPolicy, Sequences

CONSTANTS
    MaxProjects,     \* max_projects of the host
    OthersRoom,      \* the free slots of the rest of the pool
    MaxEvents        \* bound: the starts, drains, restarts, halts and lost polls of a behaviour

ASSUME PlacementAssumption ==
    MaxProjects \in Nat \ {0} /\ OthersRoom \in Nat /\ MaxEvents \in Nat

VARIABLES
    claim,       \* Pool._reservations: of each start, none, open or released, before or
                 \* after the poll under way was sent
    projects,    \* HostStatus.projects, the reservations counted
    reachable,   \* HostStatus.reachable
    occupied,    \* HostStatus.occupied
    poll,        \* the status request under way: idle, sent, early, served
    answer,      \* what the agent answered to it
    drain,       \* HostRuntime.drain
    offSent,     \* HostRuntime.power_off_sent: no, recent, old
    restartSent, \* HostRuntime.restart_sent: no, recent, old
    woken,       \* HostRuntime.woken_at: no, recent, old
    held,        \* now < HostRuntime.next_wake_at
    call,        \* the request of the manager under way
    events       \* what people asked for and the polls lost so far

statusVars == <<projects, reachable, occupied>>
runtimeVars == <<drain, offSent, restartSent, woken, held>>
pollVars == <<poll, answer>>
callVars == <<call, events>>
portalVars == <<claim, statusVars, pollVars, runtimeVars, callVars>>
vars == <<agentVars, portalVars>>

Ages == {"no", "recent", "old"}
NoAnswer == [projects |-> 0, occupied |-> FALSE, young |-> FALSE, refusing |-> FALSE]

\* A wake, a power off not served yet, one served, a restart served.
Calls == {"none", "wake", "off", "offDone", "restartDone"}

-----------------------------------------------------------------------------
\* Something that happens a bounded number of times.
Event ==
    /\ events < MaxEvents
    /\ events' = events + 1

\* Pool.state_of; the host is enabled and no exam is given on it.
HostState ==
    IF ~reachable THEN IF woken = "recent" THEN "waking" ELSE "off"
    ELSE IF occupied THEN "occupied"
    ELSE IF drain THEN "draining" ELSE "up"

ThisView ==
    [state |-> HostState, projects |-> projects, max |-> MaxProjects, canWake |-> TRUE,
     power |-> TRUE, held |-> held, idle |-> projects = 0, drain |-> drain,
     pending |-> offSent = "recent", restarting |-> restartSent # "no", reserved |-> FALSE]

OtherView ==
    [ThisView EXCEPT !.state = "up", !.projects = 0, !.max = OthersRoom,
                     !.power = FALSE, !.drain = FALSE, !.restarting = FALSE]

\* PoolManager.views
Views == <<ThisView, OtherView>>

-----------------------------------------------------------------------------
\* Placement.

\* Pool.pick: the host is up, no restart is pending on its agent and it has room.
MayPlace == HostState = "up" /\ restartSent = "no" /\ projects < MaxProjects

\* Pool._reserve, and the request of the relay.
Pick(s) ==
    /\ Event
    /\ at[s] = "none"
    /\ \A t \in 1..(s - 1) : at[t] # "none"
    /\ MayPlace
    /\ claim' = [claim EXCEPT ![s] = "open"]
    /\ projects' = projects + 1
    /\ at' = [at EXCEPT ![s] = "sent"]
    /\ UNCHANGED <<host, listed, managed, refusing, going, young, reachable, occupied,
                   pollVars, runtimeVars, call>>

\* Seeded fault: the instant of the release is not kept.
ReleasedAtOnce(s) == claim' = [claim EXCEPT ![s] = "released"]

\* Pool.release: the instant is kept, to compare it with the one of a poll.
Released(s) ==
    claim' = [claim EXCEPT ![s] = IF poll = "idle" THEN "released" ELSE "late"]

\* The relay ends with the start.
Release(s) ==
    /\ claim[s] = "open"
    /\ at[s] = "over"
    /\ Released(s)
    /\ UNCHANGED <<agentVars, statusVars, pollVars, runtimeVars, callVars>>

\* The relay cannot write an event to a browser that left; nor can the agent
\* write the next one to the relay.
BrowserLeaves(s) ==
    /\ claim[s] = "open"
    /\ WriteFails(s)
    /\ Released(s)
    /\ UNCHANGED <<statusVars, pollVars, runtimeVars, callVars>>

-----------------------------------------------------------------------------
\* Pool.refresh_host.

PollSent ==
    /\ poll = "idle"
    /\ poll' = "sent"
    /\ UNCHANGED <<agentVars, answer, claim, statusVars, runtimeVars, callVars>>

\* What is said of the restart matters while the portal waits for one; a poll
\* sent before that one is too early to show it.
PollServed ==
    /\ poll \in {"sent", "early"}
    /\ host = "on"
    /\ poll' = "served"
    /\ answer' = [projects |-> Cardinality(listed), occupied |-> Occupied,
                  young |-> young /\ restartSent # "no" /\ poll = "sent",
                  refusing |-> refusing /\ restartSent # "no"]
    /\ UNCHANGED <<agentVars, claim, statusVars, runtimeVars, callVars>>

\* Pool._consume: the reservations released before the poll was sent are forgotten.
Consumed ==
    [s \in Starts |-> IF claim[s] = "released" THEN "none"
                      ELSE IF claim[s] = "late" THEN "released" ELSE claim[s]]

\* The reservations still counted.
Counted(claims) == Cardinality({s \in Starts : claims[s] # "none"})

\* Without an answer nothing is consumed; the next poll is sent after them all.
Kept == [s \in Starts |-> IF claim[s] = "late" THEN "released" ELSE claim[s]]

\* Seeded fault: a restart is over only when it is seen.
RestartSeenOnly(up) == up /\ answer.young

\* Pool._track_restart: the agent is younger than the request, or nothing was
\* seen for restart_hold and the agent does not say that it waits.
RestartTracked(up) ==
    \/ up /\ answer.young
    \/ restartSent = "old" /\ ~(up /\ answer.refusing)

PollReceived ==
    \E up \in BOOLEAN :
        LET back == up /\ ~reachable IN
        /\ poll # "idle"
        /\ up => poll = "served"
        /\ IF up \/ host # "on" THEN UNCHANGED events ELSE Event
        /\ claim' = IF up THEN Consumed ELSE Kept
        /\ projects' = IF up THEN answer.projects + Counted(Consumed) ELSE 0
        /\ reachable' = up
        /\ occupied' = (up /\ answer.occupied)
        /\ IF restartSent # "no"
           THEN /\ restartSent' = IF RestartTracked(up) THEN "no" ELSE restartSent
                /\ UNCHANGED <<drain, offSent>>
           ELSE /\ drain' = (drain /\ ~back /\ (up \/ offSent = "no"))
                /\ offSent' = IF back \/ ~up THEN "no" ELSE offSent
                /\ UNCHANGED restartSent
        /\ woken' = IF up THEN "no" ELSE woken
        /\ held' = (held /\ ~(up /\ woken # "no") /\ ~(back /\ restartSent = "no"))
        /\ poll' = "idle"
        /\ answer' = NoAnswer
        /\ young' = (young \/ restartSent' = "no")
        /\ UNCHANGED <<host, at, listed, managed, refusing, going, call>>

-----------------------------------------------------------------------------
\* PoolManager.tick: the plans are made on the same views, then carried out;
\* the power off comes after the await of the wake.

\* _expire_wakes
WakesExpire ==
    IF woken = "old" /\ ~reachable
    THEN woken' = "no" /\ held' = TRUE
    ELSE UNCHANGED <<woken, held>>

\* The interval between two wakes and the time a host must have been idle may
\* hold a plan back.
Tick(active) ==
    /\ call = "none"
    /\ \/ call' = "none"
       \/ call' = "wake" /\ 1 \in WakePlan(Views, active)
       \/ call' = "off" /\ 1 \in PowerOffPlans(Views, active)
    /\ WakesExpire
    /\ UNCHANGED <<agentVars, events, claim, statusVars, pollVars, drain, offSent, restartSent>>

\* PoolManager.wake, of a tick or of an administrator: woken_at is set after
\* the await; a wake command that fails counts as a wake that failed.
WakeDone ==
    /\ call = "wake"
    /\ call' = "none"
    /\ \/ woken' = "recent" /\ UNCHANGED held
       \/ woken' = "no" /\ held' = TRUE
    /\ UNCHANGED <<agentVars, events, claim, statusVars, pollVars, drain, offSent, restartSent>>

\* The answer of the agent to a request of the manager comes, or is lost.
Answered(done) ==
    \/ call' = done /\ UNCHANGED events
    \/ call' = "none" /\ Event

\* PoolManager.power_off looked at the reachability only; Agent.power_off answers.
PowerOffServed ==
    /\ call = "off"
    /\ \/ /\ host = "on" /\ MayPowerOff
          /\ going' = TRUE
          /\ Answered("offDone")
       \/ /\ ~(reachable /\ host = "on" /\ MayPowerOff)
          /\ call' = "none"
          /\ UNCHANGED <<going, events>>
    /\ UNCHANGED <<host, at, listed, managed, refusing, young, claim, statusVars, pollVars,
                   runtimeVars>>

PowerOffDone ==
    /\ call = "offDone"
    /\ call' = "none"
    /\ drain' = TRUE
    /\ offSent' = "recent"
    /\ held' = TRUE
    /\ UNCHANGED <<agentVars, events, claim, statusVars, pollVars, restartSent, woken>>

\* PoolManager.restart of an administrator, and the answer of Agent.restart.
RestartServed ==
    /\ Event
    /\ call = "none"
    /\ reachable
    /\ restartSent = "no"
    /\ host = "on"
    /\ refusing' = TRUE
    /\ call' \in {"restartDone", "none"}
    /\ UNCHANGED <<host, at, listed, managed, going, young, claim, statusVars, pollVars,
                   runtimeVars>>

RestartDone ==
    /\ call = "restartDone"
    /\ call' = "none"
    /\ restartSent' = "recent"
    /\ young' = FALSE
    /\ poll' = IF poll = "sent" THEN "early" ELSE poll
    /\ UNCHANGED <<host, at, listed, managed, refusing, going, claim, statusVars, answer,
                   drain, offSent, woken, held, events>>

\* The wake and the power off of an administrator, whatever the policy says.
ManagerAsked ==
    /\ Event
    /\ call = "none"
    /\ \/ call' = "wake"
       \/ call' = "off" /\ reachable
    /\ UNCHANGED <<agentVars, claim, statusVars, pollVars, runtimeVars>>

DrainAsked ==
    /\ Event
    /\ ~drain
    /\ drain' = TRUE
    /\ UNCHANGED <<agentVars, claim, statusVars, pollVars, offSent, restartSent, woken,
                   held, call>>

\* The machine is halted, by its cron or by somebody.
Halted ==
    /\ Event
    /\ HaltedByHand
    /\ UNCHANGED <<claim, statusVars, pollVars, runtimeVars, call>>

-----------------------------------------------------------------------------
\* Time and the rest of the pool.

WakeTimesOut ==
    /\ woken = "recent"
    /\ woken' = "old"
    /\ UNCHANGED <<agentVars, claim, statusVars, pollVars, drain, offSent, restartSent,
                   held, callVars>>

PowerOffTimesOut ==
    /\ offSent = "recent"
    /\ offSent' = "old"
    /\ UNCHANGED <<agentVars, claim, statusVars, pollVars, drain, restartSent, woken,
                   held, callVars>>

\* Compared with the instant a poll is sent.
RestartTimesOut ==
    /\ restartSent = "recent"
    /\ poll = "idle"
    /\ restartSent' = "old"
    /\ UNCHANGED <<agentVars, claim, statusVars, pollVars, drain, offSent, woken, held, callVars>>

HoldElapses ==
    /\ held
    /\ held' = FALSE
    /\ UNCHANGED <<agentVars, claim, statusVars, pollVars, drain, offSent, restartSent,
                   woken, callVars>>

\* A machine boots in more time than the portal takes to see it off.
MachineBoots ==
    /\ ~reachable
    /\ Boots

\* The magic packet of the last wake reached the machine.
WakeBoots == woken # "no" /\ MachineBoots

-----------------------------------------------------------------------------
\* The portal has just polled the host.
Init ==
    /\ AgentInit
    /\ claim = [s \in Starts |-> "none"]
    /\ projects = 0
    /\ reachable = (host = "on")
    /\ occupied = FALSE
    /\ poll = "idle"
    /\ answer = NoAnswer
    /\ drain = FALSE
    /\ offSent = "no"
    /\ restartSent = "no"
    /\ woken = "no"
    /\ held = FALSE
    /\ call = "none"
    /\ events = 0

People ==
    \/ \E s \in Starts : Pick(s)
    \/ ManagerAsked \/ DrainAsked \/ RestartServed \/ Halted

HostStep ==
    /\ \/ \E s \in Starts : AgentStep(s) \/ SreListed(s) \/ ProjectCloses(s)
       \/ RestartRuns \/ RestartFails \/ AgentBack
       \/ PowerOffRuns \/ PowerOffFails \/ MachineBoots
    /\ UNCHANGED portalVars

PollStep == PollSent \/ PollServed \/ PollReceived

CallStep == WakeDone \/ PowerOffServed \/ PowerOffDone \/ RestartDone

Elapses == WakeTimesOut \/ PowerOffTimesOut \/ RestartTimesOut \/ HoldElapses

PortalStep ==
    \/ \E s \in Starts : Release(s) \/ BrowserLeaves(s)
    \/ PollStep
    \/ \E active \in BOOLEAN : Tick(active)
    \/ CallStep
    \/ Elapses

Next == People \/ HostStep \/ PortalStep

Spec == Init /\ [][Next]_vars

-----------------------------------------------------------------------------
PortalTypeOK ==
    /\ claim \in [Starts -> {"none", "open", "late", "released"}]
    /\ projects \in Nat
    /\ reachable \in BOOLEAN /\ occupied \in BOOLEAN
    /\ drain \in BOOLEAN /\ held \in BOOLEAN
    /\ poll \in {"idle", "sent", "early", "served"}
    /\ answer \in [projects : Nat, occupied : BOOLEAN, young : BOOLEAN, refusing : BOOLEAN]
    /\ offSent \in Ages /\ restartSent \in Ages /\ woken \in Ages
    /\ call \in Calls
    /\ events \in 0..MaxEvents

TypeOK == AgentTypeOK /\ PortalTypeOK

\* The host never has more starts under way and projects managed by its agent
\* than max_projects, whatever polls and starts cross each other (pick: "always
\* below their maximum"; the instant of a release in Pool._consume).
CapacityHolds == Cardinality({s \in Starts : claim[s] = "open" \/ s \in managed}) <= MaxProjects

\* The policy never powers off an idle host it would wake again at once: what it
\* spares in poweroff_plan is what it does not lack in wake_plan.
NoFlapping ==
    \A active \in BOOLEAN : \A h \in PowerOffPlans(Views, active) :
        ~Views[h].drain => WakePlan([Views EXCEPT ![h].state = "off"], active) = {}

-----------------------------------------------------------------------------
\* Fairness: the loops of the portal run, the timers fire, sre ends, the agent
\* closes what is idle and comes back from a restart, the active hours come
\* again, a wake command works in the end, a machine woken again and again
\* boots and one powered off again and again stops.  Nothing is assumed of the
\* users, the administrators or who halts the machine.
Fairness ==
    /\ WF_vars(PollStep)
    /\ WF_vars(CallStep)
    /\ SF_vars(RestartTimesOut)
    /\ WF_vars(Elapses)
    /\ WF_vars(\E active \in BOOLEAN : Tick(active))
    /\ SF_vars(Tick(TRUE) /\ call' # "none")
    /\ SF_vars(WakeDone /\ woken' = "recent")
    /\ WF_vars((\E s \in Starts : Release(s)))
    /\ WF_vars((\E s \in Starts : AgentStep(s)) /\ UNCHANGED portalVars)
    /\ WF_vars((\E s \in managed : ProjectCloses(s)) /\ UNCHANGED portalVars)
    /\ WF_vars((RestartRuns \/ RestartFails \/ AgentBack) /\ UNCHANGED portalVars)
    /\ SF_vars(PowerOffRuns /\ UNCHANGED portalVars)
    /\ SF_vars(WakeBoots /\ UNCHANGED portalVars)

FairSpec == Spec /\ Fairness

\* The host takes starts again and again: no drain, no pending restart, no power
\* off, no reservation nobody consumes and no wake that failed keeps it from the
\* placement for ever, unless a project that is not managed is never closed.
PlacesAgain == <>[]~Occupied => []<>MayPlace
=============================================================================
