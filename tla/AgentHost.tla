------------------------------ MODULE AgentHost ------------------------------
(***************************************************************************)
(* One host of the pool: the machine, its agent and the projects started   *)
(* on it.  A start goes through the handler projects_create, the limits of *)
(* the runner, sre start and the adoption of the project, while the tick   *)
(* of the registry may list the project before it is adopted, the browser  *)
(* may leave, the agent restart and the machine go down                    *)
(* (src/sreweb/agent: app.py, runner.py, registry.py, occupancy.py).       *)
(***************************************************************************)
EXTENDS Naturals, FiniteSets

CONSTANTS
    NStarts,        \* bound: the starts asked for in a behaviour
    MaxStarts       \* max_concurrent_starts

ASSUME AgentAssumption == NStarts \in Nat /\ MaxStarts \in Nat \ {0}

Starts == 1..NStarts

VARIABLES
    host,       \* on: the agent answers; restarting: it is stopped; off: so is the machine
    at,         \* where each start is
    listed,     \* the starts whose project the registry lists
    managed,    \* those it manages
    refusing,   \* Agent.restarting: a restart is pending
    going,      \* a power off was accepted, its command has not run yet
    young       \* the agent started after the restart the portal waits for

agentVars == <<host, at, listed, managed, refusing, going, young>>

\* none, sent by the portal, waiting for the labs and the limits, sre runs and
\* its events are relayed, sre runs on alone, over.
Places == {"none", "sent", "queued", "running", "stray", "over"}

Running == {s \in Starts : at[s] = "running"}

\* A project the agent did not start, or not to the end: the status of the
\* host says occupied.
Occupied == listed \ managed # {}

AgentTypeOK ==
    /\ host \in {"on", "restarting", "off"}
    /\ at \in [Starts -> Places]
    /\ listed \subseteq Starts
    /\ managed \subseteq listed
    /\ refusing \in BOOLEAN /\ going \in BOOLEAN /\ young \in BOOLEAN

AgentInit ==
    /\ host \in {"on", "off"}
    /\ at = [s \in Starts |-> "none"]
    /\ listed = {}
    /\ managed = {}
    /\ refusing = FALSE
    /\ going = FALSE
    /\ young = TRUE

-----------------------------------------------------------------------------
\* projects_create: the check of the restart, before the awaits of the labs and
\* of the limits; the start may be refused, its browser have left.
CreateArrives(s) ==
    /\ at[s] = "sent"
    /\ \E next \in {"queued", "over"} :
          /\ next = "queued" => host = "on" /\ ~refusing
          /\ at' = [at EXCEPT ![s] = next]
    /\ UNCHANGED <<host, listed, managed, refusing, going, young>>

\* SreRunner._acquire, then the process.
SreStarts(s) ==
    /\ at[s] = "queued"
    /\ Cardinality(Running) < MaxStarts
    /\ at' = [at EXCEPT ![s] = "running"]
    /\ UNCHANGED <<host, listed, managed, refusing, going, young>>

\* The tick finds the directory while sre start goes on: not managed.
SreListed(s) ==
    /\ host = "on"
    /\ at[s] \in {"running", "stray"}
    /\ s \notin listed
    /\ listed' = listed \cup {s}
    /\ UNCHANGED <<host, at, managed, refusing, going, young>>

\* Registry.adopt, then the result line.
SreEnds(s) ==
    /\ at[s] = "running"
    /\ at' = [at EXCEPT ![s] = "over"]
    /\ listed' = listed \cup {s}
    /\ managed' = managed \cup {s}
    /\ UNCHANGED <<host, refusing, going, young>>

\* The start failed or ran out of time: rolled back.
SreFails(s) ==
    /\ at[s] \in {"running", "stray"}
    /\ at' = [at EXCEPT ![s] = "over"]
    /\ listed' = listed \ {s}
    /\ UNCHANGED <<host, managed, refusing, going, young>>

\* An event cannot be written, the browser of the start left: the generator is
\* closed, its limits are released and sre goes on alone.
WriteFails(s) ==
    /\ at[s] = "running"
    /\ at' = [at EXCEPT ![s] = "stray"]
    /\ UNCHANGED <<host, listed, managed, refusing, going, young>>

\* Nobody adopts the project.
StrayEnds(s) ==
    /\ at[s] = "stray"
    /\ at' = [at EXCEPT ![s] = "over"]
    /\ listed' = listed \cup {s}
    /\ UNCHANGED <<host, managed, refusing, going, young>>

\* Seeded fault: the registry forgets the directory, not that it managed it.
ProjectVanishes(s) ==
    /\ host = "on"
    /\ at[s] = "over"
    /\ s \in listed
    /\ listed' = listed \ {s}
    /\ UNCHANGED <<host, at, managed, refusing, going, young>>

\* The owner, an instructor or the idle reaper closes the project; of one that
\* is not managed, its owner.
ProjectCloses(s) ==
    /\ host = "on"
    /\ at[s] = "over"
    /\ s \in listed
    /\ listed' = listed \ {s}
    /\ managed' = managed \ {s}
    /\ UNCHANGED <<host, at, refusing, going, young>>

-----------------------------------------------------------------------------
\* The agent and the machine stop.

\* What was under way on the agent is lost.
Cut == at' = [s \in Starts |-> IF at[s] \in {"none", "sent"} THEN at[s] ELSE "over"]

\* _run_restart: once no sre command runs; a directory sre start left behind
\* is listed by the next agent.
RestartRuns ==
    /\ refusing
    /\ host = "on"
    /\ Running = {}
    /\ host' = "restarting"
    /\ Cut
    /\ \E behind \in SUBSET {s \in Starts : at[s] = "stray"} :
          listed' = (listed \ {s \in Starts : at[s] = "stray"}) \cup behind
    /\ going' = FALSE
    /\ UNCHANGED <<managed, refusing, young>>

RestartFails ==
    /\ refusing
    /\ host = "on"
    /\ Running = {}
    /\ refusing' = FALSE
    /\ UNCHANGED <<host, at, listed, managed, going, young>>

AgentBack ==
    /\ host = "restarting"
    /\ host' = "on"
    /\ refusing' = FALSE
    /\ young' = TRUE
    /\ UNCHANGED <<at, listed, managed, going>>

\* The machine stops: the nightly cron, somebody, or the command of a power off.
\* The agent closes the projects it manages if it can; the directories of the
\* others, and what sre was making, are listed after the next boot.
GoesOff ==
    /\ host' = "off"
    /\ Cut
    /\ \E behind \in SUBSET (listed \cup {s \in Starts : at[s] \in {"running", "stray"}}) :
          /\ listed' = behind
          /\ managed' = managed \cap behind
    /\ refusing' = FALSE
    /\ going' = FALSE
    /\ UNCHANGED young

HaltedByHand == host = "on" /\ GoesOff

PowerOffRuns == going /\ host = "on" /\ GoesOff

PowerOffFails ==
    /\ going
    /\ host = "on"
    /\ going' = FALSE
    /\ UNCHANGED <<host, at, listed, managed, refusing, young>>

Boots ==
    /\ host = "off"
    /\ host' = "on"
    /\ young' = TRUE
    /\ UNCHANGED <<at, listed, managed, refusing, going>>

-----------------------------------------------------------------------------
\* power_off: refused while the host is occupied or has a project.
MayPowerOff == ~Occupied /\ listed = {}

\* A start in the hands of the agent ends.
AgentStep(s) ==
    CreateArrives(s) \/ SreStarts(s) \/ SreEnds(s) \/ SreFails(s)
        \/ StrayEnds(s)
=============================================================================
