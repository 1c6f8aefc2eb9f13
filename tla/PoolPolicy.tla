----------------------------- MODULE PoolPolicy -----------------------------
(***************************************************************************)
(* The policy of the elastic pool (src/sreweb/portal/manager.py): which    *)
(* host to wake and which to power off, from what the portal knows of each *)
(* host.  A pool is a sequence of views in configuration order; of the     *)
(* instants of a view only what the policy compares them with is kept.     *)
(***************************************************************************)
EXTENDS Naturals, FiniteSets, FiniteSetsExt, Functions

CONSTANTS
    SpareProjects,   \* spare_projects: the free slots wanted on the shared hosts up
    MinHostsUp       \* min_hosts_up: the hosts kept awake during the active hours

ASSUME PolicyAssumption == SpareProjects \in Nat /\ MinHostsUp \in Nat

States == {"off", "waking", "up", "occupied", "exam", "draining", "disabled"}
AwakeStates == {"up", "occupied", "exam", "draining"}

\* HostView: held for "now < next_wake_at", idle for "idle_for reached idle_host_timeout".
HostViews ==
    [state: States, projects: Nat, max: Nat, canWake: BOOLEAN, power: BOOLEAN, held: BOOLEAN,
     idle: BOOLEAN, drain: BOOLEAN, pending: BOOLEAN, restarting: BOOLEAN, reserved: BOOLEAN]

Shared(pool) == {h \in DOMAIN pool : ~pool[h].reserved}

AwakeCount(pool) ==
    Cardinality({h \in Shared(pool) : pool[h].state \in AwakeStates \cup {"waking"}})

\* The free slots of the hosts up, plus the whole capacity of those waking.
SpareOf(view) ==
    CASE view.state = "up" -> view.max - view.projects
      [] view.state = "waking" -> view.max
      [] OTHER -> 0

SpareCapacity(pool, hosts) ==
    SumFunctionOnSet([h \in DOMAIN pool |-> SpareOf(pool[h])], hosts \cap Shared(pool))

Lacking(pool, active) ==
    \/ SpareCapacity(pool, DOMAIN pool) < SpareProjects
    \/ active /\ AwakeCount(pool) < MinHostsUp

\* wake_plan: the first sleeping host that may be woken, when something is lacking.
WakePlan(pool, active) ==
    LET Wakeable == {h \in Shared(pool) : /\ pool[h].state = "off"
                                         /\ pool[h].canWake
                                         /\ ~pool[h].held
                                         /\ ~pool[h].restarting}
    IN  IF Lacking(pool, active) /\ Wakeable # {} THEN {Min(Wakeable)} ELSE {}

Empties(pool) ==
    {h \in DOMAIN pool : /\ pool[h].state \in {"up", "draining"}
                         /\ pool[h].projects = 0
                         /\ pool[h].power
                         /\ ~pool[h].pending
                         /\ ~pool[h].restarting}

Floor(active) == IF active THEN MinHostsUp ELSE 0

\* Seeded fault: the floor is compared with the hosts awake, this one included.
SparedAtFloor(pool, h, active) ==
    \/ pool[h].reserved
    \/ /\ AwakeCount(pool) >= Floor(active)
       /\ SpareCapacity(pool, DOMAIN pool \ {h}) >= SpareProjects

\* A host the floor and the spare capacity of the others can do without.
Spared(pool, h, active) ==
    \/ pool[h].reserved
    \/ /\ AwakeCount(pool) > Floor(active)
       /\ SpareCapacity(pool, DOMAIN pool \ {h}) >= SpareProjects

\* poweroff_plan: the first host drained and empty; else one that has been idle
\* long enough and can be spared.  The idle times say which one, any of them here.
PowerOffPlans(pool, active) ==
    LET drained == {h \in Empties(pool) : pool[h].drain}
    IN  IF drained # {} THEN {Min(drained)}
        ELSE {h \in Empties(pool) : pool[h].idle /\ Spared(pool, h, active)}
=============================================================================
