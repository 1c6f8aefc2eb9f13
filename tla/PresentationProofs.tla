------------------------- MODULE PresentationProofs -------------------------
(***************************************************************************)
(* Which presentation a student is shown, for any students, requests and   *)
(* bounds.                                                                 *)
(*                                                                         *)
(* The argument is about one student at a time, whom no two requests       *)
(* crossed about: a request that waits for their sockets found what is     *)
(* still true (WaitInv), so that the student is told of their newest       *)
(* presentation once no request is about them (RestInv), and their page    *)
(* follows (AbsentInv, PageInv, CoverInv).                                 *)
(***************************************************************************)
EXTENDS Presentation, WellFoundedInduction, TLAPS

-----------------------------------------------------------------------------
\* The newest presentation.

LEMMA LeastExists ==
    ASSUME NEW T, T \subseteq Nat, T # {}
    PROVE  \E x \in T : \A y \in T : x <= y
<1> DEFINE R == OpToRel(<, Nat)
<1>1. IsWellFoundedOn(R, Nat)
    BY NatLessThanWellFounded
<1>2. \E x \in T : \A y \in T : ~(<<y, x>> \in R)
    <2> HIDE DEF R
    <2> QED
        BY <1>1, WFMin
<1>3. PICK x \in T : \A y \in T : ~(<<y, x>> \in R)
    BY <1>2
<1>4. ASSUME NEW y \in T PROVE x <= y
    <2>1. ~(<<y, x>> \in {pair \in Nat \X Nat : pair[1] < pair[2]})
        BY <1>3, <1>4 DEF OpToRel
    <2> QED
        BY <2>1
<1> QED
    BY <1>4

LEMMA GreatestExists ==
    ASSUME NEW b \in Nat, NEW T, T \subseteq 0..b, T # {}
    PROVE  \E x \in T : \A y \in T : y <= x
<1> DEFINE Above == {n \in Nat : \A y \in T : y <= n}
<1>1. Above \subseteq Nat /\ b \in Above
    OBVIOUS
<1>2. PICK m \in Above : \A n \in Above : m <= n
    <2> HIDE DEF Above
    <2> QED
        BY <1>1, LeastExists
<1>3. m \in T
    <2>1. SUFFICES ASSUME m \notin T PROVE FALSE
        OBVIOUS
    <2>2. \A y \in T : y <= m - 1
        BY <1>2, <2>1
    <2>3. PICK y \in T : TRUE
        OBVIOUS
    <2>4. y \in Nat /\ y <= m - 1 /\ m \in Nat
        BY <2>2, <2>3
    <2>5. m - 1 \in Above
        BY <2>2, <2>4
    <2>6. m <= m - 1
        BY <2>5, <1>2
    <2> QED
        BY <2>4, <2>6
<1> QED
    BY <1>2, <1>3

LEMMA Bounds ==
    MaxShows \in Nat /\ MaxChanges \in Nat
BY PresentationAssumption

Candidates(s) == {p \in running : s \in present \cap audience[p]}

\* What NewestOf finds among these presentations.
IsNewest(n, shows) ==
    /\ n = 0 \/ n \in shows
    /\ \A p \in shows : p <= n

LEMMA NewestAmong ==
    ASSUME NEW b \in Nat, NEW T, T \subseteq 1..b
    PROVE  LET all == {0} \cup T
               n == CHOOSE p \in all : \A q \in all : q <= p
           IN  n \in 0..b /\ IsNewest(n, T)
<1> DEFINE all == {0} \cup T
           n == CHOOSE p \in all : \A q \in all : q <= p
<1>1. all \subseteq 0..b /\ all # {}
    OBVIOUS
<1>2. \E p \in all : \A q \in all : q <= p
    <2> HIDE DEF all
    <2> QED
        BY <1>1, GreatestExists
<1>3. n \in all /\ \A q \in all : q <= n
    <2> HIDE DEF all
    <2> QED
        BY <1>2
<1> HIDE DEF n
<1>4. n \in 0..b /\ IsNewest(n, T)
    BY <1>1, <1>3 DEF IsNewest
<1> QED
    BY <1>4 DEF n

RegistryOK ==
    /\ begun \in 0..MaxShows
    /\ running \subseteq 1..begun
    /\ audience \in [Shows -> SUBSET Students]
    /\ present \subseteq Students

LEMMA Newest ==
    ASSUME NEW s \in Students
    PROVE  /\ RegistryOK => NewestOf(s) \in 0..begun /\ IsNewest(NewestOf(s), Candidates(s))
           /\ RegistryOK' => NewestOf(s)' \in 0..begun' /\ IsNewest(NewestOf(s)', Candidates(s)')
<1>1. ASSUME RegistryOK
      PROVE  NewestOf(s) \in 0..begun /\ IsNewest(NewestOf(s), Candidates(s))
    <2>a. begun \in Nat
        BY <1>1, Bounds DEF RegistryOK
    <2>b. running \subseteq 1..begun
        BY <1>1 DEF RegistryOK
    <2>c. Candidates(s) \subseteq running
        BY DEF Candidates
    <2>1. begun \in Nat /\ Candidates(s) \subseteq 1..begun
        BY <2>a, <2>b, <2>c
    <2>2. NewestOf(s) = CHOOSE p \in {0} \cup Candidates(s) :
                            \A q \in {0} \cup Candidates(s) : q <= p
        BY DEF NewestOf, Candidates
    <2> QED
        BY <2>1, <2>2, NewestAmong
<1>2. ASSUME RegistryOK'
      PROVE  NewestOf(s)' \in 0..begun' /\ IsNewest(NewestOf(s)', Candidates(s)')
    <2>a. begun' \in Nat
        BY <1>2, Bounds DEF RegistryOK
    <2>b. running' \subseteq 1..begun'
        BY <1>2 DEF RegistryOK
    <2>c. Candidates(s)' \subseteq running'
        BY DEF Candidates
    <2>1. begun' \in Nat /\ Candidates(s)' \subseteq 1..begun'
        BY <2>a, <2>b, <2>c
    <2>2. NewestOf(s)' = CHOOSE p \in {0} \cup Candidates(s)' :
                             \A q \in {0} \cup Candidates(s)' : q <= p
        BY DEF NewestOf, Candidates
    <2> QED
        BY <2>1, <2>2, NewestAmong
<1> QED
    BY <1>1, <1>2

\* The newest does not change with the presentations that are not the student's, nor
\* by the end of one that is not the newest.
LEMMA NewestKept ==
    ASSUME RegistryOK, RegistryOK', NEW s \in Students,
           \/ Candidates(s)' = Candidates(s)
           \/ \E p : Candidates(s)' = Candidates(s) \ {p} /\ NewestOf(s) # p
    PROVE  NewestOf(s)' = NewestOf(s)
<1>1. /\ NewestOf(s) \in 0..begun /\ IsNewest(NewestOf(s), Candidates(s))
      /\ NewestOf(s)' \in 0..begun' /\ IsNewest(NewestOf(s)', Candidates(s)')
    BY Newest
<1>2. begun \in Nat /\ begun' \in Nat
    BY Bounds DEF RegistryOK
<1> QED
    BY <1>1, <1>2 DEF IsNewest

-----------------------------------------------------------------------------
\* Types.

ToldOK ==
    /\ spectators \in [Shows -> SUBSET Students]
    /\ \A p \in Shows : p \notin running => spectators[p] = {}
    /\ shown \in [Students -> 0..MaxShows]
    /\ todo \in [Callers -> SUBSET Students]
    /\ waiting \in [Callers -> [for : SUBSET Students, over : 0..MaxShows, next : 0..MaxShows]]

PageOK ==
    /\ link \in [Students -> {"closed", "up", "cut"}]
    /\ overlay \in [Students -> 0..MaxShows]
    /\ frame \in [Students -> {"none", "asked", "loaded", "refused"}]

OthersOK ==
    /\ here \subseteq running
    /\ absent \in [Shows -> {"no", "running", "over"}]
    /\ crossed \subseteq Students
    /\ lost \subseteq Students
    /\ changes \in 0..MaxChanges

LEMMA Parts ==
    /\ TypeOK <=> RegistryOK /\ ToldOK /\ PageOK /\ OthersOK
    /\ TypeOK' <=> RegistryOK' /\ ToldOK' /\ PageOK' /\ OthersOK'
BY DEF TypeOK, RegistryOK, ToldOK, PageOK, OthersOK

LEMMA CoveredTyped ==
    ASSUME PageOK, NEW s \in Students, NEW p \in 0..MaxShows, NEW q \in 0..MaxShows,
           Covered(s, p, q), link' = link
    PROVE  PageOK'
<1>1. 0 \in 0..MaxShows
    BY Bounds
<1> QED
    BY <1>1 DEF PageOK, Covered

LEMMA UncoveredTyped ==
    ASSUME PageOK, NEW who, Uncovered(who),
           link' \in [Students -> {"closed", "up", "cut"}]
    PROVE  PageOK'
<1>1. 0 \in 0..MaxShows
    BY Bounds
<1> QED
    BY <1>1 DEF PageOK, Uncovered

LEMMA CrossesTyped ==
    ASSUME OthersOK, NEW r, NEW who \in SUBSET Students, Crosses(r, who)
    PROVE  crossed' \subseteq Students
BY DEF OthersOK, Crosses

LEMMA TurnTyped ==
    ASSUME TypeOK, NEW r \in Callers, NEW s \in Students, Turn(r, s),
           todo' \in [Callers -> SUBSET Students], present' \subseteq Students, link' = link
    PROVE  TypeOK'
<1> DEFINE old == shown[s]
           next == NewestOf(s)'
           sockets == IF old \in running THEN spectators[old] \cap {s} ELSE {}
<1>0. RegistryOK /\ ToldOK /\ PageOK /\ OthersOK
    BY Parts
<1>1. RegistryOK'
    BY <1>0 DEF Turn, registryVars, RegistryOK
<1>2. old \in 0..MaxShows /\ next \in 0..MaxShows
    BY <1>0, <1>1, Newest, Bounds DEF ToldOK, RegistryOK
<1>3. OthersOK'
    BY <1>0, CrossesTyped DEF Turn, registryVars, presenterVars, bounds, OthersOK
<1>4. running' = running
    BY DEF Turn, registryVars
<1>5. CASE old = next
    BY <1>0, <1>1, <1>3, <1>4, <1>5, Parts DEF Turn, ToldOK, PageOK
<1>6. CASE old # next /\ sockets = {}
    <2>1. Tell(s, old, next) /\ waiting' = waiting /\ spectators' = spectators
        BY <1>6 DEF Turn
    <2> HIDE DEF old, next
    <2>2. PageOK'
        BY <1>0, <1>2, <2>1, CoveredTyped DEF Tell
    <2>3. ToldOK'
        BY <1>0, <1>2, <1>4, <2>1 DEF Tell, ToldOK
    <2> QED
        BY <1>1, <1>3, <2>2, <2>3, Parts
<1>7. CASE old # next /\ sockets # {}
    <2>1. /\ waiting' = [waiting EXCEPT ![r] = [for |-> {s}, over |-> old, next |-> next]]
          /\ spectators' = [spectators EXCEPT ![old] = @ \ {s}]
          /\ Uncovered(Watching(old) \cap {s})
          /\ shown' = shown
        BY <1>7 DEF Turn
    <2> HIDE DEF old, next
    <2>2. PageOK'
        BY <1>0, <2>1, UncoveredTyped DEF PageOK
    <2>3. ToldOK'
        BY <1>0, <1>2, <1>4, <2>1 DEF ToldOK
    <2> QED
        BY <1>1, <1>3, <2>2, <2>3, Parts
<1> QED
    BY <1>5, <1>6, <1>7

LEMMA AskedTyped ==
    ASSUME ToldOK, NEW r \in Callers, NEW who \in SUBSET Students, Asked(r, who)
    PROVE  /\ todo' \in [Callers -> SUBSET Students]
           /\ waiting' = waiting
BY DEF ToldOK, Asked

LEMMA EndTyped ==
    ASSUME TypeOK, NEW r \in Callers, NEW p \in Shows, End(r, p)
    PROVE  TypeOK'
<1> DEFINE affected == spectators[p] \cup {s \in Students : shown[s] = p}
<1>0. RegistryOK /\ ToldOK /\ PageOK /\ OthersOK
    BY Parts
<1>1. EndTelling(r, p, affected) /\ affected \in SUBSET Students
    BY <1>0 DEF End, ToldOK
<1>2. affected \cup audience[p] \in SUBSET Students
    BY <1>0, <1>1 DEF RegistryOK
<1> HIDE DEF affected
<1>3. RegistryOK'
    BY <1>0, <1>1 DEF EndTelling, RegistryOK, bounds
<1>4. PageOK'
    BY <1>0, <1>1, UncoveredTyped DEF EndTelling, PageOK
<1>5. ToldOK'
    BY <1>0, <1>1, AskedTyped DEF EndTelling, ToldOK
<1>6. OthersOK'
    BY <1>0, <1>1, <1>2, CrossesTyped DEF EndTelling, OthersOK, bounds
<1> QED
    BY <1>3, <1>4, <1>5, <1>6, Parts

LEMMA TypeStep == TypeOK /\ [Next]_vars => TypeOK'
<1>1. ASSUME TypeOK, [Next]_vars
      PROVE  TypeOK'
    <2>0. RegistryOK /\ ToldOK /\ PageOK /\ OthersOK
        BY <1>1, Parts
    <2>1. ASSUME NEW r \in Requests, Start(r)
          PROVE  TypeOK'
        <3>1. PICK who \in SUBSET Students :
                    /\ audience' = [audience EXCEPT ![begun'] = who]
                    /\ Asked(r, who) /\ Crosses(r, who)
            BY <2>1 DEF Start, Started
        <3>2. /\ begun < MaxShows /\ begun' = begun + 1 /\ running' = running \cup {begun'}
              /\ absent' = [absent EXCEPT ![begun'] = "running"]
              /\ here' = here
              /\ UNCHANGED <<toldVars, pageVars, bounds>>
            BY <2>1 DEF Start, Started
        <3>3. begun' \in 0..MaxShows /\ running' \subseteq 1..begun'
            BY <2>0, <3>2, Bounds DEF RegistryOK
        <3>4. RegistryOK'
            BY <2>0, <3>1, <3>2, <3>3 DEF RegistryOK, toldVars
        <3>5. ToldOK' /\ PageOK'
            BY <2>0, <3>1, <3>2, AskedTyped DEF ToldOK, PageOK, toldVars, pageVars, Callers
        <3>6. OthersOK'
            BY <2>0, <3>1, <3>2, CrossesTyped DEF OthersOK, bounds
        <3> QED
            BY <3>4, <3>5, <3>6, Parts
    <2>2. ASSUME NEW r \in Requests, NEW p \in Shows, SetAudience(r, p)
          PROVE  TypeOK'
        <3>1. PICK new \in SUBSET Students :
                    /\ audience' = [audience EXCEPT ![p] = new]
                    /\ \E who \in {audience[p] \cup new, present} : Asked(r, who) /\ Crosses(r, who)
            BY <2>2 DEF SetAudience
        <3>2. PICK who \in {audience[p] \cup new, present} : Asked(r, who) /\ Crosses(r, who)
            BY <3>1
        <3>3. who \in SUBSET Students
            BY <2>0, <3>1, <3>2 DEF RegistryOK
        <3>4. changes < MaxChanges /\ changes' = changes + 1
              /\ UNCHANGED <<begun, running, presenterVars, toldVars, pageVars, lost>>
            BY <2>2 DEF SetAudience
        <3>5. RegistryOK'
            BY <2>0, <3>1, <3>4 DEF RegistryOK, toldVars
        <3>6. ToldOK' /\ PageOK'
            BY <2>0, <3>2, <3>3, <3>4, AskedTyped DEF ToldOK, PageOK, toldVars, pageVars, Callers
        <3>7. changes' \in 0..MaxChanges
            BY <2>0, <3>4, Bounds DEF OthersOK
        <3>8. OthersOK'
            BY <2>0, <3>2, <3>3, <3>4, <3>7, CrossesTyped DEF OthersOK, presenterVars
        <3> QED
            BY <3>5, <3>6, <3>8, Parts
    <2>3. ASSUME NEW r \in Requests, NEW p \in Shows, End(r, p)
          PROVE  TypeOK'
        BY <1>1, <2>3, EndTyped DEF Callers
    <2>4. ASSUME NEW p \in Shows, PresenterComes(p) \/ PresenterLeaves(p) \/ GraceElapses(p)
          PROVE  TypeOK'
        BY <1>1, <2>4
        DEF PresenterComes, PresenterLeaves, GraceElapses, TypeOK, toldVars, requestVars,
            pageVars, bounds
    <2>5. ASSUME NEW r \in Callers, SocketsClosed(r)
          PROVE  TypeOK'
        <3>1. PICK s \in waiting[r].for :
                    /\ UNCHANGED <<registryVars, spectators, present, link, bounds>>
                    /\ waiting' = [waiting EXCEPT ![r] = Nobody]
                    /\ IF shown[s] = 0
                       THEN /\ crossed' = crossed \cup todo[r]
                            /\ todo' = [todo EXCEPT ![r] = {}]
                            /\ UNCHANGED <<shown, overlay, frame>>
                       ELSE /\ Tell(s, waiting[r].over, waiting[r].next)
                            /\ UNCHANGED <<crossed, todo>>
            BY <2>5 DEF SocketsClosed
        <3>2. s \in Students /\ waiting[r].over \in 0..MaxShows /\ waiting[r].next \in 0..MaxShows
            BY <2>0, <3>1 DEF ToldOK
        <3>3. waiting' \in
                  [Callers -> [for : SUBSET Students, over : 0..MaxShows, next : 0..MaxShows]]
            BY <2>0, <3>1, Bounds DEF ToldOK, Nobody
        <3>4. todo' \in [Callers -> SUBSET Students] /\ crossed' \subseteq Students
            BY <2>0, <3>1 DEF ToldOK, OthersOK
        <3>5. PageOK' /\ shown' \in [Students -> 0..MaxShows]
            <4>1. CASE shown[s] = 0
                BY <2>0, <3>1, <4>1 DEF PageOK, ToldOK
            <4>2. CASE shown[s] # 0
                <5>1. Tell(s, waiting[r].over, waiting[r].next) /\ link' = link
                    BY <3>1, <4>2
                <5> QED
                    BY <2>0, <3>2, <5>1, CoveredTyped DEF Tell, ToldOK
            <4> QED
                BY <4>1, <4>2
        <3>6. RegistryOK' /\ ToldOK' /\ OthersOK'
            BY <2>0, <3>1, <3>3, <3>4, <3>5
            DEF RegistryOK, ToldOK, OthersOK, registryVars, presenterVars, bounds
        <3> QED
            BY <3>5, <3>6, Parts
    <2>6. ASSUME NEW r \in Callers, NEW s \in Students, Resync(r, s)
          PROVE  TypeOK'
        <3>1. todo' \in [Callers -> SUBSET Students] /\ present' \subseteq Students
            BY <2>0, <2>6 DEF Resync, ToldOK, RegistryOK
        <3> QED
            BY <1>1, <2>6, <3>1, TurnTyped DEF Resync
    <2>7. ASSUME NEW p \in Shows, TickEnds(p)
          PROVE  TypeOK'
        BY <1>1, <2>7, EndTyped DEF TickEnds, Callers
    <2>8. ASSUME NEW r \in Requests, NEW s \in Students, PageNoticed(r, s) \/ PageConnects(r, s)
          PROVE  TypeOK'
        <3>1. todo' \in [Callers -> SUBSET Students] /\ present' \subseteq Students
            BY <2>0, <2>8 DEF PageNoticed, PageConnects, PresenceChanges, ToldOK, RegistryOK
        <3>2. Turn(r, s) /\ link' = link /\ r \in Callers
            BY <2>8 DEF PageNoticed, PageConnects, PresenceChanges, Callers
        <3> QED
            BY <1>1, <3>1, <3>2, TurnTyped
    <2>9. ASSUME NEW s \in Students, PageOpens(s) \/ NetworkLost(s) \/ FrameAsked(s)
          PROVE  TypeOK'
        <3>1. PageOK'
            BY <2>0, <2>9 DEF PageOpens, NetworkLost, FrameAsked, PageOK
        <3>2. RegistryOK' /\ ToldOK' /\ OthersOK'
            BY <2>0, <2>9
            DEF PageOpens, NetworkLost, FrameAsked, RegistryOK, ToldOK, OthersOK, registryVars,
                presenterVars, toldVars, requestVars, bounds
        <3> QED
            BY <3>1, <3>2, Parts
    <2>10. ASSUME NEW s \in Students, PageCloses(s)
           PROVE  TypeOK'
        <3>1. PageOK'
            BY <2>0, <2>10, UncoveredTyped DEF PageCloses, PageOK
        <3>2. RegistryOK' /\ ToldOK' /\ OthersOK'
            BY <2>0, <2>10
            DEF PageCloses, RegistryOK, ToldOK, OthersOK, registryVars, presenterVars, toldVars,
                requestVars, bounds
        <3> QED
            BY <3>1, <3>2, Parts
    <2>11. ASSUME NEW s \in Students, FrameConnects(s)
           PROVE  TypeOK'
        <3>1. PageOK'
            BY <2>0, <2>11, UncoveredTyped DEF FrameConnects, PageOK
        <3>2. ToldOK'
            BY <2>0, <2>11 DEF FrameConnects, ToldOK, registryVars, requestVars
        <3>3. RegistryOK' /\ OthersOK'
            BY <2>0, <2>11
            DEF FrameConnects, RegistryOK, OthersOK, registryVars, presenterVars, bounds
        <3> QED
            BY <3>1, <3>2, <3>3, Parts
    <2>12. ASSUME NEW s \in Students, NEW p \in Shows, FrameNoticed(s, p)
           PROVE  TypeOK'
        <3>1. ToldOK'
            BY <2>0, <2>12 DEF FrameNoticed, ToldOK, registryVars, requestVars
        <3>2. RegistryOK' /\ PageOK' /\ OthersOK'
            BY <2>0, <2>12
            DEF FrameNoticed, RegistryOK, PageOK, OthersOK, registryVars, presenterVars,
                pageVars, bounds
        <3> QED
            BY <3>1, <3>2, Parts
    <2>13. CASE UNCHANGED vars
        BY <1>1, <2>13 DEF vars, TypeOK
    <2> QED
        BY <1>1, <2>1, <2>2, <2>3, <2>4, <2>5, <2>6, <2>7, <2>8, <2>9, <2>10, <2>11, <2>12, <2>13
        DEF Next, Presenters, Portal, Pages
<1> QED
    BY <1>1

\* Every variable keeps its shape (Presentation and Presence of presentation.py, the
\* page of a student).
THEOREM TypeCorrect == Spec => []TypeOK
<1>1. Init => TypeOK
    BY Bounds DEF Init, TypeOK, Nobody
<1> QED
    BY <1>1, TypeStep, PTL DEF Spec

-----------------------------------------------------------------------------
\* One student, whom no two requests crossed about.

Waited(s) == \E r \in Callers : WaitsFor(r, s)

\* A request that waits for the student found what is still true, and is the only one.
WaitInv(s) ==
    \A r \in Callers : WaitsFor(r, s) =>
        /\ waiting[r].over = shown[s] /\ shown[s] # 0
        /\ waiting[r].next = NewestOf(s)
        /\ \A q \in Callers : WaitsFor(q, s) => q = r

\* A student who is not connected was told of nothing, or is being told so.
AbsentInv(s) == s \notin present /\ ~Waited(s) => shown[s] = 0

\* The page of a student is over the presentation they were told of.
PageInv(s) ==
    link[s] = "up" /\ s \in present /\ ~Waited(s) /\ shown[s] \in running => overlay[s] = shown[s]

RestInv(s) == AtRest(s) => shown[s] = NewestOf(s)

\* A page that was never cut off is only over the presentation its student was told of.
CoverInv(s) ==
    /\ link[s] # "cut"
    /\ overlay[s] # 0 => link[s] = "up" /\ s \in present /\ overlay[s] = shown[s]

StudentInv(s) ==
    /\ WaitInv(s) /\ AbsentInv(s) /\ PageInv(s) /\ RestInv(s)
    /\ s \notin lost => CoverInv(s)

\* Requests wait for one student at a time, and what they tell was begun.
RequestInv ==
    /\ \A r \in Callers : waiting[r].next <= begun /\ \A s, t \in waiting[r].for : s = t
    /\ \A s \in Students : shown[s] <= begun

ShownInv ==
    /\ TypeOK
    /\ RequestInv
    /\ \A s \in Students : s \notin crossed => StudentInv(s)

LEMMA ShownIsRight == ShownInv => NewestIsShown /\ WatchersAreIncluded
<1>1. ASSUME ShownInv, NEW s \in Students, s \notin crossed, AtRest(s)
      PROVE  /\ shown[s] = NewestOf(s)
             /\ link[s] = "up" /\ shown[s] # 0 => overlay[s] = shown[s]
             /\ \A p \in Shows : s \notin lost /\ s \in Watching(p) => s \in audience[p]
    <2>1. StudentInv(s) /\ RegistryOK
        BY <1>1, Parts DEF ShownInv
    <2>2. shown[s] = NewestOf(s)
        BY <1>1, <2>1 DEF StudentInv, RestInv
    <2>3. shown[s] # 0 => shown[s] \in Candidates(s)
        BY <2>1, <2>2, Newest DEF IsNewest
    <2>4. ~Waited(s)
        BY <1>1 DEF AtRest, Waited, WaitsFor
    <2>5. link[s] = "up" /\ shown[s] # 0 => overlay[s] = shown[s]
        BY <2>1, <2>3, <2>4 DEF StudentInv, PageInv, Candidates
    <2>6. ASSUME NEW p \in Shows, s \notin lost, s \in Watching(p)
          PROVE  s \in audience[p]
        <3>1. overlay[s] = p /\ p # 0
            BY <2>6, Bounds DEF Watching, Shows
        <3>2. shown[s] = p
            BY <2>1, <2>6, <3>1 DEF StudentInv, CoverInv
        <3> QED
            BY <2>3, <3>1, <3>2 DEF Candidates
    <2> QED
        BY <2>2, <2>5, <2>6
<1> QED
    BY <1>1 DEF NewestIsShown, WatchersAreIncluded

-----------------------------------------------------------------------------
\* What a step does to a student it is not about.

\* Nothing that StudentInv says of the student is disturbed.
Apart(s) ==
    /\ \A r \in Callers : /\ (WaitsFor(r, s))' = WaitsFor(r, s)
                          /\ WaitsFor(r, s) => waiting'[r] = waiting[r]
    /\ AtRest(s)' => AtRest(s)
    /\ shown'[s] = shown[s] /\ (s \in present') = (s \in present)
    /\ (s \in lost') = (s \in lost)
    /\ overlay'[s] = overlay[s] /\ link'[s] = link[s]
    /\ running' = running /\ audience' = audience

LEMMA ApartKept ==
    ASSUME RegistryOK, RegistryOK', NEW s \in Students, Apart(s), StudentInv(s)
    PROVE  StudentInv(s)'
<1>1. Candidates(s)' = Candidates(s)
    BY DEF Apart, Candidates
<1>2. NewestOf(s)' = NewestOf(s)
    BY <1>1, NewestKept
<1>3. Waited(s)' = Waited(s)
    BY DEF Waited, Apart
<1>4. WaitInv(s)'
    BY <1>2 DEF Apart, StudentInv, WaitInv
<1>5. AbsentInv(s)' /\ PageInv(s)' /\ CoverInv(s)' = CoverInv(s)
    BY <1>3 DEF Apart, StudentInv, AbsentInv, PageInv, CoverInv
<1>6. RestInv(s)'
    BY <1>2 DEF Apart, StudentInv, RestInv
<1> QED
    BY <1>4, <1>5, <1>6 DEF StudentInv, Apart

-----------------------------------------------------------------------------
\* The turn of a student.

\* The turn of t comes in a request that does not wait: their socket may have been
\* opened or found dead, and t is the only one taken from those to be told.
TurnOf(r, t) ==
    /\ Turn(r, t) /\ waiting[r] = Nobody
    /\ link' = link
    /\ \A s \in Students \ {t} : /\ (s \in present') = (s \in present)
                                /\ \A q \in Callers : s \in todo[q] => s \in todo'[q]
    /\ \/ (t \in present') = (t \in present)
       \/ t \notin present /\ link[t] = "up"
       \/ t \notin present' /\ link[t] # "up"

\* What was found and what the turn does with it.
LEMMA TurnCases ==
    ASSUME NEW r \in Callers, NEW t \in Students, TurnOf(r, t)
    PROVE  LET old == shown[t]
               next == NewestOf(t)'
           IN  /\ UNCHANGED <<registryVars, bounds, link>>
               /\ \/ old = next /\ UNCHANGED <<shown, overlay, waiting>>
                  \/ old # next /\ Tell(t, old, next) /\ UNCHANGED waiting
                  \/ /\ old # next /\ old \in running
                     /\ waiting' = [waiting EXCEPT
                            ![r] = [for |-> {t}, over |-> old, next |-> next]]
                     /\ Uncovered(Watching(old) \cap {t})
                     /\ UNCHANGED shown
<1> DEFINE old == shown[t]
           next == NewestOf(t)'
           sockets == IF old \in running THEN spectators[old] \cap {t} ELSE {}
<1>1. UNCHANGED <<registryVars, bounds, link>>
    BY DEF TurnOf, Turn
<1>2. CASE old = next
    BY <1>1, <1>2 DEF TurnOf, Turn
<1>3. CASE old # next /\ sockets = {}
    BY <1>1, <1>3 DEF TurnOf, Turn
<1>4. CASE old # next /\ sockets # {}
    BY <1>1, <1>4 DEF TurnOf, Turn
<1> QED
    BY <1>2, <1>3, <1>4

LEMMA TurnLeaves ==
    ASSUME TypeOK, TypeOK', NEW r \in Callers, NEW t \in Students, TurnOf(r, t),
           NEW s \in Students \ {t}, StudentInv(s)
    PROVE  StudentInv(s)'
<1>0. RegistryOK /\ RegistryOK' /\ ToldOK /\ PageOK
    BY Parts
<1>1. /\ UNCHANGED <<registryVars, bounds, link>>
      /\ \/ UNCHANGED <<shown, overlay, waiting>>
         \/ \E p, q : Tell(t, p, q) /\ UNCHANGED waiting
         \/ /\ shown' = shown
            /\ \E v : waiting' = [waiting EXCEPT ![r] = v] /\ v.for = {t}
            /\ \E who : Uncovered(who \cap {t})
    <2> DEFINE v == [for |-> {t}, over |-> shown[t], next |-> NewestOf(t)']
    <2>1. v.for = {t}
        OBVIOUS
    <2> QED
        BY <2>1, TurnCases
<1>2. shown'[s] = shown[s] /\ overlay'[s] = overlay[s]
    BY <1>0, <1>1 DEF ToldOK, PageOK, Tell, Covered, Uncovered
<1>3. ASSUME NEW q \in Callers
      PROVE  /\ (WaitsFor(q, s))' = WaitsFor(q, s)
             /\ WaitsFor(q, s) => waiting'[q] = waiting[q]
    BY <1>0, <1>1 DEF TurnOf, ToldOK, WaitsFor, Nobody
<1>4. AtRest(s)' => AtRest(s)
    BY <1>3 DEF TurnOf, AtRest, WaitsFor
<1>5. Apart(s)
    BY <1>1, <1>2, <1>3, <1>4 DEF Apart, TurnOf, registryVars, bounds
<1> QED
    BY <1>0, <1>5, ApartKept

LEMMA TurnRight ==
    ASSUME TypeOK, TypeOK', NEW r \in Callers, NEW t \in Students, TurnOf(r, t),
           StudentInv(t), t \notin crossed'
    PROVE  StudentInv(t)'
<1> DEFINE old == shown[t]
           next == NewestOf(t)'
<1>0. RegistryOK /\ RegistryOK' /\ ToldOK /\ PageOK /\ ToldOK' /\ PageOK'
    BY Parts
<1>1. UNCHANGED <<running, audience, link, lost>>
    BY DEF TurnOf, Turn, registryVars, bounds
<1>2. \A q \in Callers : ~WaitsFor(q, t)
    BY DEF TurnOf, Turn, Crosses, WaitsFor, Nobody
<1>3. /\ t \notin present => old = 0
      /\ link[t] = "up" /\ t \in present /\ old \in running => overlay[t] = old
      /\ t \notin lost => CoverInv(t)
    BY <1>2 DEF StudentInv, AbsentInv, PageInv, Waited
<1>4. /\ next = 0 \/ next \in running
      /\ t \notin present' => next = 0
      /\ 0 \notin running
    BY <1>0, <1>1, Newest DEF IsNewest, Candidates, RegistryOK
<1>5. \/ (t \in present') = (t \in present)
      \/ t \notin present /\ link[t] = "up"
      \/ t \notin present' /\ link[t] # "up"
    BY DEF TurnOf
<1>6. CASE old = next /\ UNCHANGED <<shown, overlay, waiting>>
    <2>1. UNCHANGED <<shown, overlay, waiting>>
        BY <1>6
    <2>2. ~Waited(t)' /\ WaitInv(t)'
        BY <1>2, <2>1 DEF Waited, WaitInv, WaitsFor
    <2>3. AbsentInv(t)' /\ RestInv(t)'
        BY <1>4, <1>6, <2>1 DEF AbsentInv, RestInv
    <2>4. PageInv(t)'
        BY <1>1, <1>3, <1>4, <1>5, <1>6, <2>1 DEF PageInv
    <2>5. t \notin lost => CoverInv(t)'
        BY <1>1, <1>3, <1>5, <2>1 DEF CoverInv
    <2> QED
        BY <1>1, <2>2, <2>3, <2>4, <2>5 DEF StudentInv
<1>7. CASE Tell(t, old, next) /\ UNCHANGED waiting
    <2>1. Tell(t, old, next) /\ waiting' = waiting
        BY <1>7
    <2> HIDE DEF old, next
    <2>2. shown'[t] = next
        BY <1>0, <2>1 DEF ToldOK, Tell
    <2>3. overlay'[t] = IF link[t] # "up" \/ t \notin present' THEN overlay[t]
                        ELSE IF next = 0 THEN IF overlay[t] = old THEN 0 ELSE overlay[t]
                        ELSE next
        BY <1>0, <2>1 DEF PageOK, Tell, Covered
    <2>4. ~Waited(t)' /\ WaitInv(t)'
        BY <1>2, <2>1 DEF Waited, WaitInv, WaitsFor
    <2>5. AbsentInv(t)' /\ RestInv(t)'
        BY <1>4, <2>2 DEF AbsentInv, RestInv, next
    <2>6. PageInv(t)'
        BY <1>1, <1>4, <2>2, <2>3 DEF PageInv
    <2>7. t \notin lost => CoverInv(t)'
        BY <1>1, <1>3, <1>5, <2>2, <2>3 DEF CoverInv, old
    <2> QED
        BY <1>1, <2>4, <2>5, <2>6, <2>7 DEF StudentInv
<1>8. CASE /\ old \in running
           /\ waiting' = [waiting EXCEPT ![r] = [for |-> {t}, over |-> old, next |-> next]]
           /\ Uncovered(Watching(old) \cap {t})
           /\ UNCHANGED shown
    <2>1. /\ waiting' = [waiting EXCEPT ![r] = [for |-> {t}, over |-> old, next |-> next]]
          /\ Uncovered(Watching(old) \cap {t})
          /\ shown' = shown
          /\ old \in running
        BY <1>8
    <2> HIDE DEF old, next
    <2>2. waiting'[r] = [for |-> {t}, over |-> old, next |-> next]
          /\ \A q \in Callers : q # r => waiting'[q] = waiting[q]
        BY <1>0, <2>1 DEF ToldOK
    <2>3. WaitsFor(r, t)' /\ \A q \in Callers : WaitsFor(q, t)' => q = r
        BY <1>2, <2>2 DEF WaitsFor
    <2>4. WaitInv(t)'
        BY <1>4, <2>1, <2>2, <2>3 DEF WaitInv, old, next
    <2>5. AbsentInv(t)' /\ PageInv(t)' /\ RestInv(t)'
        BY <2>3 DEF AbsentInv, PageInv, RestInv, Waited, AtRest, WaitsFor
    <2>6. t \notin lost => CoverInv(t)'
        BY <1>0, <1>1, <1>3, <1>5, <2>1 DEF CoverInv, Uncovered
    <2> QED
        BY <1>1, <2>4, <2>5, <2>6 DEF StudentInv
<1> QED
    BY <1>6, <1>7, <1>8, TurnCases

\* The requests after a turn.
LEMMA TurnRequests ==
    ASSUME ShownInv, TypeOK', NEW r \in Callers, NEW t \in Students, TurnOf(r, t)
    PROVE  RequestInv'
<1> DEFINE next == NewestOf(t)'
<1>0. RegistryOK' /\ ToldOK /\ RequestInv
    BY Parts DEF ShownInv
<1>1. next \in 0..begun' /\ begun' = begun /\ next <= begun
    BY <1>0, Newest, Bounds DEF TurnOf, Turn, registryVars, RegistryOK
<1>2. /\ shown' = shown \/ shown' = [shown EXCEPT ![t] = next]
      /\ \/ waiting' = waiting
         \/ waiting' = [waiting EXCEPT ![r] = [for |-> {t}, over |-> shown[t], next |-> next]]
    BY TurnCases DEF Tell
<1> HIDE DEF next
<1>3. \A s \in Students : shown'[s] <= begun'
    BY <1>0, <1>1, <1>2 DEF RequestInv, ToldOK
<1>4. \A q \in Callers : waiting'[q].next <= begun' /\ \A s, u \in waiting'[q].for : s = u
    BY <1>0, <1>1, <1>2 DEF RequestInv, ToldOK
<1> QED
    BY <1>3, <1>4 DEF RequestInv

LEMMA TurnKeeps ==
    ASSUME ShownInv, TypeOK', NEW r \in Callers, NEW t \in Students, TurnOf(r, t)
    PROVE  ShownInv'
<1>1. \A s \in Students : s \notin crossed' => s \notin crossed
    BY DEF TurnOf, Turn, Crosses
<1>2. ASSUME NEW s \in Students, s \notin crossed'
      PROVE  StudentInv(s)'
    BY <1>1, <1>2, TurnLeaves, TurnRight DEF ShownInv
<1> QED
    BY <1>2, TurnRequests DEF ShownInv

-----------------------------------------------------------------------------
\* The changes of the presentations.

\* A request has changed the presentations and has these students to tell: whoever
\* has another newest presentation is among them, or two requests crossed about them.
AskedOf(r, who, s) ==
    /\ Asked(r, who)
    /\ UNCHANGED <<shown, present, link, lost>>
    /\ s \in crossed => s \in crossed'
    /\ Waited(s) => s \in crossed' \/ NewestOf(s)' = NewestOf(s)
    /\ AtRest(s) /\ s \notin who => NewestOf(s)' = NewestOf(s)

LEMMA AskedKeeps ==
    ASSUME ToldOK, NEW s \in Students, NEW r \in Callers, NEW who, AskedOf(r, who, s),
           StudentInv(s), s \notin crossed'
    PROVE  /\ WaitInv(s)' /\ AbsentInv(s)' /\ RestInv(s)'
           /\ Waited(s)' = Waited(s)
<1>1. waiting' = waiting /\ Waited(s)' = Waited(s)
    BY DEF AskedOf, Asked, Waited, WaitsFor
<1>2. WaitInv(s)'
    BY <1>1 DEF AskedOf, StudentInv, WaitInv, Waited, WaitsFor
<1>3. AbsentInv(s)'
    BY <1>1 DEF AskedOf, StudentInv, AbsentInv
<1>4. AtRest(s)' => AtRest(s) /\ s \notin who
    BY <1>1 DEF AskedOf, Asked, ToldOK, AtRest
<1>5. RestInv(s)'
    BY <1>4 DEF AskedOf, StudentInv, RestInv
<1> QED
    BY <1>1, <1>2, <1>3, <1>5

LEMMA StartKeeps ==
    ASSUME ShownInv, TypeOK', NEW r \in Callers, Start(r)
    PROVE  ShownInv'
<1>0. RegistryOK /\ RegistryOK' /\ ToldOK /\ RequestInv
    BY Parts DEF ShownInv
<1>1. PICK who \in SUBSET Students :
          audience' = [audience EXCEPT ![begun'] = who] /\ Asked(r, who) /\ Crosses(r, who)
    BY DEF Start, Started
<1>2. /\ begun < MaxShows /\ begun' = begun + 1 /\ running' = running \cup {begun'}
      /\ UNCHANGED <<spectators, present, shown, link, overlay, frame, lost, changes>>
    BY DEF Start, Started, toldVars, pageVars, bounds
<1>3. begun \in Nat /\ begun' \in Shows /\ begun' \notin running
    BY <1>0, <1>2, Bounds DEF RegistryOK, Shows
<1>4. ASSUME NEW s \in Students, s \notin crossed'
      PROVE  StudentInv(s)'
    <2>1. s \notin who => NewestOf(s)' = NewestOf(s)
        <3>1. s \notin who => Candidates(s)' = Candidates(s)
            BY <1>0, <1>1, <1>2, <1>3 DEF Candidates, RegistryOK
        <3> QED
            BY <1>0, <3>1, NewestKept
    <2>2. Waited(s) => s \notin who
        BY <1>1, <1>4 DEF Waited, WaitsFor, Crosses, Asked, Nobody
    <2>3. s \notin crossed
        BY <1>1, <1>4 DEF Crosses
    <2>4. AskedOf(r, who, s) /\ StudentInv(s)
        BY <1>1, <1>2, <2>1, <2>2, <2>3 DEF AskedOf, ShownInv
    <2>5. WaitInv(s)' /\ AbsentInv(s)' /\ RestInv(s)' /\ Waited(s)' = Waited(s)
        BY <1>0, <1>4, <2>4, AskedKeeps
    <2>6. shown[s] # begun'
        BY <1>0, <1>2, <1>3 DEF RequestInv, ToldOK
    <2>7. PageInv(s)' /\ (s \notin lost => CoverInv(s)')
        BY <1>2, <2>4, <2>5, <2>6 DEF StudentInv, PageInv, CoverInv
    <2> QED
        BY <1>2, <2>5, <2>7 DEF StudentInv
<1>5. RequestInv'
    BY <1>0, <1>1, <1>2, <1>3 DEF RequestInv, Asked, ToldOK
<1> QED
    BY <1>4, <1>5 DEF ShownInv

LEMMA AudienceKeeps ==
    ASSUME ShownInv, TypeOK', NEW r \in Callers, NEW p \in Shows, SetAudience(r, p)
    PROVE  ShownInv'
<1>0. RegistryOK /\ RegistryOK' /\ ToldOK /\ RequestInv
    BY Parts DEF ShownInv
<1>a. PICK new \in SUBSET Students :
          /\ audience' = [audience EXCEPT ![p] = new]
          /\ \E who \in {audience[p] \cup new, present} : Asked(r, who) /\ Crosses(r, who)
    BY DEF SetAudience
<1>1. PICK who \in {audience[p] \cup new, present} :
          audience' = [audience EXCEPT ![p] = new] /\ Asked(r, who) /\ Crosses(r, who)
    BY <1>a
<1>2. UNCHANGED <<begun, running, spectators, present, shown, link, overlay, frame, lost>>
    BY DEF SetAudience, toldVars, pageVars
<1>3. ASSUME NEW s \in Students, s \notin crossed'
      PROVE  StudentInv(s)'
    <2>1. s \notin who => NewestOf(s)' = NewestOf(s)
        <3>1. s \notin who => Candidates(s)' = Candidates(s)
            BY <1>0, <1>1, <1>2 DEF Candidates, RegistryOK
        <3> QED
            BY <1>0, <3>1, NewestKept
    <2>2. Waited(s) => s \notin who
        BY <1>1, <1>3 DEF Waited, WaitsFor, Crosses, Asked, Nobody
    <2>3. s \notin crossed
        BY <1>1, <1>3 DEF Crosses
    <2>4. AskedOf(r, who, s) /\ StudentInv(s)
        BY <1>1, <1>2, <2>1, <2>2, <2>3 DEF AskedOf, ShownInv
    <2>5. WaitInv(s)' /\ AbsentInv(s)' /\ RestInv(s)' /\ Waited(s)' = Waited(s)
        BY <1>0, <1>3, <2>4, AskedKeeps
    <2>6. PageInv(s)' /\ (s \notin lost => CoverInv(s)')
        BY <1>2, <2>4, <2>5 DEF StudentInv, PageInv, CoverInv
    <2> QED
        BY <1>2, <2>5, <2>6 DEF StudentInv
<1>4. RequestInv'
    BY <1>0, <1>1, <1>2 DEF RequestInv, Asked
<1> QED
    BY <1>3, <1>4 DEF ShownInv

\* A presentation that ends is the newest of those it was shown to, at rest.
LEMMA EndKeeps ==
    ASSUME ShownInv, TypeOK', NEW r \in Callers, NEW p \in Shows, End(r, p)
    PROVE  ShownInv'
<1> DEFINE who == spectators[p] \cup {s \in Students : shown[s] = p}
<1>0. RegistryOK /\ RegistryOK' /\ ToldOK /\ PageOK /\ RequestInv
    BY Parts DEF ShownInv
<1>1. /\ p \in running /\ running' = running \ {p}
      /\ Uncovered(Watching(p))
      /\ Asked(r, who) /\ Crosses(r, who \cup audience[p])
      /\ UNCHANGED <<begun, audience, absent, present, shown, link, lost>>
    BY DEF End, EndTelling, bounds
<1>2. ASSUME NEW s \in Students, shown[s] = p
      PROVE  s \in who
    BY <1>2
<1> HIDE DEF who
<1>3. ASSUME NEW s \in Students, s \notin crossed'
      PROVE  StudentInv(s)'
    <2>1. s \notin crossed /\ StudentInv(s)
        BY <1>1, <1>3 DEF Crosses, ShownInv
    <2>2. Candidates(s)' = Candidates(s) \ {p}
        BY <1>1 DEF Candidates
    <2>3. s \notin audience[p] => NewestOf(s)' = NewestOf(s)
        <3>1. s \notin audience[p] => Candidates(s)' = Candidates(s)
            BY <2>2 DEF Candidates
        <3> QED
            BY <1>0, <3>1, NewestKept
    <2>4. Waited(s) => s \notin audience[p]
        BY <1>1, <1>3 DEF Waited, WaitsFor, Crosses, Asked, Nobody
    <2>5. AtRest(s) /\ s \notin who => NewestOf(s)' = NewestOf(s)
        <3>1. AtRest(s) /\ s \notin who => NewestOf(s) # p
            BY <1>2, <2>1 DEF StudentInv, RestInv
        <3> QED
            BY <1>0, <2>2, <3>1, NewestKept
    <2>6. AskedOf(r, who, s)
        BY <1>1, <2>1, <2>3, <2>4, <2>5 DEF AskedOf
    <2>7. WaitInv(s)' /\ AbsentInv(s)' /\ RestInv(s)' /\ Waited(s)' = Waited(s)
        BY <1>0, <1>3, <2>1, <2>6, AskedKeeps
    <2>8. overlay'[s] = IF s \in Watching(p) THEN 0 ELSE overlay[s]
        BY <1>1 DEF Uncovered
    <2>9. s \in Watching(p) => overlay[s] = p
        BY DEF Watching
    <2>10. PageInv(s)'
        BY <1>1, <2>1, <2>7, <2>8, <2>9 DEF StudentInv, PageInv
    <2>11. s \notin lost => CoverInv(s)'
        BY <1>1, <2>1, <2>8 DEF StudentInv, CoverInv
    <2> QED
        BY <1>1, <2>7, <2>10, <2>11 DEF StudentInv
<1>4. RequestInv'
    BY <1>0, <1>1 DEF RequestInv, Asked
<1> QED
    BY <1>3, <1>4 DEF ShownInv

-----------------------------------------------------------------------------
\* The sockets a request waited for are closed.
LEMMA SocketsKeep ==
    ASSUME ShownInv, TypeOK', NEW r \in Callers, SocketsClosed(r)
    PROVE  ShownInv'
<1>0. RegistryOK /\ RegistryOK' /\ ToldOK /\ PageOK /\ RequestInv
    BY Parts DEF ShownInv
<1>1. PICK t \in waiting[r].for :
          /\ UNCHANGED <<registryVars, spectators, present, link, bounds>>
          /\ waiting' = [waiting EXCEPT ![r] = Nobody]
          /\ IF shown[t] = 0
             THEN /\ crossed' = crossed \cup todo[r]
                  /\ todo' = [todo EXCEPT ![r] = {}]
                  /\ UNCHANGED <<shown, overlay, frame>>
             ELSE /\ Tell(t, waiting[r].over, waiting[r].next)
                  /\ UNCHANGED <<crossed, todo>>
    BY DEF SocketsClosed
<1>2. t \in Students /\ waiting[r].for = {t}
    BY <1>0, <1>1 DEF ToldOK, RequestInv
<1>3. UNCHANGED <<begun, running, audience, present, link, lost>>
    BY <1>1 DEF registryVars, bounds
<1>4. waiting'[r] = Nobody /\ \A q \in Callers : q # r => waiting'[q] = waiting[q]
    BY <1>0, <1>1 DEF ToldOK
<1>5. \A s \in Students : s \notin crossed' => s \notin crossed
    BY <1>1
<1>6. ASSUME NEW s \in Students, s # t, s \notin crossed'
      PROVE  StudentInv(s)'
    <2>1. shown'[s] = shown[s] /\ overlay'[s] = overlay[s]
        BY <1>0, <1>1, <1>6 DEF ToldOK, PageOK, Tell, Covered
    <2>2. ASSUME NEW q \in Callers
          PROVE  /\ (WaitsFor(q, s))' = WaitsFor(q, s)
                 /\ WaitsFor(q, s) => waiting'[q] = waiting[q]
        BY <1>2, <1>4, <1>6 DEF WaitsFor, Nobody
    <2>3. \A q \in Callers : s \in todo[q] => s \in todo'[q]
        BY <1>0, <1>1, <1>6 DEF ToldOK
    <2>4. AtRest(s)' => AtRest(s)
        BY <2>2, <2>3 DEF AtRest, WaitsFor
    <2>5. Apart(s)
        BY <1>3, <2>1, <2>2, <2>4 DEF Apart
    <2> QED
        BY <1>0, <1>5, <1>6, <2>5, ApartKept DEF ShownInv
<1>7. ASSUME t \notin crossed'
      PROVE  StudentInv(t)'
    <2> DEFINE next == waiting[r].next
    <2>1. StudentInv(t) /\ WaitsFor(r, t)
        BY <1>2, <1>5, <1>7 DEF ShownInv, WaitsFor
    <2>2. /\ waiting[r].over = shown[t] /\ shown[t] # 0
          /\ next = NewestOf(t)
          /\ \A q \in Callers : WaitsFor(q, t) => q = r
        BY <2>1 DEF StudentInv, WaitInv
    <2>3. Tell(t, shown[t], next) /\ todo' = todo
        BY <1>1, <2>2
    <2>4. NewestOf(t)' = next
        <3>1. Candidates(t)' = Candidates(t)
            BY <1>3 DEF Candidates
        <3> QED
            BY <1>0, <1>2, <2>2, <3>1, NewestKept
    <2>5. next # 0 => t \in present
        BY <1>0, <1>2, <2>2, Newest DEF IsNewest, Candidates
    <2> HIDE DEF next
    <2>6. shown'[t] = next
        BY <1>0, <1>2, <2>3 DEF ToldOK, Tell
    <2>7. overlay'[t] = IF link[t] # "up" \/ t \notin present THEN overlay[t]
                        ELSE IF next = 0 THEN IF overlay[t] = shown[t] THEN 0 ELSE overlay[t]
                        ELSE next
        BY <1>0, <1>2, <1>3, <2>3 DEF PageOK, Tell, Covered
    <2>8. \A q \in Callers : ~WaitsFor(q, t)'
        BY <1>4, <2>2 DEF WaitsFor, Nobody
    <2>9. WaitInv(t)' /\ ~Waited(t)'
        BY <2>8 DEF WaitInv, Waited
    <2>10. AbsentInv(t)' /\ RestInv(t)'
        BY <1>3, <2>4, <2>5, <2>6 DEF AbsentInv, RestInv
    <2>11. 0 \notin running
        BY <1>0 DEF RegistryOK
    <2>12. PageInv(t)'
        BY <1>3, <2>6, <2>7, <2>11 DEF PageInv
    <2>13. t \notin lost => CoverInv(t)'
        BY <1>3, <2>1, <2>6, <2>7 DEF StudentInv, CoverInv
    <2> QED
        BY <1>3, <2>9, <2>10, <2>12, <2>13 DEF StudentInv
<1>8. RequestInv'
    <2>1. waiting[r].next <= begun
        BY <1>0 DEF RequestInv
    <2>2. \A s \in Students : shown'[s] <= begun'
        BY <1>0, <1>1, <1>3, <2>1 DEF RequestInv, ToldOK, Tell
    <2>3. \A q \in Callers : waiting'[q].next <= begun' /\ \A s, u \in waiting'[q].for : s = u
        BY <1>0, <1>3, <1>4, Bounds DEF RequestInv, RegistryOK, Nobody
    <2> QED
        BY <2>2, <2>3 DEF RequestInv
<1> QED
    BY <1>6, <1>7, <1>8 DEF ShownInv

-----------------------------------------------------------------------------
\* The pages, and the presenters who come and go.

\* What is known of the presentations and of the requests stays.
Settled ==
    UNCHANGED <<begun, running, audience, present, shown, todo, waiting, crossed>>

LEMMA SettledKeeps ==
    ASSUME ShownInv, TypeOK', Settled,
           \A s \in Students : StudentInv(s) =>
               PageInv(s)' /\ (s \notin lost' => s \notin lost /\ CoverInv(s)')
    PROVE  ShownInv'
<1>0. RegistryOK /\ RegistryOK'
    BY Parts DEF ShownInv
<1>1. ASSUME NEW s \in Students, s \notin crossed'
      PROVE  StudentInv(s)'
    <2>1. StudentInv(s) /\ PageInv(s)' /\ (s \notin lost' => CoverInv(s)')
        BY <1>1 DEF Settled, ShownInv
    <2>2. NewestOf(s)' = NewestOf(s)
        BY DEF Settled, NewestOf
    <2>3. WaitInv(s)' /\ AbsentInv(s)' /\ RestInv(s)'
        BY <2>1, <2>2
        DEF Settled, StudentInv, WaitInv, AbsentInv, RestInv, WaitsFor, Waited, AtRest
    <2> QED
        BY <2>1, <2>3 DEF StudentInv
<1>2. RequestInv'
    BY DEF Settled, RequestInv, ShownInv
<1> QED
    BY <1>1, <1>2 DEF ShownInv

LEMMA PresenterKeeps ==
    ASSUME ShownInv, TypeOK', NEW p \in Shows,
           PresenterComes(p) \/ PresenterLeaves(p) \/ GraceElapses(p)
    PROVE  ShownInv'
<1>1. Settled /\ UNCHANGED <<link, overlay, lost>>
    BY DEF PresenterComes, PresenterLeaves, GraceElapses, Settled, toldVars, requestVars,
           pageVars, bounds
<1>2. ASSUME NEW s \in Students, StudentInv(s)
      PROVE  PageInv(s)' /\ (s \notin lost => CoverInv(s)')
    BY <1>1, <1>2 DEF Settled, StudentInv, PageInv, CoverInv, Waited, WaitsFor
<1> QED
    BY <1>1, <1>2, SettledKeeps

LEMMA PageKeeps ==
    ASSUME ShownInv, TypeOK', NEW t \in Students,
           \/ PageOpens(t) \/ PageCloses(t) \/ NetworkLost(t)
           \/ FrameAsked(t) \/ FrameConnects(t)
           \/ \E p \in Shows : FrameNoticed(t, p)
    PROVE  ShownInv'
<1>0. RegistryOK /\ PageOK
    BY Parts DEF ShownInv
<1>1. Settled
    BY DEF PageOpens, PageCloses, NetworkLost, FrameAsked, FrameConnects, FrameNoticed, Settled,
           registryVars, presenterVars, toldVars, requestVars
<1>2. \A s \in Students : (Waited(s))' = Waited(s)
    BY <1>1 DEF Settled, Waited, WaitsFor
<1>3. ASSUME NEW s \in Students, StudentInv(s)
      PROVE  PageInv(s)' /\ (s \notin lost' => s \notin lost /\ CoverInv(s)')
    <2>0. /\ link[s] = "up" /\ s \in present /\ ~Waited(s) /\ shown[s] \in running
                => overlay[s] = shown[s]
          /\ s \notin lost => CoverInv(s)
        BY <1>3 DEF StudentInv, PageInv
    <2>1. CASE PageOpens(t)
        <3>1. /\ link' = [link EXCEPT ![t] = "up"] /\ UNCHANGED <<overlay, lost>>
              /\ t \notin present /\ link[t] # "up"
            BY <2>1 DEF PageOpens, Forgotten, bounds
        <3>2. link'[s] = IF s = t THEN "up" ELSE link[s]
            BY <1>0, <3>1 DEF PageOK
        <3> QED
            BY <1>1, <1>2, <2>0, <3>1, <3>2 DEF Settled, PageInv, CoverInv
    <2>2. CASE PageCloses(t)
        <3>1. /\ link' = [link EXCEPT ![t] = "closed"] /\ lost' = lost
              /\ Uncovered({t})
            BY <2>2 DEF PageCloses, bounds
        <3>2. /\ link'[s] = IF s = t THEN "closed" ELSE link[s]
              /\ overlay'[s] = IF s = t THEN 0 ELSE overlay[s]
            BY <1>0, <3>1 DEF PageOK, Uncovered
        <3> QED
            BY <1>1, <1>2, <2>0, <3>1, <3>2 DEF Settled, PageInv, CoverInv
    <2>3. CASE NetworkLost(t)
        <3>1. /\ link' = [link EXCEPT ![t] = "cut"] /\ lost' = lost \cup {t}
              /\ overlay' = overlay
            BY <2>3 DEF NetworkLost
        <3>2. link'[s] = IF s = t THEN "cut" ELSE link[s]
            BY <1>0, <3>1 DEF PageOK
        <3>3. PageInv(s)'
            BY <1>1, <1>2, <2>0, <3>1, <3>2 DEF Settled, PageInv
        <3>4. s \notin lost' => s \notin lost /\ link'[s] = link[s]
            BY <3>1, <3>2
        <3> QED
            BY <1>1, <2>0, <3>1, <3>3, <3>4 DEF Settled, CoverInv
    <2>4. CASE FrameAsked(t) \/ \E p \in Shows : FrameNoticed(t, p)
        <3>1. UNCHANGED <<link, overlay, lost>>
            BY <2>4 DEF FrameAsked, FrameNoticed, pageVars, bounds
        <3> QED
            BY <1>1, <1>2, <2>0, <3>1 DEF Settled, PageInv, CoverInv
    <2>5. CASE FrameConnects(t)
        <3>1. /\ link' = link /\ lost' = lost
              /\ overlay' = overlay \/ (overlay[t] \notin running /\ Uncovered({t}))
            BY <2>5 DEF FrameConnects, bounds
        <3>2. \/ overlay'[s] = overlay[s]
              \/ overlay[s] \notin running /\ overlay'[s] = 0
            BY <1>0, <3>1 DEF PageOK, Uncovered
        <3>3. PageInv(s)'
            BY <1>1, <1>2, <2>0, <3>1, <3>2 DEF Settled, PageInv
        <3>4. s \notin lost => CoverInv(s)'
            BY <1>1, <2>0, <3>1, <3>2 DEF Settled, CoverInv
        <3> QED
            BY <3>1, <3>3, <3>4
    <2> QED
        BY <2>1, <2>2, <2>3, <2>4, <2>5
<1> QED
    BY <1>1, <1>3, SettledKeeps

-----------------------------------------------------------------------------
LEMMA ShownInitially == Init => ShownInv
<1>1. ASSUME Init
      PROVE  ShownInv
    <2>1. TypeOK
        BY <1>1, Bounds DEF Init, TypeOK, Nobody
    <2>2. RequestInv
        BY <1>1 DEF Init, RequestInv, Nobody
    <2>3. ASSUME NEW s \in Students
          PROVE  StudentInv(s)
        <3>1. NewestOf(s) = 0
            BY <1>1, <2>1, Newest, Parts DEF Init, IsNewest, Candidates
        <3>2. \A r \in Callers : ~WaitsFor(r, s)
            BY <1>1 DEF Init, WaitsFor, Nobody
        <3>3. WaitInv(s) /\ AbsentInv(s) /\ PageInv(s) /\ RestInv(s) /\ CoverInv(s)
            BY <1>1, <3>1, <3>2 DEF Init, WaitInv, AbsentInv, PageInv, RestInv, CoverInv
        <3> QED
            BY <3>3 DEF StudentInv
    <2> QED
        BY <2>1, <2>2, <2>3 DEF ShownInv
<1> QED
    BY <1>1

LEMMA ShownStep == ShownInv /\ [Next]_vars => ShownInv'
<1>1. ASSUME ShownInv, [Next]_vars
      PROVE  ShownInv'
    <2>0. TypeOK /\ TypeOK'
        BY <1>1, TypeStep DEF ShownInv
    <2>1. ASSUME NEW r \in Requests, Start(r)
          PROVE  ShownInv'
        BY <1>1, <2>0, <2>1, StartKeeps DEF Callers
    <2>9. ASSUME NEW r \in Requests, NEW p \in Shows, SetAudience(r, p) \/ End(r, p)
          PROVE  ShownInv'
        BY <1>1, <2>0, <2>9, AudienceKeeps, EndKeeps DEF Callers
    <2>2. ASSUME NEW p \in Shows, PresenterComes(p) \/ PresenterLeaves(p) \/ GraceElapses(p)
          PROVE  ShownInv'
        BY <1>1, <2>0, <2>2, PresenterKeeps
    <2>3. ASSUME NEW r \in Callers, SocketsClosed(r)
          PROVE  ShownInv'
        BY <1>1, <2>0, <2>3, SocketsKeep
    <2>4. ASSUME NEW r \in Callers, NEW t \in Students, Resync(r, t)
          PROVE  ShownInv'
        <3>1. TurnOf(r, t)
            BY <2>0, <2>4, Parts DEF Resync, TurnOf, ToldOK
        <3> QED
            BY <1>1, <2>0, <3>1, TurnKeeps
    <2>5. ASSUME NEW p \in Shows, TickEnds(p)
          PROVE  ShownInv'
        BY <1>1, <2>0, <2>5, EndKeeps DEF TickEnds, Callers
    <2>6. ASSUME NEW r \in Requests, NEW t \in Students, PageNoticed(r, t) \/ PageConnects(r, t)
          PROVE  ShownInv'
        <3>1. TurnOf(r, t) /\ r \in Callers
            BY <2>0, <2>6, Parts
            DEF PageNoticed, PageConnects, PresenceChanges, TurnOf, Callers
        <3> QED
            BY <1>1, <2>0, <3>1, TurnKeeps
    <2>7. ASSUME NEW t \in Students,
                 \/ PageOpens(t) \/ PageCloses(t) \/ NetworkLost(t)
                 \/ FrameAsked(t) \/ FrameConnects(t)
                 \/ \E p \in Shows : FrameNoticed(t, p)
          PROVE  ShownInv'
        BY <1>1, <2>0, <2>7, PageKeeps
    <2>8. CASE UNCHANGED vars
        <3>1. Settled /\ UNCHANGED <<link, overlay, lost>>
            BY <2>8 DEF vars, Settled
        <3>2. ASSUME NEW s \in Students, StudentInv(s)
              PROVE  PageInv(s)' /\ (s \notin lost => CoverInv(s)')
            BY <3>1, <3>2 DEF Settled, StudentInv, PageInv, CoverInv, Waited, WaitsFor
        <3> QED
            BY <1>1, <2>0, <3>1, <3>2, SettledKeeps
    <2> QED
        BY <1>1, <2>1, <2>9, <2>2, <2>3, <2>4, <2>5, <2>6, <2>7, <2>8
        DEF Next, Presenters, Portal, Pages
<1> QED
    BY <1>1

\* A student whom no request is about was told of the newest presentation that
\* includes them, and their page shows it, unless two requests crossed about them
\* (Presentations.resync).
THEOREM NewestIsAlwaysShown == Spec => []NewestIsShown
BY ShownInitially, ShownStep, ShownIsRight, PTL DEF Spec

\* Nor do they watch a presentation they were left out of, on a page that was never
\* cut off (Presentations.set_audience, end).
THEOREM WatchersAreAlwaysIncluded == Spec => []WatchersAreIncluded
BY ShownInitially, ShownStep, ShownIsRight, PTL DEF Spec

-----------------------------------------------------------------------------
\* The grace of a presenter runs, or is over, exactly while they have no page.
AbandonedIsTimed == \A p \in running : p \in here <=> absent[p] = "no"

\* The steps that change who is there, and whose grace runs.
LEMMA TimedStep ==
    ASSUME TypeOK, AbandonedIsTimed, Next
    PROVE  AbandonedIsTimed'
<1> USE DEF TypeOK, AbandonedIsTimed, Shows
<1>1. ASSUME NEW r \in Requests, Start(r) PROVE AbandonedIsTimed'
    BY <1>1, PresentationAssumption DEF Start, Started
<1>2. ASSUME NEW r \in Callers, NEW p \in Shows, End(r, p) PROVE AbandonedIsTimed'
    BY <1>2 DEF End, EndTelling
<1>3. ASSUME NEW p \in Shows, PresenterComes(p) PROVE AbandonedIsTimed'
    BY <1>3 DEF PresenterComes
<1>4. ASSUME NEW p \in Shows, PresenterLeaves(p) PROVE AbandonedIsTimed'
    BY <1>4 DEF PresenterLeaves
<1>5. ASSUME NEW p \in Shows, GraceElapses(p) PROVE AbandonedIsTimed'
    BY <1>5 DEF GraceElapses
<1>6. CASE UNCHANGED <<running, here, absent>>
    BY <1>6
<1> QED
    BY <1>1, <1>2, <1>3, <1>4, <1>5, <1>6
       DEF Next, Presenters, Portal, Pages, Callers, TickEnds, SetAudience, SocketsClosed, Resync,
           PageNoticed, PageConnects, PresenceChanges, Turn, FrameNoticed, PageOpens, PageCloses,
           NetworkLost, FrameAsked, FrameConnects, registryVars, presenterVars

\* A presentation nobody presents any more has its grace running or over, so that
\* the tick will end it, and the tick never ends one whose presenter is there
\* (Presentations.start, attach_presenter, detach_presenter, tick), whatever the
\* order in which their pages come and go.
THEOREM AbandonedAlone ==
    Spec => /\ []AbandonedIsTimed
            /\ [][\A p \in Shows : TickEnds(p) => p \in running \ here]_vars
<1>1. Init => AbandonedIsTimed
    BY DEF Init, AbandonedIsTimed
<1>2. TypeOK /\ AbandonedIsTimed /\ [Next]_vars => AbandonedIsTimed'
  <2>1. ASSUME AbandonedIsTimed, UNCHANGED vars PROVE AbandonedIsTimed'
      BY <2>1 DEF AbandonedIsTimed, vars
  <2> QED
      BY <2>1, TimedStep
<1>3. AbandonedIsTimed => \A p \in Shows : TickEnds(p) => p \in running \ here
    BY DEF AbandonedIsTimed, TickEnds, End, EndTelling
<1> QED
    BY <1>1, <1>2, <1>3, TypeCorrect, PTL DEF Spec
=============================================================================
