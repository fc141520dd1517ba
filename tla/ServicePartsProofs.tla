---------------------------- MODULE ServicePartsProofs ----------------------------
(***************************************************************************)
(* Safety of the parts that ServiceParts puts beside each other, for every *)
(* value of their constants.  A behaviour runs one part, whose invariant   *)
(* is therefore shown of the behaviours that run it.                       *)
(***************************************************************************)
EXTENDS ServiceParts, Sequences, FiniteSetTheorems, WellFoundedInduction, TLAPS

\* A behaviour runs one part from its beginning.
LEMMA OnePartRuns ==
  ASSUME [ServiceNext]_serviceVars
  PROVE  /\ part' = part
         /\ part = "alerts" => [Alerting!Next]_alertsVars
         /\ part = "ids" => [Ids!Next]_idsVars
         /\ part = "brief" => [Brief!Next]_briefVars
         /\ part = "schema" => [Schema!Next]_schemaVars
         /\ part = "accounts" => [Roles!Next]_accountsVars
         /\ part = "drilldown" => [Drill!Next]_drilldownVars
         /\ part = "limiter" => [Limiter!Next]_limiterVars
BY DEF ServiceNext, OnlyService, serviceVars

(***************************************************************************)
(* The ids of the employees.  No id is given twice, for any number of      *)
(* requests and any employees that were there before the counter.          *)
(***************************************************************************)
IdsAssumption == MaxId \in Nat /\ Earlier \subseteq 0 .. MaxId

(***************************************************************************)
(* What findHighest computes: Max of a set of ids.                         *)
(***************************************************************************)
LEMMA Smallest ==
  ASSUME NEW T, T \subseteq Nat, T # {}
  PROVE  \E x \in T : \A y \in T : x <= y
<1>. DEFINE R == {ss \in Nat \X Nat : ss[1] < ss[2]}
<1>1. IsWellFoundedOn(R, Nat)
  BY NatLessThanWellFounded DEF OpToRel
<1>2. \A x, y \in Nat : x < y => <<x, y>> \in R
  OBVIOUS
<1>. HIDE DEF R
<1>3. PICK x \in T : \A y \in T : ~ (<<y, x>> \in R)
  BY <1>1, WFMin
<1>4. ASSUME NEW y \in T PROVE x <= y
  <2>1. x \in Nat /\ y \in Nat
    OBVIOUS
  <2>2. ~ (y < x)
    BY <1>2, <1>3, <2>1
  <2>. QED
    BY <2>1, <2>2
<1>. QED
  BY <1>4

LEMMA MaxIsHighest ==
  ASSUME NEW N \in Nat, NEW S, S \subseteq 0 .. N, S # {}
  PROVE  Ids!Max(S) \in S /\ \A x \in S : x <= Ids!Max(S)
<1>. DEFINE T == {N - x : x \in S}
<1>1. T \subseteq Nat /\ T # {}
  <2>1. \A x \in S : x \in Nat /\ x <= N
    OBVIOUS
  <2>2. \A x \in S : N - x \in Nat
    BY <2>1
  <2>. QED
    BY <2>2
<1>. HIDE DEF T
<1>2. PICK t \in T : \A y \in T : t <= y
  BY <1>1, Smallest
<1>3. PICK m \in S : t = N - m
  BY DEF T
<1>4. \A x \in S : m >= x
  <2>. TAKE x \in S
  <2>1. N - x \in T
    BY DEF T
  <2>. QED
    BY <2>1, <1>2, <1>3
<1>5. /\ Ids!Max(S) \in S
      /\ \A y \in S : Ids!Max(S) >= y
  BY <1>4 DEF Ids!Max
<1>. QED
  BY <1>5

(***************************************************************************)
(* The counter, once there is one, is at least every id in use, given or   *)
(* about to be saved; before, the highest id that a request found is at    *)
(* least every one in use, as employees can only be deleted.               *)
(***************************************************************************)
IdSteps == {"idle", "find", "scan", "create", "reserve", "save"}

IdTypes ==
  /\ counter \in 0 .. Ids!NoCounter
  /\ employees \subseteq 0 .. MaxId /\ given \subseteq 0 .. MaxId
  /\ caller \in [Callers -> [step : IdSteps, peek : BOOLEAN, id : 0 .. MaxId]]

NoneGiven ==
  counter = Ids!NoCounter =>
    /\ given = {}
    /\ \A c \in Callers : ~ Ids!At(c, "reserve") /\ ~ Ids!At(c, "save")
    /\ \A c \in Callers : Ids!At(c, "create") => \A e \in employees : e <= caller[c].id

CounterIsHighest ==
  counter # Ids!NoCounter =>
    /\ \A e \in employees \cup given : e <= counter
    /\ \A c \in Callers : Ids!At(c, "save") => caller[c].id <= counter

IdInv == IdTypes /\ NoneGiven /\ CounterIsHighest

LEMMA InitIds == IdsAssumption /\ Ids!Init => IdInv
BY DEF IdsAssumption, Ids!Init, IdInv, IdTypes, NoneGiven, CounterIsHighest, Ids!NoCounter, Ids!AtRest,
       Ids!At, IdSteps

LEMMA HighestFound ==
  ASSUME IdsAssumption, IdTypes
  PROVE  /\ Ids!Max(employees \cup {0}) \in 0 .. MaxId
         /\ \A e \in employees : e <= Ids!Max(employees \cup {0})
<1>1. employees \cup {0} \subseteq 0 .. MaxId /\ employees \cup {0} # {} /\ MaxId \in Nat
  BY DEF IdsAssumption, IdTypes
<1>. QED
  BY <1>1, MaxIsHighest

IdCallers == [step : IdSteps, peek : BOOLEAN, id : 0 .. MaxId]

LEMMA KnownIds ==
  ASSUME IdsAssumption, IdInv
  PROVE  /\ MaxId \in Nat /\ Ids!NoCounter = MaxId + 1 /\ counter \in 0 .. MaxId + 1
         /\ employees \subseteq 0 .. MaxId /\ given \subseteq 0 .. MaxId
         /\ caller \in [Callers -> IdCallers]
BY DEF IdsAssumption, IdInv, IdTypes, IdCallers, Ids!NoCounter

\* A request goes on to q before its reservation, and may make the counter.
LEMMA GoesOn ==
  ASSUME IdsAssumption, IdInv, NEW c \in Callers, NEW q \in IdCallers,
         caller' = [caller EXCEPT ![c] = q],
         UNCHANGED <<employees, given>>,
         \/ counter' = counter
         \/ /\ counter = Ids!NoCounter /\ counter' \in 0 .. MaxId
            /\ \A e \in employees : e <= counter',
         \/ q.step \in {"idle", "find", "scan"}
         \/ q.step = "create" /\ \A e \in employees : e <= q.id
         \/ q.step = "reserve" /\ counter' # Ids!NoCounter
  PROVE  IdInv'
<1>. USE DEF Ids!At
<1>1. IdTypes'
  BY KnownIds DEF IdTypes, IdCallers, Ids!NoCounter
<1>2. NoneGiven'
  BY KnownIds DEF IdInv, NoneGiven, Ids!NoCounter
<1>3. CounterIsHighest'
  BY KnownIds DEF IdInv, NoneGiven, CounterIsHighest, Ids!NoCounter
<1>. QED
  BY <1>1, <1>2, <1>3 DEF IdInv

LEMMA CallerStep ==
  ASSUME IdsAssumption, IdInv, NEW c \in Callers,
         Ids!Asks(c) \/ Ids!FindCounter(c) \/ Ids!FindHighest(c) \/ Ids!CreateCounter(c)
  PROVE  IdInv'
<1>. USE DEF Ids!At, Ids!AtRest, Ids!Answer, Ids!Go, IdCallers, IdSteps
<1>t. caller[c] \in IdCallers
  BY KnownIds
<1>1. CASE Ids!Asks(c)
  <2>1. PICK peek \in BOOLEAN :
          caller' = [caller EXCEPT ![c] = [step |-> "find", peek |-> peek, id |-> 0]]
    BY <1>1 DEF Ids!Asks
  <2>. DEFINE q == [step |-> "find", peek |-> peek, id |-> 0]
  <2>2. q \in IdCallers
    BY KnownIds
  <2>. QED
    BY <1>1, <2>1, <2>2, GoesOn DEF Ids!Asks
<1>2. CASE Ids!FindCounter(c)
  <2>1. CASE counter # Ids!NoCounter /\ caller[c].peek
    <3>1. Ids!AtRest \in IdCallers
      BY KnownIds
    <3>. QED
      BY <1>2, <2>1, <3>1, GoesOn DEF Ids!FindCounter
  <2>2. CASE counter = Ids!NoCounter \/ ~ caller[c].peek
    <3>. DEFINE q == [caller[c] EXCEPT !.step = IF counter = Ids!NoCounter THEN "scan"
                                                ELSE "reserve"]
    <3>1. q \in IdCallers /\ caller' = [caller EXCEPT ![c] = q]
      BY <1>2, <2>2, <1>t DEF Ids!FindCounter
    <3>2. q.step = IF counter = Ids!NoCounter THEN "scan" ELSE "reserve"
      BY <1>t
    <3>. QED
      BY <1>2, <3>1, <3>2, GoesOn DEF Ids!FindCounter
  <2>. QED
    BY <2>1, <2>2
<1>3. CASE Ids!FindHighest(c)
  <2>. DEFINE q == [caller[c] EXCEPT !.step = "create", !.id = Ids!Max(employees \cup {0})]
  <2>1. q \in IdCallers /\ q.step = "create" /\ q.id = Ids!Max(employees \cup {0})
    BY <1>t, HighestFound DEF IdInv
  <2>2. caller' = [caller EXCEPT ![c] = q] /\ UNCHANGED <<counter, employees, given>>
    BY <1>3, KnownIds DEF Ids!FindHighest
  <2>. HIDE DEF q
  <2>. QED
    BY <2>1, <2>2, HighestFound, GoesOn DEF IdInv
<1>4. CASE Ids!CreateCounter(c)
  <2>1. \/ counter' = counter /\ counter # Ids!NoCounter
        \/ /\ counter = Ids!NoCounter /\ counter' \in 0 .. MaxId
           /\ \A e \in employees : e <= counter'
    BY <1>4, <1>t DEF Ids!CreateCounter, IdInv, NoneGiven
  <2>2. counter' # Ids!NoCounter /\ UNCHANGED <<employees, given>>
    BY <1>4, <2>1, KnownIds DEF Ids!CreateCounter
  <2>3. PICK q \in IdCallers : /\ q.step \in {"idle", "reserve"}
                             /\ caller' = [caller EXCEPT ![c] = q]
    <3>1. Ids!AtRest \in IdCallers /\ Ids!AtRest.step = "idle"
      BY KnownIds
    <3>2. [caller[c] EXCEPT !.step = "reserve"] \in IdCallers
      BY <1>t
    <3>. QED
      BY <1>4, <1>t, <3>1, <3>2 DEF Ids!CreateCounter
  <2>. QED
    BY <2>1, <2>2, <2>3, GoesOn
<1>. QED
  BY <1>1, <1>2, <1>3, <1>4

LEMMA GivingStep ==
  ASSUME IdsAssumption, IdInv, NEW c \in Callers, Ids!Reserve(c) \/ Ids!Save(c)
  PROVE  IdInv'
<1>. USE DEF Ids!At
<1>1. CASE Ids!Reserve(c)
  <2>1. IdTypes'
    <3>. DEFINE q == [caller[c] EXCEPT !.step = "save", !.id = counter + 1]
    <3>1. counter + 1 \in 0 .. MaxId
      BY <1>1, KnownIds DEF Ids!Reserve
    <3>2. q \in IdCallers
      BY <3>1, KnownIds DEF IdCallers, IdSteps
    <3>3. caller' = [caller EXCEPT ![c] = q]
      BY <1>1, KnownIds DEF Ids!Reserve
    <3>. HIDE DEF q
    <3>4. caller' \in [Callers -> IdCallers]
      BY <3>2, <3>3, KnownIds
    <3>. QED
      BY <1>1, <3>1, <3>4, KnownIds DEF Ids!Reserve, IdTypes, IdCallers, Ids!NoCounter
  <2>2. NoneGiven'
    <3>1. counter' # Ids!NoCounter
      BY <1>1, KnownIds DEF Ids!Reserve
    <3>. QED
      BY <3>1 DEF NoneGiven, Ids!NoCounter
  <2>3. CounterIsHighest'
    BY <1>1, KnownIds DEF Ids!Reserve, IdInv, CounterIsHighest, Ids!NoCounter, IdCallers
  <2>. QED
    BY <2>1, <2>2, <2>3 DEF IdInv
<1>2. CASE Ids!Save(c)
  <2>. USE DEF Ids!Answer, Ids!AtRest
  <2>1. IdTypes'
    BY <1>2, KnownIds DEF Ids!Save, IdTypes, IdCallers, IdSteps, Ids!NoCounter
  <2>2. NoneGiven'
    BY <1>2, KnownIds DEF Ids!Save, IdInv, NoneGiven, Ids!NoCounter
  <2>3. CounterIsHighest'
    BY <1>2, KnownIds DEF Ids!Save, IdInv, NoneGiven, CounterIsHighest, Ids!NoCounter, IdCallers
  <2>. QED
    BY <2>1, <2>2, <2>3 DEF IdInv
<1>. QED
  BY <1>1, <1>2

LEMMA NextIds ==
  ASSUME IdsAssumption, IdInv, [Ids!Next]_idsVars
  PROVE  IdInv'
<1>1. CASE Ids!DeleteEmployee
  BY <1>1 DEF Ids!DeleteEmployee, IdInv, IdTypes, NoneGiven, CounterIsHighest, Ids!At
<1>2. CASE UNCHANGED idsVars
  BY <1>2 DEF idsVars, IdInv, IdTypes, NoneGiven, CounterIsHighest, Ids!At
<1>. QED
  BY <1>1, <1>2, CallerStep, GivingStep DEF Ids!Next

(***************************************************************************)
(* Whatever requests create the counter together, and whoever is deleted   *)
(* meanwhile, the id a creation reserves is in no use and was given to     *)
(* nobody before.                                                          *)
(***************************************************************************)
THEOREM IdsAreFresh == IdsAssumption => (ServiceSpec => FreshIds)
<1>. SUFFICES ASSUME IdsAssumption PROVE ServiceSpec => FreshIds
  OBVIOUS
<1>. DEFINE I == part = "ids" => IdInv
<1>1. ServiceInit => I
  BY InitIds DEF ServiceInit, Begins
<1>2. I /\ [ServiceNext]_serviceVars => I'
  BY OnePartRuns, NextIds
<1>3. I => (part = "ids" => Ids!GivesFreshId)
  BY DEF IdsAssumption, IdInv, IdTypes, NoneGiven, CounterIsHighest, Ids!GivesFreshId,
         Ids!Reserve, Ids!NoCounter, Ids!At, IdSteps
<1>4. I /\ [ServiceNext]_serviceVars => [part = "ids" => Ids!GivesFreshId]_serviceVars
  BY <1>3
<1>. QED
  BY <1>1, <1>2, <1>4, PTL DEF ServiceSpec, FreshIds

(***************************************************************************)
(* The alerts: what their variables hold.                                  *)
(***************************************************************************)
AlertsAssumption == Counts \subseteq Nat

Notes == [at : Nat, count : Nat, type : Types \cup {"none"}]
Docs == [there : BOOLEAN, active : BOOLEAN, type : Types \cup {"none"},
         th : Thresholds \cup {"none"}, note : Notes]
SumRows == [of : Alerts, at : Nat, type : Types, th : Thresholds \cup {"none"}, count : Counts]
Sums == [at : Nat, rows : SUBSET SumRows, alone : BOOLEAN]
Dos == [step : {"idle", "create", "update", "changed", "started", "locked"},
        alert : Alerts \cup {"none"}, to : Docs]
AlertJobs == [do : Dos, sums : Sums]
Scripts == [step : {"idle", "read", "cleared", "dropped", "listed"}, sums : Sums]
Acks == [step : {"idle", "read", "seen"}, alert : Alerts \cup {"none"}, note : Notes]

\* An alert that is active, or will be, has a type.
Typed(d) == d.active => d.type \in Types

AlertShapes ==
  /\ config \in [Alerts -> Docs] /\ matching \in [Types -> Counts]
  /\ rows \subseteq SumRows /\ listed \in [Types -> SUBSET Nat]
  /\ job \in [Jobs -> AlertJobs]
  /\ script \in Scripts /\ ack \in Acks /\ clock \in Nat
  /\ \A a \in Alerts : Typed(config[a])
  /\ \A j \in Alerting!Checked : job[j].do.alert \in Alerts /\ Typed(job[j].do.to)
  /\ ack.step # "idle" => ack.alert \in Alerts

LEMMA InitAlertShapes == AlertsAssumption /\ Alerting!Init => AlertShapes
BY DEF AlertsAssumption, Alerting!Init, AlertShapes, Notes, Docs, SumRows, Sums, Dos, AlertJobs,
       Scripts, Acks, Typed, Alerting!Checked, Alerting!Requests, Alerting!Step,
       Alerting!Never, Alerting!NoNote, Alerting!NoRow, Alerting!NoJob, Alerting!NoSums,
       Alerting!NoScript, Alerting!NoAck

LEMMA RowsAtAreRows ==
  ASSUME AlertsAssumption, AlertShapes, NEW at \in Nat
  PROVE  Alerting!RowsAt(at) \subseteq SumRows
BY DEF AlertsAssumption, AlertShapes, Alerting!RowsAt, Alerting!Active, SumRows, Docs, Typed

LEMMA NothingHasShape ==
  /\ Alerting!NoNote \in Notes /\ Alerting!NoRow \in Docs /\ Typed(Alerting!NoRow)
  /\ Alerting!NoJob \in Dos /\ Alerting!NoJob.step = "idle" /\ Alerting!NoSums \in Sums
  /\ Alerting!NoScript \in Scripts /\ Alerting!NoScript.step = "idle"
  /\ Alerting!NoAck \in Acks /\ Alerting!NoAck.step = "idle"
BY DEF Notes, Docs, Typed, Dos, Sums, Scripts, Acks, Alerting!Never, Alerting!NoNote,
       Alerting!NoRow, Alerting!NoJob, Alerting!NoSums, Alerting!NoScript, Alerting!NoAck

LEMMA DisturbedHasShape ==
  ASSUME AlertShapes
  PROVE  /\ Alerting!Disturbed(job) \in [Jobs -> AlertJobs]
         /\ \A j \in Jobs : Alerting!Disturbed(job)[j].do = job[j].do
         /\ Alerting!DisturbedScript \in Scripts
<1>1. \A j \in Jobs : /\ [job[j] EXCEPT !.sums.alone = FALSE] \in AlertJobs
                      /\ [job[j] EXCEPT !.sums.alone = FALSE].do = job[j].do
  BY DEF AlertShapes, AlertJobs, Sums
<1>2. [script EXCEPT !.sums.alone = FALSE] \in Scripts
  BY DEF AlertShapes, Scripts, Sums
<1>. QED
  BY <1>1, <1>2 DEF AlertShapes, Alerting!Disturbed, Alerting!DisturbedScript

\* A step of request j that leaves the documents alone.
LEMMA RequestKeepsShape ==
  ASSUME AlertShapes, NEW j \in Jobs, NEW jobs \in [Jobs -> AlertJobs], NEW q \in AlertJobs,
         \A k \in Jobs : jobs[k].do = job[k].do,
         job' = [jobs EXCEPT ![j] = q],
         q.do.step \in {"create", "update"} => q.do.alert \in Alerts /\ Typed(q.do.to),
         UNCHANGED <<config, matching, ack>>,
         rows' \subseteq SumRows, listed' \in [Types -> SUBSET Nat],
         script' \in Scripts, clock' \in Nat
  PROVE  AlertShapes'
BY DEF AlertShapes, Alerting!Checked, Alerting!Requests, Alerting!Step, Typed

\* A step of no request.
LEMMA OthersKeepShape ==
  ASSUME AlertShapes, NEW jobs \in [Jobs -> AlertJobs],
         \A k \in Jobs : jobs[k].do = job[k].do,
         job' = jobs, config' \in [Alerts -> Docs],
         \A a \in Alerts : Typed(config'[a]),
         matching' \in [Types -> Counts], rows' \subseteq SumRows,
         listed' \in [Types -> SUBSET Nat], script' \in Scripts, clock' \in Nat,
         ack' \in Acks, ack'.step # "idle" => ack'.alert \in Alerts
  PROVE  AlertShapes'
BY DEF AlertShapes, Alerting!Checked, Alerting!Requests, Alerting!Step, Typed

LEMMA RequestShape ==
  ASSUME AlertsAssumption, AlertShapes, NEW j \in Jobs,
         Alerting!Create(j) \/ Alerting!Update(j) \/ Alerting!Write(j) \/ Alerting!Remove(j)
  PROVE  AlertShapes'
<1>. USE DEF Alerting!Step
<1>1. ASSUME NEW step \in {"create", "update"}, NEW a \in Alerts, NEW to \in Docs, Typed(to),
             Alerting!Check(j, step, a, to)
      PROVE  AlertShapes'
  <2>. DEFINE q == [job[j] EXCEPT !.do = [step |-> step, alert |-> a, to |-> to]]
  <2>1. q \in AlertJobs /\ q.do.step = step /\ q.do.alert = a /\ q.do.to = to
    BY DEF AlertShapes, AlertJobs, Dos
  <2>2. job' = [job EXCEPT ![j] = q]
    BY <1>1 DEF Alerting!Check
  <2>3. UNCHANGED <<config, matching, ack, rows, listed, script, clock>>
    BY <1>1 DEF Alerting!Check, Alerting!aggregates
  <2>. HIDE DEF q
  <2>. QED
    BY <1>1, <2>1, <2>2, <2>3, RequestKeepsShape DEF AlertShapes
<1>2. CASE Alerting!Create(j)
  <2>1. PICK a \in Alerts, y \in Types, t \in Thresholds, active \in BOOLEAN :
          Alerting!Check(j, "create", a, [there |-> TRUE, active |-> active, type |-> y,
                                          th |-> t, note |-> Alerting!NoNote])
    BY <1>2 DEF Alerting!Create
  <2>. DEFINE to == [there |-> TRUE, active |-> active, type |-> y, th |-> t,
                     note |-> Alerting!NoNote]
  <2>2. to \in Docs /\ Typed(to)
    BY NothingHasShape DEF Docs, Typed
  <2>. QED
    BY <1>1, <2>1, <2>2
<1>3. CASE Alerting!Update(j)
  <2>1. PICK a \in Alerts, y \in Types, t \in Thresholds, active \in BOOLEAN :
          Alerting!Check(j, "update", a,
            [config[a] EXCEPT !.type = y, !.th = t, !.active = active])
    BY <1>3 DEF Alerting!Update
  <2>. DEFINE to == [config[a] EXCEPT !.type = y, !.th = t, !.active = active]
  <2>2. to \in Docs /\ Typed(to)
    BY DEF AlertShapes, Docs, Typed
  <2>. QED
    BY <1>1, <2>1, <2>2
<1>4. CASE Alerting!Write(j)
  <2>. DEFINE a == job[j].do.alert
              d == [job[j].do.to EXCEPT !.note = config[a].note]
              q == [job[j] EXCEPT !.do = [Alerting!NoJob EXCEPT !.step = "changed"]]
  <2>1. a \in Alerts /\ d \in Docs /\ Typed(d)
    <3>1. a \in Alerts /\ Typed(job[j].do.to)
      BY <1>4 DEF Alerting!Write, AlertShapes
    <3>2. job[j].do.to \in Docs /\ config[a].note \in Notes
      BY <3>1 DEF AlertShapes, AlertJobs, Dos, Docs
    <3>. HIDE DEF a
    <3>. QED
      BY <3>1, <3>2 DEF Docs, Typed
  <2>2. q \in AlertJobs /\ q.do.step = "changed"
    BY NothingHasShape DEF AlertShapes, AlertJobs, Dos
  <2>3. job' = [job EXCEPT ![j] = q]
    BY <1>4 DEF Alerting!Write
  <2>4. config' = config \/ config' = [config EXCEPT ![a] = d]
    BY <1>4 DEF Alerting!Write
  <2>5. UNCHANGED <<matching, ack, rows, listed, script, clock>>
    BY <1>4 DEF Alerting!Write, Alerting!aggregates
  <2>. HIDE DEF a, d, q
  <2>6. config' \in [Alerts -> Docs] /\ \A b \in Alerts : Typed(config'[b])
    BY <2>1, <2>4 DEF AlertShapes
  <2>. QED
    BY <2>2, <2>3, <2>5, <2>6 DEF AlertShapes, Alerting!Checked, Alerting!Requests
<1>5. CASE Alerting!Remove(j)
  <2>. DEFINE q == [job[j] EXCEPT !.do.step = "changed"]
  <2>1. q \in AlertJobs /\ q.do.step = "changed"
    BY DEF AlertShapes, AlertJobs, Dos
  <2>2. job' = [job EXCEPT ![j] = q]
    BY <1>5 DEF Alerting!Remove, AlertShapes, AlertJobs
  <2>3. UNCHANGED <<matching, ack, rows, listed, script, clock>>
    BY <1>5 DEF Alerting!Remove, Alerting!aggregates
  <2>4. config' \in [Alerts -> Docs] /\ \A b \in Alerts : Typed(config'[b])
    BY <1>5, NothingHasShape DEF AlertShapes, Alerting!Remove
  <2>. HIDE DEF q
  <2>. QED
    BY <2>1, <2>2, <2>3, <2>4 DEF AlertShapes, Alerting!Checked, Alerting!Requests
<1>. QED
  BY <1>2, <1>3, <1>4, <1>5

LEMMA RebuildShape ==
  ASSUME AlertsAssumption, AlertShapes, NEW j \in Jobs,
         \/ Alerting!RefreshStarts(j) \/ Alerting!RefreshLocks(j)
         \/ Alerting!RefreshCommits(j) \/ Alerting!RefreshFails(j)
  PROVE  AlertShapes'
<1>. USE DEF Alerting!Step
<1>j. job[j] \in AlertJobs /\ job \in [Jobs -> AlertJobs]
  BY DEF AlertShapes
<1>1. CASE Alerting!RefreshStarts(j)
  <2>. DEFINE q == [job[j] EXCEPT !.do.step = "started", !.sums.at = clock']
  <2>1. clock' \in Nat
    BY <1>1 DEF Alerting!RefreshStarts, Alerting!Now, AlertShapes
  <2>2. q \in AlertJobs /\ q.do.step = "started"
    BY <1>j, <2>1 DEF AlertJobs, Dos, Sums
  <2>3. job' = [job EXCEPT ![j] = q]
    BY <1>1, <1>j DEF Alerting!RefreshStarts, AlertJobs
  <2>4. UNCHANGED <<config, matching, ack, rows, listed, script>>
    BY <1>1 DEF Alerting!RefreshStarts, Alerting!aggregates
  <2>. HIDE DEF q
  <2>. QED
    BY <1>j, <2>1, <2>2, <2>3, <2>4, RequestKeepsShape DEF AlertShapes
<1>2. CASE Alerting!RefreshLocks(j)
  <2>. DEFINE at == job[j].sums.at
              solo  == Alerting!Holders = {} /\ script = Alerting!NoScript
              q == [Alerting!Disturbed(job)[j] EXCEPT
                      !.do.step = "locked",
                      !.sums = [at |-> at, rows |-> Alerting!RowsAt(at), alone |-> solo]]
  <2>1. at \in Nat /\ solo \in BOOLEAN
    BY <1>j DEF AlertJobs, Sums
  <2>2. [at |-> at, rows |-> Alerting!RowsAt(at), alone |-> solo] \in Sums
    BY <2>1, RowsAtAreRows DEF Sums
  <2>3. q \in AlertJobs /\ q.do.step = "locked"
    BY <2>2, DisturbedHasShape DEF AlertJobs, Dos
  <2>4. job' = [Alerting!Disturbed(job) EXCEPT ![j] = q]
    BY <1>2, DisturbedHasShape DEF Alerting!RefreshLocks, AlertJobs
  <2>5. UNCHANGED <<config, matching, ack, rows, listed, clock>> /\ script' \in Scripts
    BY <1>2, DisturbedHasShape DEF Alerting!RefreshLocks
  <2>. HIDE DEF q
  <2>. QED
    BY <2>3, <2>4, <2>5, DisturbedHasShape, RequestKeepsShape DEF AlertShapes
<1>. DEFINE q == [do |-> Alerting!NoJob, sums |-> Alerting!NoSums]
<1>q. q \in AlertJobs /\ q.do.step = "idle"
  BY NothingHasShape DEF AlertJobs
<1>. HIDE DEF q
<1>3. CASE Alerting!RefreshCommits(j)
  <2>1. job[j].sums.rows \subseteq SumRows
    BY <1>j DEF AlertJobs, Sums
  <2>2. rows' \subseteq SumRows /\ job' = [job EXCEPT ![j] = q]
    BY <1>3, <2>1 DEF Alerting!RefreshCommits, q
  <2>3. listed' \in [Types -> SUBSET Nat]
    BY <1>3, <2>1 DEF Alerting!RefreshCommits, SumRows
  <2>4. UNCHANGED <<config, matching, script, ack, clock>>
    BY <1>3 DEF Alerting!RefreshCommits
  <2>. QED
    BY <1>j, <1>q, <2>2, <2>3, <2>4, RequestKeepsShape DEF AlertShapes
<1>4. CASE Alerting!RefreshFails(j)
  <2>1. job' = [Alerting!Disturbed(job) EXCEPT ![j] = q]
    BY <1>4 DEF Alerting!RefreshFails, q
  <2>2. UNCHANGED <<config, matching, rows, listed, ack, clock>> /\ script' \in Scripts
    BY <1>4, DisturbedHasShape DEF Alerting!RefreshFails
  <2>. QED
    BY <1>q, <2>1, <2>2, DisturbedHasShape, RequestKeepsShape DEF AlertShapes
<1>. QED
  BY <1>1, <1>2, <1>3, <1>4

LEMMA BatchShape ==
  ASSUME AlertsAssumption, AlertShapes,
         \/ Alerting!ScriptReads \/ Alerting!ScriptClears \/ Alerting!ScriptDrops
         \/ Alerting!ScriptLists \/ Alerting!ScriptSums \/ Alerting!ScriptDies
  PROVE  AlertShapes'
<1>. USE DEF Alerting!unscripted
<1>j. job \in [Jobs -> AlertJobs]
  BY DEF AlertShapes
<1>s. script.sums \in Sums /\ script.sums.rows \subseteq SumRows
  BY DEF AlertShapes, Scripts, Sums
<1>1. CASE Alerting!ScriptReads
  <2>1. clock' \in Nat
    BY <1>1 DEF Alerting!ScriptReads, Alerting!Now, AlertShapes
  <2>2. script' \in Scripts
    <3>1. Alerting!RowsAt(clock') \subseteq SumRows /\ (Alerting!Holders = {}) \in BOOLEAN
      BY <2>1, RowsAtAreRows
    <3>. QED
      BY <1>1, <2>1, <3>1 DEF Alerting!ScriptReads, Scripts, Sums
  <2>3. UNCHANGED <<config, matching, ack, rows, listed>> /\ job' = Alerting!Disturbed(job)
    BY <1>1 DEF Alerting!ScriptReads
  <2>. QED
    BY <2>1, <2>2, <2>3, DisturbedHasShape, OthersKeepShape DEF AlertShapes
<1>2. CASE Alerting!ScriptClears
  <2>1. script' \in Scripts
    BY <1>2, <1>s DEF Alerting!ScriptClears, Scripts, AlertShapes
  <2>. QED
    BY <1>2, <1>j, <2>1, OthersKeepShape DEF AlertShapes, Alerting!ScriptClears
<1>3. CASE Alerting!ScriptDrops
  <2>1. script' \in Scripts
    BY <1>3, <1>s DEF Alerting!ScriptDrops, Scripts, AlertShapes
  <2>2. listed' \in [Types -> SUBSET Nat]
    BY <1>3 DEF Alerting!ScriptDrops
  <2>. QED
    BY <1>3, <1>j, <2>1, <2>2, OthersKeepShape DEF AlertShapes, Alerting!ScriptDrops
<1>4. CASE Alerting!ScriptLists
  <2>1. script' \in Scripts
    BY <1>4, <1>s DEF Alerting!ScriptLists, Scripts, AlertShapes
  <2>2. listed' \in [Types -> SUBSET Nat]
    BY <1>4, <1>s DEF Alerting!ScriptLists, AlertShapes, SumRows
  <2>. QED
    BY <1>4, <1>j, <2>1, <2>2, OthersKeepShape DEF AlertShapes, Alerting!ScriptLists
<1>5. CASE Alerting!ScriptSums
  <2>1. rows' \subseteq SumRows /\ script' \in Scripts
    BY <1>5, <1>s, NothingHasShape DEF Alerting!ScriptSums, AlertShapes
  <2>. QED
    BY <1>5, <1>j, <2>1, OthersKeepShape DEF AlertShapes, Alerting!ScriptSums
<1>6. CASE Alerting!ScriptDies
  <2>1. script' \in Scripts
    BY <1>6, NothingHasShape DEF Alerting!ScriptDies
  <2>. QED
    BY <1>6, <1>j, <2>1, OthersKeepShape DEF AlertShapes, Alerting!ScriptDies
<1>. QED
  BY <1>1, <1>2, <1>3, <1>4, <1>5, <1>6

LEMMA ManagerShape ==
  ASSUME AlertsAssumption, AlertShapes,
         Alerting!AckReads \/ Alerting!AckSees \/ Alerting!AckSaves
  PROVE  AlertShapes'
<1>. USE DEF Alerting!shared
<1>j. job \in [Jobs -> AlertJobs]
  BY DEF AlertShapes
<1>a. ack.note \in Notes
  BY DEF AlertShapes, Acks
<1>1. CASE Alerting!AckReads
  <2>1. PICK a \in Alerting!Active :
          ack' = [step |-> "read", alert |-> a,
                  note |-> [Alerting!NoNote EXCEPT !.type = config[a].type]]
    BY <1>1 DEF Alerting!AckReads
  <2>2. a \in Alerts /\ config[a].type \in Types \cup {"none"}
    BY DEF Alerting!Active, AlertShapes, Docs
  <2>3. [Alerting!NoNote EXCEPT !.type = config[a].type] \in Notes
    BY <2>2, NothingHasShape DEF Notes
  <2>4. ack' \in Acks /\ ack'.alert \in Alerts
    BY <2>1, <2>2, <2>3 DEF Acks
  <2>. QED
    BY <1>1, <1>j, <2>4, OthersKeepShape DEF AlertShapes, Alerting!AckReads
<1>2. CASE Alerting!AckSees
  <2>1. ack' \in Acks /\ (ack'.step # "idle" => ack'.alert \in Alerts)
    <3>1. CASE ack' = Alerting!NoAck
      BY <3>1, NothingHasShape
    <3>2. ASSUME NEW r \in Alerting!Latest(ack.note.type),
                 ack' = [ack EXCEPT !.step = "seen", !.note.at = r.at, !.note.count = r.count]
          PROVE  ack' \in Acks /\ (ack'.step # "idle" => ack'.alert \in Alerts)
      <4>1. r \in SumRows
        BY DEF Alerting!Latest, AlertShapes
      <4>2. r.at \in Nat /\ r.count \in Nat
        BY <4>1 DEF SumRows, AlertsAssumption
      <4>. QED
        BY <1>2, <1>a, <3>2, <4>2 DEF Alerting!AckSees, AlertShapes, Acks, Notes
    <3>. QED
      BY <1>2, <3>1, <3>2 DEF Alerting!AckSees
  <2>. QED
    BY <1>2, <1>j, <2>1, OthersKeepShape DEF AlertShapes, Alerting!AckSees
<1>3. CASE Alerting!AckSaves
  <2>1. config' \in [Alerts -> Docs] /\ \A a \in Alerts : Typed(config'[a])
    BY <1>3, <1>a DEF Alerting!AckSaves, AlertShapes, Docs, Typed
  <2>. QED
    BY <1>3, <1>j, <2>1, NothingHasShape, OthersKeepShape DEF AlertShapes, Alerting!AckSaves
<1>. QED
  BY <1>1, <1>2, <1>3

LEMMA NextAlertShapes ==
  ASSUME AlertsAssumption, AlertShapes, [Alerting!Next]_alertsVars
  PROVE  AlertShapes'
<1>1. CASE UNCHANGED alertsVars
  BY <1>1 DEF alertsVars, AlertShapes, Alerting!Checked, Alerting!Requests, Alerting!Step, Typed
<1>2. ASSUME NEW y \in Types, Alerting!EmployeesChange(y)
      PROVE  AlertShapes'
  <2>1. job \in [Jobs -> AlertJobs]
    BY DEF AlertShapes
  <2>. QED
    BY <1>2, <2>1, OthersKeepShape DEF AlertShapes, Alerting!EmployeesChange
<1>. QED
  BY <1>1, <1>2, RequestShape, RebuildShape, BatchShape, ManagerShape DEF Alerting!Next

(***************************************************************************)
(* One active alert per type.  Until two requests have raced, at most one  *)
(* is between its look for another active alert and its write, and what it *)
(* found still holds: nothing but its own write makes an alert active.     *)
(***************************************************************************)
OneActive ==
  \A a, b \in Alerting!Active : a # b => config[a].type # config[b].type

CheckStillHolds ==
  \A j \in Alerting!Checked :
    /\ Alerting!MayBecome(job[j].do.alert, job[j].do.to)
    /\ \A k \in Alerting!Checked : k = j

OneActiveInv == "raced" \notin odd => OneActive /\ CheckStillHolds

\* A step that makes no alert active and checks nothing.
LEMMA ActiveKept ==
  ASSUME OneActiveInv, odd \subseteq odd',
         \A a \in Alerts : config'[a].active =>
           config[a].active /\ config'[a].type = config[a].type,
         \A j \in Jobs : job'[j].do.step \in {"create", "update"} => job'[j].do = job[j].do
  PROVE  OneActiveInv'
<1>. USE DEF Alerting!Active, Alerting!Checked, Alerting!Requests, Alerting!Step
<1>1. OneActive => OneActive'
  BY DEF OneActive
<1>2. CheckStillHolds => CheckStillHolds'
  BY DEF CheckStillHolds, Alerting!MayBecome, Alerting!Taken
<1>. QED
  BY <1>1, <1>2 DEF OneActiveInv

LEMMA CheckKeepsOne ==
  ASSUME AlertShapes, OneActiveInv, NEW j \in Jobs, NEW step, NEW a, NEW to,
         Alerting!Check(j, step, a, to)
  PROVE  OneActiveInv'
<1>. USE DEF Alerting!Check, Alerting!Checked, Alerting!Requests, Alerting!Step, Alerting!Active
<1>1. \A k \in Jobs : job'[k].do = IF k = j THEN [step |-> step, alert |-> a, to |-> to]
                                   ELSE job[k].do
  BY DEF AlertShapes
<1>2. CASE Alerting!Checked # {}
  BY <1>2 DEF OneActiveInv
<1>3. CASE Alerting!Checked = {}
  <2>1. OneActive => OneActive'
    BY DEF OneActive
  <2>2. \A k \in Alerting!Checked' : k = j
    BY <1>1, <1>3
  <2>3. CheckStillHolds'
    BY <1>1, <2>2 DEF CheckStillHolds, Alerting!MayBecome, Alerting!Taken
  <2>. QED
    BY <1>3, <2>1, <2>3 DEF OneActiveInv
<1>. QED
  BY <1>2, <1>3

LEMMA WriteKeepsOne ==
  ASSUME AlertShapes, OneActiveInv, NEW j \in Jobs, Alerting!Write(j)
  PROVE  OneActiveInv'
<1>. USE DEF Alerting!Checked, Alerting!Requests, Alerting!Step
<1>. DEFINE a == job[j].do.alert
            to == job[j].do.to
            d == [to EXCEPT !.note = config[a].note]
<1>j. j \in Alerting!Checked /\ a \in Alerts /\ to \in Docs
  <2>1. j \in Alerting!Checked
    BY DEF Alerting!Write
  <2>. QED
    BY <2>1 DEF AlertShapes, AlertJobs, Dos
<1>1. d.active = to.active /\ d.type = to.type
  BY <1>j DEF Docs
<1>2. config' = config \/ config' = [config EXCEPT ![a] = d]
  BY DEF Alerting!Write
<1>3. \A k \in Jobs : job'[k].do.step \in {"create", "update"} => k # j /\ job'[k] = job[k]
  BY NothingHasShape DEF Alerting!Write, AlertShapes, Dos
<1>4. odd' = odd
  BY DEF Alerting!Write
<1>. HIDE DEF d
<1>5. ASSUME OneActive, CheckStillHolds
      PROVE  OneActive' /\ CheckStillHolds'
  <2>1. Alerting!Checked' = {}
    BY <1>3, <1>5, <1>j DEF CheckStillHolds
  <2>2. to.active => \A b \in Alerts : config[b].active /\ b # a => config[b].type # to.type
    BY <1>5, <1>j DEF CheckStillHolds, Alerting!MayBecome, Alerting!Taken, Alerting!Active
  <2>3. OneActive'
    BY <1>5, <1>j, <1>1, <1>2, <2>2 DEF OneActive, Alerting!Active, AlertShapes
  <2>. QED
    BY <2>1, <2>3 DEF CheckStillHolds
<1>. QED
  BY <1>4, <1>5 DEF OneActiveInv

LEMMA NextKeepsOne ==
  ASSUME AlertShapes, OneActiveInv, [Alerting!Next]_alertsVars
  PROVE  OneActiveInv'
<1>. USE DEF Alerting!Step
<1>j. job \in [Jobs -> AlertJobs] /\ config \in [Alerts -> Docs]
  BY DEF AlertShapes
<1>1. CASE UNCHANGED alertsVars
  BY <1>1, ActiveKept DEF alertsVars
<1>2. ASSUME NEW y \in Types, Alerting!EmployeesChange(y)
      PROVE  OneActiveInv'
  BY <1>2, ActiveKept DEF Alerting!EmployeesChange
<1>3. ASSUME NEW j \in Jobs, Alerting!Create(j) \/ Alerting!Update(j) \/ Alerting!Write(j)
      PROVE  OneActiveInv'
  BY <1>3, CheckKeepsOne, WriteKeepsOne DEF Alerting!Create, Alerting!Update
<1>4. ASSUME NEW j \in Jobs, Alerting!Remove(j)
      PROVE  OneActiveInv'
  <2>1. \A k \in Jobs : job'[k].do.step \in {"create", "update"} => job'[k].do = job[k].do
    BY <1>4, <1>j DEF Alerting!Remove, AlertJobs, Dos
  <2>2. \A a \in Alerts : config'[a].active => config'[a] = config[a]
    BY <1>4, <1>j DEF Alerting!Remove, Alerting!NoRow
  <2>. QED
    BY <1>4, <2>1, <2>2, ActiveKept DEF Alerting!Remove
<1>5. ASSUME NEW j \in Jobs,
             \/ Alerting!RefreshStarts(j) \/ Alerting!RefreshLocks(j)
             \/ Alerting!RefreshCommits(j) \/ Alerting!RefreshFails(j)
      PROVE  OneActiveInv'
  <2>1. \A k \in Jobs : job'[k].do.step \in {"create", "update"} => job'[k].do = job[k].do
    <3>1. \A k \in Jobs \ {j} : job'[k].do = job[k].do
      BY <1>5, <1>j, DisturbedHasShape
         DEF Alerting!RefreshStarts, Alerting!RefreshLocks, Alerting!RefreshCommits,
             Alerting!RefreshFails
    <3>2. job'[j].do.step \notin {"create", "update"}
      <4>1. CASE Alerting!RefreshStarts(j)
        BY <4>1, <1>j DEF Alerting!RefreshStarts, AlertJobs, Dos
      <4>2. CASE Alerting!RefreshLocks(j)
        BY <4>2, DisturbedHasShape DEF Alerting!RefreshLocks, AlertJobs, Dos
      <4>3. CASE Alerting!RefreshCommits(j) \/ Alerting!RefreshFails(j)
        BY <4>3, <1>j, DisturbedHasShape, NothingHasShape
           DEF Alerting!RefreshCommits, Alerting!RefreshFails
      <4>. QED
        BY <1>5, <4>1, <4>2, <4>3
    <3>. QED
      BY <3>1, <3>2
  <2>2. config' = config /\ odd \subseteq odd'
    BY <1>5 DEF Alerting!RefreshStarts, Alerting!RefreshLocks, Alerting!RefreshCommits,
                Alerting!RefreshFails
  <2>. QED
    BY <2>1, <2>2, ActiveKept
<1>6. ASSUME \/ Alerting!ScriptReads \/ Alerting!ScriptClears \/ Alerting!ScriptDrops
             \/ Alerting!ScriptLists \/ Alerting!ScriptSums \/ Alerting!ScriptDies
      PROVE  OneActiveInv'
  <2>1. \A k \in Jobs : job'[k].do = job[k].do
    BY <1>6, DisturbedHasShape DEF Alerting!ScriptReads, Alerting!ScriptClears, Alerting!ScriptDrops,
       Alerting!ScriptLists, Alerting!ScriptSums, Alerting!ScriptDies
  <2>2. config' = config /\ odd \subseteq odd'
    BY <1>6 DEF Alerting!ScriptReads, Alerting!ScriptClears, Alerting!ScriptDrops,
       Alerting!ScriptLists, Alerting!ScriptSums, Alerting!ScriptDies, Alerting!unscripted
  <2>. QED
    BY <2>1, <2>2, ActiveKept
<1>7. ASSUME Alerting!AckReads \/ Alerting!AckSees \/ Alerting!AckSaves
      PROVE  OneActiveInv'
  <2>1. job' = job /\ odd \subseteq odd'
    BY <1>7 DEF Alerting!AckReads, Alerting!AckSees, Alerting!AckSaves, Alerting!shared
  <2>2. config' = config \/ config' = [config EXCEPT ![ack.alert].note = ack.note]
    BY <1>7 DEF Alerting!AckReads, Alerting!AckSees, Alerting!AckSaves
  <2>3. \A a \in Alerts : config'[a].active = config[a].active /\ config'[a].type = config[a].type
    BY <1>j, <2>2 DEF Docs
  <2>. QED
    BY <2>1, <2>3, ActiveKept
<1>. QED
  BY <1>1, <1>2, <1>3, <1>4, <1>5, <1>6, <1>7 DEF Alerting!Next

(***************************************************************************)
(* Of two active alerts none has the other's type, for any number of       *)
(* alerts, types and requests, unless two requests looked before either    *)
(* had written.                                                            *)
(***************************************************************************)
THEOREM OneAlertPerType == AlertsAssumption => (ServiceSpec => []OneActivePerType)
<1>. SUFFICES ASSUME AlertsAssumption PROVE ServiceSpec => []OneActivePerType
  OBVIOUS
<1>. DEFINE I == part = "alerts" => AlertShapes /\ OneActiveInv
<1>1. ServiceInit => I
  <2>1. Alerting!Init => OneActiveInv
    BY DEF Alerting!Init, Alerting!NoRow, Alerting!NoJob, OneActiveInv, OneActive, CheckStillHolds,
           Alerting!Active, Alerting!Checked, Alerting!Requests, Alerting!Step
  <2>. QED
    BY <2>1, InitAlertShapes DEF ServiceInit, Begins
<1>2. I /\ [ServiceNext]_serviceVars => I'
  BY OnePartRuns, NextAlertShapes, NextKeepsOne
<1>3. I => OneActivePerType
  BY DEF OneActivePerType, Alerting!OneActivePerType, OneActiveInv, OneActive
<1>. QED
  BY <1>1, <1>2, <1>3, PTL DEF ServiceSpec

(***************************************************************************)
(* Rows and lists follow the active alerts.  Who changes the configuration *)
(* has a rebuild to come, and computes its rows after it has kept every    *)
(* other from beginning one; where two met, both end as upset.             *)
(***************************************************************************)
Changing == \E j \in Jobs : job[j].do.step \in {"changed", "started"}
Locked(j) == job[j].do.step = "locked"
Quiet == /\ ~ upset /\ ~ Changing /\ Alerting!Holders = {} /\ script = Alerting!NoScript

Follow(R) ==
  \A r \in R : config[r.of].active /\ r.type = config[r.of].type /\ r.th = config[r.of].th
ListedOf(R) == [y \in Types |-> {r.at : r \in {q \in R : q.type = y}}]

Timed(sums) == sums.at > 0 /\ \A r \in sums.rows : r.at = sums.at

RowTimes ==
  /\ clock > 0 /\ \A r \in rows : r.at > 0
  /\ \A j \in Jobs : /\ job[j].do.step = "started" => job[j].sums.at > 0
                     /\ Locked(j) => Timed(job[j].sums)
  /\ script.step # "idle" => Timed(script.sums)

RowsFollow == Quiet => Follow(rows) /\ listed = ListedOf(rows)

LoneRebuild ==
  \A j \in Jobs : Locked(j) /\ job[j].sums.alone =>
    /\ Alerting!Holders = {j} /\ script = Alerting!NoScript
    /\ ~ Changing => Follow(job[j].sums.rows)

LoneBatch ==
  script.step # "idle" /\ script.sums.alone =>
    /\ Alerting!Holders = {}
    /\ ~ Changing => Follow(script.sums.rows)
    /\ script.step # "read" => rows = {}
    /\ script.step = "dropped" => listed = ListedOf({})
    /\ script.step = "listed" => listed = ListedOf(script.sums.rows)

FollowInv == RowTimes /\ RowsFollow /\ LoneRebuild /\ LoneBatch

LEMMA RowsAtFollow ==
  ASSUME NEW at
  PROVE  Follow(Alerting!RowsAt(at)) /\ \A r \in Alerting!RowsAt(at) : r.at = at
BY DEF Follow, Alerting!RowsAt, Alerting!Active

LEMMA HeldByWhoLocked ==
  ASSUME NEW j \in Jobs
  PROVE  j \in Alerting!Holders <=> Locked(j)
BY DEF Alerting!Holders, Alerting!Requests, Alerting!Step, Locked

\* A step that changes neither rows nor lists, nor what they should show,
\* nor how far a rebuild is.
LEMMA FollowKept ==
  ASSUME AlertShapes, FollowInv,
         UNCHANGED <<rows, listed, script, upset, clock>>,
         \A a \in Alerts : /\ config'[a].active = config[a].active
                           /\ config'[a].type = config[a].type /\ config'[a].th = config[a].th,
         \A j \in Jobs : /\ job'[j].sums = job[j].sums
                         /\ \A step \in {"changed", "started", "locked"} :
                              job'[j].do.step = step <=> job[j].do.step = step
  PROVE  FollowInv'
<1>1. /\ Changing' <=> Changing
      /\ Alerting!Holders' = Alerting!Holders
      /\ \A j \in Jobs : Locked(j)' <=> Locked(j)
  BY DEF Changing, Locked, Alerting!Holders, Alerting!Requests, Alerting!Step
<1>2. /\ rows \subseteq SumRows /\ script.sums.rows \subseteq SumRows
      /\ \A j \in Jobs : job[j].sums.rows \subseteq SumRows
  BY DEF AlertShapes, AlertJobs, Scripts, Sums
<1>3. ASSUME NEW R, R \subseteq SumRows, Follow(R)
      PROVE  \A r \in R : /\ config'[r.of].active
                          /\ r.type = config'[r.of].type /\ r.th = config'[r.of].th
  BY <1>3 DEF Follow, SumRows
<1>4. RowTimes'
  BY <1>1 DEF FollowInv, RowTimes, Timed
<1>5. RowsFollow'
  BY <1>1, <1>2, <1>3 DEF FollowInv, RowsFollow, Quiet, Follow, ListedOf
<1>6. LoneRebuild'
  <2>1. ASSUME NEW j \in Jobs, Locked(j)', job'[j].sums.alone
        PROVE  /\ Alerting!Holders' = {j} /\ script' = Alerting!NoScript
               /\ ~ Changing' => Follow(job[j].sums.rows)
    BY <1>1, <2>1 DEF FollowInv, LoneRebuild
  <2>2. ASSUME NEW j \in Jobs, Follow(job[j].sums.rows)
        PROVE  Follow(job[j].sums.rows)'
    BY <1>2, <1>3, <2>2 DEF Follow
  <2>. QED
    BY <2>1, <2>2 DEF LoneRebuild
<1>7. LoneBatch'
  <2>1. Follow(script.sums.rows) => Follow(script.sums.rows)'
    BY <1>2, <1>3 DEF Follow
  <2>. QED
    BY <1>1, <2>1 DEF FollowInv, LoneBatch, ListedOf
<1>. QED
  BY <1>4, <1>5, <1>6, <1>7 DEF FollowInv

\* A step after which a rebuild is to come: what is shown may be old.
LEMMA FollowLater ==
  ASSUME FollowInv, Changing', clock' > 0,
         UNCHANGED <<rows, listed, script>>,
         \A j \in Jobs : /\ Locked(j)' <=> Locked(j)
                         /\ Locked(j) => job'[j].sums = job[j].sums
                         /\ job'[j].do.step = "started" => job'[j].sums.at > 0
  PROVE  FollowInv'
<1>1. Alerting!Holders' = Alerting!Holders
  BY HeldByWhoLocked DEF Locked, Alerting!Holders, Alerting!Requests, Alerting!Step
<1>2. RowTimes'
  BY DEF FollowInv, RowTimes, Timed
<1>3. RowsFollow'
  BY DEF RowsFollow, Quiet
<1>4. LoneRebuild'
  BY <1>1 DEF FollowInv, LoneRebuild
<1>5. LoneBatch'
  BY <1>1 DEF FollowInv, LoneBatch, ListedOf
<1>. QED
  BY <1>2, <1>3, <1>4, <1>5 DEF FollowInv

LEMMA RequestsFollow ==
  ASSUME AlertsAssumption, AlertShapes, FollowInv, NEW j \in Jobs,
         \/ Alerting!Create(j) \/ Alerting!Update(j) \/ Alerting!Write(j) \/ Alerting!Remove(j)
         \/ Alerting!RefreshStarts(j)
  PROVE  FollowInv'
<1>. USE DEF Alerting!Step
<1>j. job \in [Jobs -> AlertJobs] /\ job[j] \in AlertJobs /\ clock \in Nat /\ clock > 0
  BY DEF AlertShapes, FollowInv, RowTimes
<1>1. ASSUME NEW step \in {"create", "update"}, NEW a, NEW to, Alerting!Check(j, step, a, to)
      PROVE  FollowInv'
  <2>1. \A k \in Jobs : /\ job'[k].sums = job[k].sums
                        /\ k # j => job'[k].do = job[k].do
    BY <1>1, <1>j DEF Alerting!Check, AlertJobs
  <2>2. job[j].do.step = "idle" /\ job'[j].do.step = step
    BY <1>1, <1>j DEF Alerting!Check, AlertJobs
  <2>. QED
    BY <1>1, <2>1, <2>2, FollowKept DEF Alerting!Check, Alerting!aggregates
<1>2. CASE Alerting!Create(j) \/ Alerting!Update(j)
  BY <1>1, <1>2 DEF Alerting!Create, Alerting!Update
<1>3. ASSUME job[j].do.step # "locked",
             job'[j].do.step \in {"changed", "started"},
             job'[j].do.step = "started" => job'[j].sums.at > 0,
             \A k \in Jobs \ {j} : job'[k] = job[k],
             clock' > 0, UNCHANGED <<rows, listed, script>>
      PROVE  FollowInv'
  BY <1>3, FollowLater DEF Changing, Locked, FollowInv, RowTimes
<1>4. CASE Alerting!Write(j)
  <2>1. job[j].do.step # "locked"
    BY <1>4 DEF Alerting!Write, Alerting!Checked, Alerting!Requests
  <2>2. job'[j].do.step = "changed" /\ \A k \in Jobs \ {j} : job'[k] = job[k]
    BY <1>4, <1>j, NothingHasShape DEF Alerting!Write, AlertJobs, Dos
  <2>. QED
    BY <1>4, <1>3, <1>j, <2>1, <2>2 DEF Alerting!Write, Alerting!aggregates
<1>5. CASE Alerting!Remove(j)
  <2>1. job[j].do.step # "locked"
    BY <1>5 DEF Alerting!Remove
  <2>2. job'[j].do.step = "changed" /\ \A k \in Jobs \ {j} : job'[k] = job[k]
    BY <1>5, <1>j DEF Alerting!Remove, AlertJobs, Dos
  <2>. QED
    BY <1>5, <1>3, <1>j, <2>1, <2>2 DEF Alerting!Remove, Alerting!aggregates
<1>6. CASE Alerting!RefreshStarts(j)
  <2>1. job[j].do.step # "locked" /\ clock' > 0
    BY <1>6, <1>j DEF Alerting!RefreshStarts, Alerting!Now
  <2>2. /\ job'[j].do.step = "started" /\ job'[j].sums.at = clock'
        /\ \A k \in Jobs \ {j} : job'[k] = job[k]
    BY <1>6, <1>j DEF Alerting!RefreshStarts, AlertJobs, Dos, Sums
  <2>. QED
    BY <1>6, <1>3, <2>1, <2>2 DEF Alerting!RefreshStarts, Alerting!aggregates
<1>. QED
  BY <1>2, <1>4, <1>5, <1>6

\* Whoever is disturbed is not alone, and writes what it would have written.
LEMMA OthersDisturbed ==
  ASSUME AlertShapes, FollowInv, NEW j \in Jobs,
         \A k \in Jobs \ {j} : job'[k] = Alerting!Disturbed(job)[k],
         script' = Alerting!DisturbedScript
  PROVE  /\ \A k \in Jobs \ {j} :
              /\ job'[k].do = job[k].do
              /\ Locked(k) => ~ job'[k].sums.alone /\ Timed(job'[k].sums)
              /\ ~ Locked(k) => job'[k] = job[k]
         /\ script = Alerting!NoScript => script' = script
         /\ script'.step = script.step
         /\ script.step # "idle" => ~ script'.sums.alone /\ Timed(script'.sums)
<1>1. ASSUME NEW sums \in Sums, Timed(sums)
      PROVE  ~ [sums EXCEPT !.alone = FALSE].alone /\ Timed([sums EXCEPT !.alone = FALSE])
  BY <1>1 DEF Sums, Timed
<1>2. ASSUME NEW k \in Jobs \ {j}
      PROVE  /\ job'[k].do = job[k].do
             /\ Locked(k) => ~ job'[k].sums.alone /\ Timed(job'[k].sums)
             /\ ~ Locked(k) => job'[k] = job[k]
  <2>1. job'[k].do = job[k].do
    BY DisturbedHasShape
  <2>2. job[k].sums \in Sums
    BY DEF AlertShapes, AlertJobs
  <2>3. CASE Locked(k)
    <3>1. job'[k] = [job[k] EXCEPT !.sums.alone = FALSE]
      BY <2>3, HeldByWhoLocked DEF Alerting!Disturbed
    <3>2. job'[k].sums = [job[k].sums EXCEPT !.alone = FALSE]
      BY <3>1 DEF AlertShapes, AlertJobs
    <3>3. Timed(job[k].sums)
      BY <2>3 DEF FollowInv, RowTimes
    <3>. QED
      BY <1>1, <2>1, <2>2, <2>3, <3>2, <3>3
  <2>4. CASE ~ Locked(k)
    BY <2>1, <2>4, HeldByWhoLocked DEF Alerting!Disturbed
  <2>. QED
    BY <2>3, <2>4
<1>3. /\ script = Alerting!NoScript => script' = script
      /\ script'.step = script.step
  BY DEF Alerting!DisturbedScript, AlertShapes, Scripts
<1>4. ASSUME script.step # "idle"
      PROVE  ~ script'.sums.alone /\ Timed(script'.sums)
  <2>1. script.sums \in Sums /\ Timed(script.sums)
    BY <1>4 DEF AlertShapes, Scripts, FollowInv, RowTimes
  <2>2. script'.sums = [script.sums EXCEPT !.alone = FALSE]
    BY <1>4, NothingHasShape DEF Alerting!DisturbedScript, AlertShapes, Scripts
  <2>. QED
    BY <1>1, <2>1, <2>2
<1>. QED
  BY <1>2, <1>3, <1>4

LEMMA LockingFollows ==
  ASSUME AlertsAssumption, AlertShapes, FollowInv, NEW j \in Jobs, Alerting!RefreshLocks(j)
  PROVE  FollowInv'
<1>. DEFINE at == job[j].sums.at
            solo  == Alerting!Holders = {} /\ script = Alerting!NoScript
<1>1. /\ job'[j].do.step = "locked"
      /\ job'[j].sums = [at |-> at, rows |-> Alerting!RowsAt(at), alone |-> solo]
      /\ \A k \in Jobs \ {j} : job'[k] = Alerting!Disturbed(job)[k]
  BY DisturbedHasShape DEF Alerting!RefreshLocks, AlertJobs, Dos
<1>2. at > 0 /\ ~ Locked(j)
  BY DEF Alerting!RefreshLocks, Alerting!Step, FollowInv, RowTimes, Locked
<1>3. /\ script' = Alerting!DisturbedScript
      /\ UNCHANGED <<config, rows, listed, upset, clock>>
  BY DEF Alerting!RefreshLocks
<1>. HIDE DEF at, solo
<1>4. /\ \A k \in Jobs \ {j} :
             /\ job'[k].do = job[k].do
             /\ Locked(k) => ~ job'[k].sums.alone /\ Timed(job'[k].sums)
             /\ ~ Locked(k) => job'[k] = job[k]
      /\ script = Alerting!NoScript => script' = script
      /\ script'.step = script.step
      /\ script.step # "idle" => ~ script'.sums.alone /\ Timed(script'.sums)
  BY <1>1, <1>3, OthersDisturbed
<1>5. Timed(job'[j].sums)
  BY <1>1, <1>2, RowsAtFollow DEF Timed
<1>6. \A k \in Jobs : k # j => (Locked(k)' <=> Locked(k))
  BY <1>4 DEF Locked
<1>7. RowTimes'
  <2>1. \A k \in Jobs : Locked(k)' => Timed(job'[k].sums)
    BY <1>4, <1>5, <1>6
  <2>2. \A k \in Jobs : job'[k].do.step = "started" => job'[k].sums.at > 0
    BY <1>1, <1>4 DEF Locked, FollowInv, RowTimes
  <2>. QED
    BY <1>3, <1>4, <2>1, <2>2 DEF FollowInv, RowTimes, Timed
<1>8. RowsFollow'
  <2>1. j \in Alerting!Holders'
    BY <1>1 DEF Alerting!Holders, Alerting!Requests, Alerting!Step
  <2>. QED
    BY <2>1 DEF RowsFollow, Quiet
<1>9. LoneRebuild'
  <2>1. ASSUME NEW k \in Jobs, Locked(k)', job'[k].sums.alone
        PROVE  /\ Alerting!Holders' = {k} /\ script' = Alerting!NoScript
               /\ ~ Changing' => Follow(job[k].sums.rows)'
    <3>1. k = j
      BY <2>1, <1>4, <1>6
    <3>2. Alerting!Holders = {} /\ script = Alerting!NoScript
      <4>1. job'[j].sums.alone = solo /\ solo \in BOOLEAN
        BY <1>1 DEF solo
      <4>2. job'[j].sums.alone
        BY <2>1, <3>1
      <4>3. solo
        BY <4>1, <4>2
      <4>. QED
        BY <4>3 DEF solo
    <3>3. Alerting!Holders' = {j}
      <4>1. \A i \in Jobs : job'[i].do.step = "locked" <=> i = j
        BY <1>1, <1>4, <3>2, HeldByWhoLocked DEF Locked
      <4>. QED
        BY <4>1 DEF Alerting!Holders, Alerting!Requests, Alerting!Step
    <3>4. Follow(job[j].sums.rows)'
      BY <1>1, <1>3, RowsAtFollow DEF Follow
    <3>. QED
      BY <1>4, <3>1, <3>2, <3>3, <3>4
  <2>. QED
    BY <2>1 DEF LoneRebuild
<1>10. LoneBatch'
  BY <1>4 DEF LoneBatch
<1>. QED
  BY <1>7, <1>8, <1>9, <1>10 DEF FollowInv

LEMMA CommitFollows ==
  ASSUME AlertsAssumption, AlertShapes, FollowInv, NEW j \in Jobs, Alerting!RefreshCommits(j)
  PROVE  FollowInv'
<1>1. Locked(j) /\ j \in Alerting!Holders
  BY HeldByWhoLocked DEF Alerting!RefreshCommits, Alerting!Step, Locked
<1>2. job' = [job EXCEPT ![j] = [do |-> Alerting!NoJob, sums |-> Alerting!NoSums]]
  BY DEF Alerting!RefreshCommits
<1>3. /\ job'[j].do.step = "idle"
      /\ \A k \in Jobs \ {j} : job'[k] = job[k]
  BY <1>2, NothingHasShape DEF AlertShapes
<1>4. /\ rows' = job[j].sums.rows /\ listed' = ListedOf(job[j].sums.rows)
      /\ upset' = ~ job[j].sums.alone
      /\ UNCHANGED <<config, script, clock>>
  BY DEF Alerting!RefreshCommits, ListedOf
<1>5. Changing' <=> Changing
  BY <1>1, <1>3 DEF Changing, Locked
<1>6. RowTimes'
  BY <1>1, <1>3, <1>4 DEF FollowInv, RowTimes, Timed, Locked
<1>7. RowsFollow'
  BY <1>1, <1>4, <1>5 DEF RowsFollow, Quiet, FollowInv, LoneRebuild, Follow, ListedOf
<1>8. LoneRebuild'
  BY <1>1, <1>3 DEF FollowInv, LoneRebuild, Locked
<1>9. LoneBatch'
  BY <1>1, <1>4 DEF FollowInv, LoneBatch
<1>. QED
  BY <1>6, <1>7, <1>8, <1>9 DEF FollowInv

LEMMA FailureFollows ==
  ASSUME AlertsAssumption, AlertShapes, FollowInv, NEW j \in Jobs, Alerting!RefreshFails(j)
  PROVE  FollowInv'
<1>1. job' = [Alerting!Disturbed(job) EXCEPT ![j] = [do |-> Alerting!NoJob, sums |-> Alerting!NoSums]]
  BY DEF Alerting!RefreshFails
<1>2. /\ job'[j].do.step = "idle"
      /\ \A k \in Jobs \ {j} : job'[k] = Alerting!Disturbed(job)[k]
  BY <1>1, NothingHasShape, DisturbedHasShape
<1>3. /\ script' = Alerting!DisturbedScript /\ upset' = TRUE
      /\ UNCHANGED <<config, rows, listed, clock>>
  BY DEF Alerting!RefreshFails
<1>4. /\ \A k \in Jobs \ {j} :
             /\ job'[k].do = job[k].do
             /\ Locked(k) => ~ job'[k].sums.alone /\ Timed(job'[k].sums)
             /\ ~ Locked(k) => job'[k] = job[k]
      /\ script'.step = script.step
      /\ script.step # "idle" => ~ script'.sums.alone /\ Timed(script'.sums)
  BY <1>2, <1>3, OthersDisturbed
<1>5. \A k \in Jobs : Locked(k)' => k # j /\ Locked(k)
  BY <1>2, <1>4 DEF Locked
<1>6. RowTimes'
  <2>1. \A k \in Jobs : Locked(k)' => Timed(job'[k].sums)
    BY <1>4, <1>5
  <2>2. \A k \in Jobs : job'[k].do.step = "started" => job'[k].sums.at > 0
    BY <1>2, <1>4 DEF Locked, FollowInv, RowTimes
  <2>. QED
    BY <1>3, <1>4, <2>1, <2>2 DEF FollowInv, RowTimes, Timed
<1>7. RowsFollow'
  BY <1>3 DEF RowsFollow, Quiet
<1>8. LoneRebuild'
  BY <1>4, <1>5 DEF LoneRebuild
<1>9. LoneBatch'
  BY <1>4 DEF LoneBatch
<1>. QED
  BY <1>6, <1>7, <1>8, <1>9 DEF FollowInv

LEMMA BatchFollows ==
  ASSUME AlertsAssumption, AlertShapes, FollowInv,
         \/ Alerting!ScriptReads \/ Alerting!ScriptClears \/ Alerting!ScriptDrops
         \/ Alerting!ScriptLists \/ Alerting!ScriptSums \/ Alerting!ScriptDies
  PROVE  FollowInv'
<1>. USE DEF Alerting!unscripted
<1>s. script \in Scripts /\ script.sums \in Sums /\ clock \in Nat /\ clock > 0
  BY DEF AlertShapes, Scripts, FollowInv, RowTimes
<1>1. CASE Alerting!ScriptReads
  <2>1. clock' > 0
    BY <1>1, <1>s DEF Alerting!ScriptReads, Alerting!Now
  <2>2. /\ script' # Alerting!NoScript /\ script'.step = "read"
        /\ script'.sums = [at |-> clock', rows |-> Alerting!RowsAt(clock'),
                          alone |-> Alerting!Holders = {}]
        /\ job' = Alerting!Disturbed(job)
        /\ UNCHANGED <<config, rows, listed, upset>>
    BY <1>1, NothingHasShape DEF Alerting!ScriptReads
  <2>3. \A k \in Jobs :
          /\ job'[k].do = job[k].do
          /\ Locked(k) => ~ job'[k].sums.alone /\ Timed(job'[k].sums)
          /\ ~ Locked(k) => job'[k] = job[k]
    <3>1. ASSUME NEW k \in Jobs, Locked(k)
          PROVE  ~ job'[k].sums.alone /\ Timed(job'[k].sums)
      <4>1. job'[k].sums = [job[k].sums EXCEPT !.alone = FALSE] /\ job[k].sums \in Sums
        BY <2>2, <3>1, HeldByWhoLocked DEF Alerting!Disturbed, AlertShapes, AlertJobs
      <4>2. Timed(job[k].sums)
        BY <3>1 DEF FollowInv, RowTimes
      <4>. QED
        BY <4>1, <4>2 DEF Sums, Timed
    <3>2. \A k \in Jobs : ~ Locked(k) => job'[k] = job[k]
      BY <2>2, HeldByWhoLocked DEF Alerting!Disturbed
    <3>. QED
      BY <2>2, <3>1, <3>2, DisturbedHasShape
  <2>4. \A k \in Jobs : Locked(k)' <=> Locked(k)
    BY <2>3 DEF Locked
  <2>5. Alerting!Holders' = Alerting!Holders
    BY <2>3 DEF Alerting!Holders, Alerting!Requests, Alerting!Step
  <2>6. RowTimes'
    <3>1. Timed(script'.sums)
      BY <2>1, <2>2, RowsAtFollow DEF Timed
    <3>. QED
      BY <2>1, <2>2, <2>3, <2>4, <3>1 DEF FollowInv, RowTimes, Timed, Locked
  <2>7. RowsFollow'
    BY <2>2 DEF RowsFollow, Quiet
  <2>8. LoneRebuild'
    BY <2>3, <2>4 DEF LoneRebuild
  <2>9. LoneBatch'
    <3>1. script'.sums.alone => Alerting!Holders = {}
      <4>1. script'.sums.alone = (Alerting!Holders = {})
        BY <2>2
      <4>. QED
        BY <4>1
    <3>2. Follow(script.sums.rows)'
      BY <2>2, RowsAtFollow DEF Follow
    <3>. QED
      BY <2>2, <2>5, <3>1, <3>2 DEF LoneBatch
  <2>. QED
    BY <2>6, <2>7, <2>8, <2>9 DEF FollowInv
\* The other steps of the batch leave the rebuilds alone.
<1>2. ASSUME job' = job, config' = config, clock' > 0, script.step # "idle",
             RowTimes', RowsFollow', LoneBatch'
      PROVE  FollowInv'
  <2>1. \A j \in Jobs : ~ (Locked(j) /\ job[j].sums.alone)
    BY <1>2, NothingHasShape DEF FollowInv, LoneRebuild
  <2>2. LoneRebuild'
    BY <1>2, <2>1 DEF LoneRebuild, Locked
  <2>. QED
    BY <1>2, <2>2 DEF FollowInv
<1>3. ASSUME NEW step \in {"cleared", "dropped", "listed"},
             script.step \notin {"idle", step}, script' = [script EXCEPT !.step = step],
             UNCHANGED <<config, job, clock, upset>>,
             rows' \subseteq rows,
             script.sums.alone => rows' = {},
             script.sums.alone /\ step = "dropped" => listed' = ListedOf({}),
             script.sums.alone /\ step = "listed" => listed' = ListedOf(script.sums.rows)
      PROVE  FollowInv'
  <2>1. script'.step = step /\ script'.sums = script.sums /\ script' # Alerting!NoScript
    BY <1>3, <1>s, NothingHasShape DEF Scripts
  <2>2. RowTimes'
    BY <1>3, <2>1 DEF FollowInv, RowTimes, Timed, Locked
  <2>3. RowsFollow'
    BY <2>1 DEF RowsFollow, Quiet
  <2>4. LoneBatch'
    BY <1>3, <2>1 DEF FollowInv, LoneBatch, ListedOf, Changing, Follow, Alerting!Holders,
                      Alerting!Requests, Alerting!Step
  <2>. QED
    BY <1>2, <1>3, <1>s, <2>2, <2>3, <2>4
<1>4. CASE Alerting!ScriptClears
  BY <1>3, <1>4 DEF Alerting!ScriptClears
<1>5. CASE Alerting!ScriptDrops
  <2>1. listed' = ListedOf({})
    BY <1>5 DEF Alerting!ScriptDrops, ListedOf
  <2>2. script.sums.alone => rows = {}
    BY <1>5 DEF Alerting!ScriptDrops, FollowInv, LoneBatch
  <2>. QED
    BY <1>3, <1>5, <2>1, <2>2 DEF Alerting!ScriptDrops
<1>6. CASE Alerting!ScriptLists
  <2>1. script.sums.alone => rows = {} /\ listed = ListedOf({})
    BY <1>6 DEF Alerting!ScriptLists, FollowInv, LoneBatch
  <2>2. script.sums.alone => listed' = ListedOf(script.sums.rows)
    BY <1>6, <2>1 DEF Alerting!ScriptLists, ListedOf
  <2>. QED
    BY <1>3, <1>6, <2>1, <2>2 DEF Alerting!ScriptLists
<1>7. CASE Alerting!ScriptSums
  <2>1. script.step = "listed" /\ script' = Alerting!NoScript /\ script'.step = "idle"
    BY <1>7, NothingHasShape DEF Alerting!ScriptSums
  <2>2. UNCHANGED <<config, job, clock, listed>>
    BY <1>7 DEF Alerting!ScriptSums
  <2>3. rows' = rows \/ rows' = rows \cup script.sums.rows
    BY <1>7 DEF Alerting!ScriptSums
  <2>4. RowTimes'
    BY <2>1, <2>2, <2>3 DEF FollowInv, RowTimes, Timed, Locked
  <2>5. RowsFollow'
    <3>1. ASSUME Quiet'
          PROVE  script.sums.alone /\ rows' = rows \cup script.sums.rows /\ ~ Changing
      BY <1>7, <2>2, <3>1 DEF Alerting!ScriptSums, Quiet, Changing
    <3>2. ASSUME Quiet'
          PROVE  rows' = script.sums.rows /\ Follow(rows)' /\ listed' = ListedOf(rows')
      BY <2>1, <2>2, <3>1, <3>2 DEF FollowInv, LoneBatch, Follow
    <3>. QED
      BY <3>2 DEF RowsFollow, ListedOf
  <2>6. LoneBatch'
    BY <2>1 DEF LoneBatch
  <2>. QED
    BY <1>2, <1>s, <2>1, <2>2, <2>4, <2>5, <2>6
<1>8. CASE Alerting!ScriptDies
  <2>1. script' = Alerting!NoScript /\ script'.step = "idle"
    BY <1>8, NothingHasShape DEF Alerting!ScriptDies
  <2>2. UNCHANGED <<config, job, clock, rows, listed>> /\ upset' = TRUE
    BY <1>8 DEF Alerting!ScriptDies
  <2>3. RowTimes'
    BY <2>1, <2>2 DEF FollowInv, RowTimes, Timed, Locked
  <2>4. RowsFollow'
    BY <2>2 DEF RowsFollow, Quiet
  <2>5. LoneBatch'
    BY <2>1 DEF LoneBatch
  <2>6. CASE script.step # "idle"
    BY <1>2, <1>s, <2>2, <2>3, <2>4, <2>5, <2>6
  <2>7. CASE script.step = "idle"
    <3>1. LoneRebuild'
      BY <2>1, <2>2 DEF FollowInv, LoneRebuild, Locked, Changing, Follow, Alerting!Holders,
                        Alerting!Requests, Alerting!Step
    <3>. QED
      BY <2>3, <2>4, <2>5, <3>1 DEF FollowInv
  <2>. QED
    BY <2>6, <2>7
<1>. QED
  BY <1>1, <1>4, <1>5, <1>6, <1>7, <1>8

LEMMA NextFollows ==
  ASSUME AlertsAssumption, AlertShapes, FollowInv, [Alerting!Next]_alertsVars
  PROVE  FollowInv'
<1>1. CASE UNCHANGED alertsVars
  BY <1>1, FollowKept DEF alertsVars
<1>2. ASSUME NEW y \in Types, Alerting!EmployeesChange(y)
      PROVE  FollowInv'
  BY <1>2, FollowKept DEF Alerting!EmployeesChange
<1>3. ASSUME Alerting!AckReads \/ Alerting!AckSees \/ Alerting!AckSaves
      PROVE  FollowInv'
  <2>1. UNCHANGED <<job, rows, listed, script, upset, clock>>
    BY <1>3 DEF Alerting!AckReads, Alerting!AckSees, Alerting!AckSaves, Alerting!shared
  <2>2. config' = config \/ config' = [config EXCEPT ![ack.alert].note = ack.note]
    BY <1>3 DEF Alerting!AckReads, Alerting!AckSees, Alerting!AckSaves
  <2>3. \A a \in Alerts : /\ config'[a].active = config[a].active
                          /\ config'[a].type = config[a].type /\ config'[a].th = config[a].th
    BY <2>2 DEF AlertShapes, Docs
  <2>. QED
    BY <2>1, <2>3, FollowKept
<1>. QED
  BY <1>1, <1>2, <1>3, RequestsFollow, LockingFollows, CommitFollows, FailureFollows, BatchFollows
     DEF Alerting!Next

(***************************************************************************)
(* What is shown as owned.  A note is what a row says, or older than every *)
(* row; and where nothing is under way, it is older than every row also if *)
(* its alert has another type by now.                                      *)
(***************************************************************************)
Seen(n) ==
  \/ \E r \in rows : r.type = n.type /\ r.at = n.at /\ r.count = n.count
  \/ \A r \in rows : n.at < r.at

NotesSeen ==
  "overtaken" \notin odd => Seen(ack.note) /\ \A a \in Alerts : Seen(config[a].note)

NotesOfType ==
  Quiet /\ odd \cap {"overtaken", "retyped"} = {} =>
    \A a \in Alerts : \/ config[a].note.type = config[a].type
                      \/ \A r \in rows : config[a].note.at < r.at

OwnedInv == NotesSeen /\ NotesOfType

LEMMA RowAndNoteTimes ==
  ASSUME AlertShapes, FollowInv
  PROVE  /\ \A r \in rows : r.at \in Nat /\ r.at > 0
         /\ ack.note \in Notes /\ \A a \in Alerts : config[a].note \in Notes
         /\ \A a \in Alerts : config[a].note.at \in Nat
         /\ ack.note.at \in Nat
BY DEF AlertShapes, FollowInv, RowTimes, SumRows, Docs, Acks, Notes

\* A step that leaves the rows and makes no note but of what is seen.
LEMMA SeenKept ==
  ASSUME AlertShapes, FollowInv, NotesSeen, rows' = rows, odd \subseteq odd',
         \A a \in Alerts : config'[a].note \in {config[a].note, ack.note, Alerting!NoNote},
         \/ ack'.note = ack.note \/ ack'.note.at = 0
         \/ \E r \in rows : /\ r.type = ack'.note.type /\ r.at = ack'.note.at
                           /\ r.count = ack'.note.count
  PROVE  NotesSeen'
<1>1. Alerting!NoNote.at = 0
  BY DEF Alerting!NoNote, Alerting!Never
<1>2. \A n : n.at = 0 => Seen(n)
  BY RowAndNoteTimes DEF Seen
<1>3. \A n : Seen(n)' <=> Seen(n)
  BY DEF Seen
<1>4. ASSUME "overtaken" \notin odd'
      PROVE  Seen(ack'.note) /\ \A a \in Alerts : Seen(config'[a].note)
  <2>1. Seen(ack.note) /\ \A a \in Alerts : Seen(config[a].note)
    BY <1>4 DEF NotesSeen
  <2>2. Seen(ack'.note)
    BY <1>2, <2>1 DEF Seen
  <2>. QED
    BY <1>1, <1>2, <2>1, <2>2
<1>. QED
  BY <1>3, <1>4 DEF NotesSeen, Seen

\* Rows at a time are newer than every note they do not overtake.
LEMMA NewerThanNotes ==
  ASSUME AlertShapes, NEW at \in Nat, ~ Alerting!Overtakes(at)
  PROVE  ack.note.at < at /\ \A a \in Alerts : config[a].note.at < at
BY DEF AlertShapes, Docs, Acks, Notes, Alerting!Overtakes

\* Rows are written: what was there stays, or all are of one time.
LEMMA RowsWritten ==
  ASSUME AlertShapes, FollowInv, OwnedInv, NEW sums \in Sums, Timed(sums),
         UNCHANGED <<config, ack>>,
         odd' = IF Alerting!Overtakes(sums.at) THEN odd \cup {"overtaken"} ELSE odd,
         rows' \in {sums.rows, rows \cup sums.rows, rows},
         Quiet' => rows' = sums.rows
  PROVE  OwnedInv'
<1>1. ASSUME "overtaken" \notin odd'
      PROVE  /\ "overtaken" \notin odd
             /\ \A r \in sums.rows : ack.note.at < r.at
             /\ \A a \in Alerts, r \in sums.rows : config[a].note.at < r.at
  BY <1>1, NewerThanNotes DEF Sums, Timed
<1>2. NotesSeen'
  <2>1. ASSUME "overtaken" \notin odd', NEW n, Seen(n), \A r \in sums.rows : n.at < r.at
        PROVE  \/ \E r \in rows' : r.type = n.type /\ r.at = n.at /\ r.count = n.count
               \/ \A r \in rows' : n.at < r.at
    BY <2>1 DEF Seen
  <2>. QED
    BY <1>1, <2>1 DEF OwnedInv, NotesSeen, Seen
<1>3. NotesOfType'
  BY <1>1 DEF NotesOfType
<1>. QED
  BY <1>2, <1>3 DEF OwnedInv

LEMMA NextOwned ==
  ASSUME AlertsAssumption, AlertShapes, FollowInv, OwnedInv, [Alerting!Next]_alertsVars
  PROVE  OwnedInv'
<1>. USE DEF Alerting!Step
<1>j. job \in [Jobs -> AlertJobs] /\ config \in [Alerts -> Docs] /\ script \in Scripts
  BY DEF AlertShapes
<1>n. NotesSeen /\ NotesOfType
  BY DEF OwnedInv
\* Where something is under way afterwards, only what was seen matters.
<1>1. ASSUME UNCHANGED <<rows, odd, ack>>, ~ Quiet',
             \A a \in Alerts : config'[a].note \in {config[a].note, Alerting!NoNote}
      PROVE  OwnedInv'
  BY <1>1, <1>n, SeenKept DEF OwnedInv, NotesOfType
\* Where nothing begins or ends, and no type changes.
<1>2. ASSUME UNCHANGED <<rows, upset, script>>, odd \subseteq odd',
             \A j \in Jobs : \A step \in {"changed", "started", "locked"} :
               job'[j].do.step = step <=> job[j].do.step = step,
             \A a \in Alerts : config'[a].type = config[a].type,
             \A a \in Alerts : \/ config'[a].note = config[a].note
                               \/ /\ config'[a].note = ack.note
                                  /\ config[a].type = ack.note.type \/ "retyped" \in odd',
             \/ ack'.note = ack.note \/ ack'.note.at = 0
             \/ \E r \in rows : /\ r.type = ack'.note.type /\ r.at = ack'.note.at
                               /\ r.count = ack'.note.count
      PROVE  OwnedInv'
  <2>1. NotesSeen'
    BY <1>2, <1>n, SeenKept
  <2>2. Quiet' <=> Quiet
    BY <1>2 DEF Quiet, Changing, Alerting!Holders, Alerting!Requests
  <2>3. NotesOfType'
    BY <1>2, <1>n, <2>2 DEF NotesOfType
  <2>. QED
    BY <2>1, <2>3 DEF OwnedInv
<1>3. CASE UNCHANGED alertsVars
  BY <1>2, <1>3 DEF alertsVars
<1>4. ASSUME NEW y \in Types, Alerting!EmployeesChange(y)
      PROVE  OwnedInv'
  BY <1>2, <1>4 DEF Alerting!EmployeesChange
<1>5. ASSUME NEW j \in Jobs, Alerting!Create(j) \/ Alerting!Update(j)
      PROVE  OwnedInv'
  <2>1. PICK step \in {"create", "update"} : \E a, to : Alerting!Check(j, step, a, to)
    BY <1>5 DEF Alerting!Create, Alerting!Update
  <2>2. PICK a, to : Alerting!Check(j, step, a, to)
    BY <2>1
  <2>3. /\ \A k \in Jobs \ {j} : job'[k].do = job[k].do
        /\ job[j].do.step = "idle" /\ job'[j].do.step = step
    BY <2>2, <1>j DEF Alerting!Check, AlertJobs
  <2>. QED
    BY <2>2, <2>3, <1>2 DEF Alerting!Check, Alerting!aggregates
<1>6. ASSUME NEW j \in Jobs, Alerting!Write(j) \/ Alerting!Remove(j) \/ Alerting!RefreshStarts(j)
      PROVE  OwnedInv'
  <2>1. job'[j].do.step \in {"changed", "started"}
    BY <1>6, <1>j, NothingHasShape
       DEF Alerting!Write, Alerting!Remove, Alerting!RefreshStarts, AlertJobs, Dos
  <2>2. UNCHANGED <<rows, odd, ack>> /\ ~ Quiet'
    BY <1>6, <2>1 DEF Alerting!Write, Alerting!Remove, Alerting!RefreshStarts,
                      Alerting!aggregates, Quiet, Changing
  <2>3. \A a \in Alerts : config'[a].note \in {config[a].note, Alerting!NoNote}
    <3>1. CASE Alerting!Write(j)
      <4>1. job[j].do.alert \in Alerts /\ job[j].do.to \in Docs
        BY <3>1, <1>j DEF Alerting!Write, AlertShapes, AlertJobs, Dos
      <4>2. [job[j].do.to EXCEPT !.note = config[job[j].do.alert].note].note
              = config[job[j].do.alert].note
        BY <4>1 DEF Docs
      <4>. QED
        BY <3>1, <1>j, <4>1, <4>2 DEF Alerting!Write
    <3>2. CASE Alerting!Remove(j)
      BY <3>2, <1>j DEF Alerting!Remove, Alerting!NoRow
    <3>3. CASE Alerting!RefreshStarts(j)
      BY <3>3 DEF Alerting!RefreshStarts
    <3>. QED
      BY <1>6, <3>1, <3>2, <3>3
  <2>. QED
    BY <1>1, <2>2, <2>3
<1>7. ASSUME NEW j \in Jobs, Alerting!RefreshLocks(j) \/ Alerting!RefreshFails(j)
      PROVE  OwnedInv'
  <2>1. UNCHANGED <<rows, odd, ack, config>>
    BY <1>7 DEF Alerting!RefreshLocks, Alerting!RefreshFails
  <2>2. ~ Quiet'
    <3>1. CASE Alerting!RefreshLocks(j)
      <4>1. job'[j].do.step = "locked"
        BY <3>1, DisturbedHasShape DEF Alerting!RefreshLocks, AlertJobs, Dos
      <4>. QED
        BY <4>1 DEF Quiet, Alerting!Holders, Alerting!Requests
    <3>2. CASE Alerting!RefreshFails(j)
      BY <3>2 DEF Alerting!RefreshFails, Quiet
    <3>. QED
      BY <1>7, <3>1, <3>2
  <2>. QED
    BY <1>1, <2>1, <2>2
<1>8. ASSUME NEW j \in Jobs, Alerting!RefreshCommits(j)
      PROVE  OwnedInv'
  <2>1. job[j].sums \in Sums /\ Timed(job[j].sums)
    BY <1>8, <1>j DEF Alerting!RefreshCommits, AlertJobs, FollowInv, RowTimes, Locked
  <2>. QED
    BY <1>8, <2>1, RowsWritten DEF Alerting!RefreshCommits
<1>9. CASE Alerting!ScriptReads
  <2>1. script' # Alerting!NoScript
    BY <1>9, NothingHasShape DEF Alerting!ScriptReads
  <2>. QED
    BY <1>1, <1>9, <2>1 DEF Alerting!ScriptReads, Alerting!unscripted, Quiet
<1>10. CASE Alerting!ScriptDrops \/ Alerting!ScriptLists
  <2>1. script' # Alerting!NoScript
    BY <1>10, <1>j, NothingHasShape DEF Alerting!ScriptDrops, Alerting!ScriptLists, Scripts
  <2>. QED
    BY <1>1, <1>10, <2>1 DEF Alerting!ScriptDrops, Alerting!ScriptLists, Alerting!unscripted, Quiet
<1>11. CASE Alerting!ScriptClears
  <2>1. script' # Alerting!NoScript /\ rows' = {}
    BY <1>11, <1>j, NothingHasShape DEF Alerting!ScriptClears, Scripts
  <2>. QED
    BY <2>1 DEF OwnedInv, NotesSeen, NotesOfType, Seen
<1>12. CASE Alerting!ScriptSums
  <2>1. script.sums \in Sums /\ Timed(script.sums)
    BY <1>12, <1>j DEF Alerting!ScriptSums, Scripts, FollowInv, RowTimes
  <2>2. Quiet' => rows' = script.sums.rows
    BY <1>12 DEF Quiet, Alerting!ScriptSums, FollowInv, LoneBatch
  <2>. QED
    BY <1>12, <2>1, <2>2, RowsWritten DEF Alerting!ScriptSums
<1>13. CASE Alerting!ScriptDies
  BY <1>1, <1>13 DEF Alerting!ScriptDies, Alerting!unscripted, Quiet
<1>14. CASE Alerting!AckReads
  <2>1. ack'.note.at = 0
    BY <1>14 DEF Alerting!AckReads, Alerting!NoNote, Alerting!Never
  <2>. QED
    BY <1>2, <1>14, <2>1 DEF Alerting!AckReads, Alerting!shared
<1>15. CASE Alerting!AckSees
  <2>1. CASE ack' = Alerting!NoAck
    <3>1. ack'.note.at = 0
      BY <2>1 DEF Alerting!NoAck, Alerting!NoNote, Alerting!Never
    <3>. QED
      BY <1>2, <1>15, <3>1 DEF Alerting!AckSees, Alerting!shared
  <2>2. ASSUME NEW r \in Alerting!Latest(ack.note.type),
               ack' = [ack EXCEPT !.step = "seen", !.note.at = r.at, !.note.count = r.count]
        PROVE  OwnedInv'
    <3>1. r \in rows /\ r.type = ack.note.type
      BY DEF Alerting!Latest
    <3>2. ack'.note.type = ack.note.type /\ ack'.note.at = r.at /\ ack'.note.count = r.count
      BY <2>2 DEF AlertShapes, Acks, Notes
    <3>. QED
      BY <1>2, <1>15, <3>1, <3>2 DEF Alerting!AckSees, Alerting!shared
  <2>. QED
    BY <1>15, <2>1, <2>2 DEF Alerting!AckSees
<1>16. CASE Alerting!AckSaves
  <2>1. config' = config \/ config' = [config EXCEPT ![ack.alert].note = ack.note]
    BY <1>16 DEF Alerting!AckSaves
  <2>2. \A a \in Alerts : config'[a].type = config[a].type
    BY <1>j, <2>1 DEF Docs
  <2>3. \A a \in Alerts : config'[a].note = config[a].note
                          \/ (a = ack.alert /\ config'[a].note = ack.note)
    BY <1>j, <2>1 DEF Docs
  <2>4. ack'.note.at = 0
    BY <1>16 DEF Alerting!AckSaves, Alerting!NoAck, Alerting!NoNote, Alerting!Never
  <2>5. config[ack.alert].type = ack.note.type \/ "retyped" \in odd'
    BY <1>16 DEF Alerting!AckSaves
  <2>6. odd \subseteq odd' /\ UNCHANGED <<rows, upset, script, job>>
    BY <1>16 DEF Alerting!AckSaves, Alerting!shared
  <2>. QED
    BY <1>2, <2>2, <2>3, <2>4, <2>5, <2>6
<1>. QED
  BY <1>3, <1>4, <1>5, <1>6, <1>7, <1>8, <1>9, <1>10, <1>11, <1>12, <1>13, <1>14, <1>15, <1>16
     DEF Alerting!Next

LEMMA FollowedAndOwned ==
  ASSUME AlertsAssumption, AlertShapes, FollowInv, OwnedInv
  PROVE  Alerting!SummariesFollowAlerts /\ Alerting!OwnedIsCurrent
<1>1. Alerting!Settled => Quiet
  BY DEF Alerting!Settled, Quiet, Changing, Alerting!Holders, Alerting!Requests, Alerting!Step
<1>2. Alerting!SummariesFollowAlerts
  BY <1>1 DEF Alerting!SummariesFollowAlerts, FollowInv, RowsFollow, Follow, ListedOf
<1>3. ASSUME Alerting!Settled, odd \cap {"overtaken", "retyped"} = {},
             NEW a \in Alerts, Alerting!Owned(a)
      PROVE  \E r \in Alerting!Latest(config[a].type) :
               config[a].note = [at |-> r.at, count |-> r.count, type |-> r.type]
  <2>. DEFINE n == config[a].note
              y == config[a].type
  <2>1. n \in Notes /\ n.at \in Nat /\ \A r \in rows : r.at \in Nat
    BY RowAndNoteTimes
  <2>2. PICK r \in Alerting!Latest(y) : ~ Alerting!NeedsReview(n, r)
    BY <1>3 DEF Alerting!Owned
  <2>3. r \in rows /\ r.type = y /\ \A q \in rows : q.type = y => q.at <= r.at
    BY DEF Alerting!Latest
  <2>4. r.at <= n.at
    BY <2>1, <2>2, <2>3 DEF Alerting!NeedsReview
  <2>5. n.type = y
    BY <1>1, <1>3, <2>1, <2>3, <2>4 DEF OwnedInv, NotesOfType
  <2>6. Seen(n)
    BY <1>3 DEF OwnedInv, NotesSeen
  <2>7. PICK q \in rows : q.type = n.type /\ q.at = n.at /\ q.count = n.count
    BY <2>1, <2>3, <2>4, <2>6 DEF Seen
  <2>8. q \in Alerting!Latest(y)
    BY <2>1, <2>3, <2>4, <2>5, <2>7 DEF Alerting!Latest
  <2>9. n = [at |-> q.at, count |-> q.count, type |-> q.type]
    BY <2>1, <2>7 DEF Notes
  <2>. QED
    BY <2>8, <2>9
<1>. QED
  BY <1>2, <1>3 DEF Alerting!OwnedIsCurrent

(***************************************************************************)
(* At rest after a rebuild that met no other, the rows and lists are those *)
(* of the active alerts; and what is shown as owned is what its manager    *)
(* saw, unless a rebuild wrote rows no newer than a note, or an alert      *)
(* changed its type under a note: for any number of requests, batches and  *)
(* faults.                                                                 *)
(***************************************************************************)
THEOREM AlertsAreShown == AlertsAssumption => (ServiceSpec => []AlertsAreFollowed)
<1>. SUFFICES ASSUME AlertsAssumption PROVE ServiceSpec => []AlertsAreFollowed
  OBVIOUS
<1>. DEFINE I == part = "alerts" => AlertShapes /\ FollowInv /\ OwnedInv
<1>1. ServiceInit => I
  <2>1. Alerting!Init => FollowInv
    BY DEF Alerting!Init, Alerting!NoJob, Alerting!NoScript, FollowInv, RowTimes, RowsFollow,
           LoneRebuild, LoneBatch, Follow, ListedOf, Locked
  <2>2. Alerting!Init => OwnedInv
    BY DEF Alerting!Init, OwnedInv, NotesSeen, NotesOfType, Seen
  <2>. QED
    BY <2>1, <2>2, InitAlertShapes DEF ServiceInit, Begins
<1>2. I /\ [ServiceNext]_serviceVars => I'
  BY OnePartRuns, NextAlertShapes, NextFollows, NextOwned
<1>3. I => AlertsAreFollowed
  BY FollowedAndOwned DEF AlertsAreFollowed
<1>. QED
  BY <1>1, <1>2, <1>3, PTL DEF ServiceSpec

(***************************************************************************)
(* The executive brief.  A feed that arrived could be answered, and only   *)
(* the metrics are not asked for, by a reader who may not see the queue.   *)
(* Minutes are numbers, and no dataset has the name of another feed.       *)
(***************************************************************************)
BriefAssumption ==
  /\ Ages \subseteq Nat /\ FreshMinutes \in Nat
  /\ Sources \cap {"alerts", "metrics", "brief"} = {}

Feeds == Sources \cup {"alerts", "metrics", "brief"}

FeedInv ==
  /\ situation \in Brief!Situations
  /\ feed \in [Feeds -> {"unasked", "loading", "arrived", "failed"}]
  /\ \A f \in Feeds : feed[f] = "arrived" => Brief!Answerable(f)
  /\ \A f \in Feeds : feed[f] = "unasked" => f = "metrics" /\ ~ situation.operator

LEMMA InitFeeds == Brief!Init => FeedInv
BY DEF Brief!Init, FeedInv, Feeds

LEMMA NextFeeds ==
  ASSUME FeedInv, [Brief!Next]_briefVars
  PROVE  FeedInv'
<1>1. CASE UNCHANGED briefVars
  BY <1>1 DEF briefVars, FeedInv, Brief!Answerable
<1>2. ASSUME NEW f \in Feeds, NEW state \in {"arrived", "failed"},
             state = "arrived" => Brief!Answerable(f),
             feed' = [feed EXCEPT ![f] = state], UNCHANGED situation
      PROVE  FeedInv'
  <2>1. \A g \in Feeds : Brief!Answerable(g)' <=> Brief!Answerable(g)
    BY <1>2 DEF Brief!Answerable
  <2>2. /\ feed' \in [Feeds -> {"unasked", "loading", "arrived", "failed"}]
        /\ \A g \in Feeds : feed'[g] = IF g = f THEN state ELSE feed[g]
    BY <1>2 DEF FeedInv
  <2>. QED
    BY <1>2, <2>1, <2>2 DEF FeedInv
<1>3. ASSUME Brief!Next PROVE FeedInv'
  <2>1. PICK f \in Feeds : Brief!Arrive(f) \/ Brief!Fail(f)
    BY <1>3 DEF Brief!Next, FeedInv
  <2>. QED
    BY <1>2, <2>1 DEF Brief!Arrive, Brief!Fail
<1>. QED
  BY <1>1, <1>3

\* The service knows each dataset and finds none stale, or does not.
LEMMA FreshnessKnown ==
  Brief!buildFreshnessReadiness(situation) = "current" <=>
    Brief!Unknown(situation) = {} /\ Brief!Stale(situation) = {}
BY DEF Brief!buildFreshnessReadiness

\* Where the datasets are all there and fresh to the browser, they are to
\* the service, which is not the stricter.
LEMMA FreshToBoth ==
  ASSUME BriefAssumption, FeedInv, FreshMinutes >= Brief!FrontFreshMinutes,
         \A f \in Feeds \ {"brief"} : feed[f] # "loading",
         Brief!Failed(Sources) = {}, Brief!fallbackGlobalFreshness = "fresh"
  PROVE  Brief!buildFreshnessReadiness(situation) = "current"
<1>. USE DEF Brief!FrontFreshMinutes
<1>1. \A d \in Sources : feed[d] = "arrived" /\ situation.age[d] # Brief!NoRows
  <2>. TAKE d \in Sources
  <2>1. d \in Feeds /\ d \notin {"alerts", "metrics", "brief"}
    BY DEF Feeds, BriefAssumption
  <2>2. feed[d] # "failed"
    BY DEF Brief!Failed
  <2>3. feed[d] = "arrived"
    BY <2>1, <2>2 DEF FeedInv
  <2>4. Brief!Answerable(d)
    BY <2>1, <2>3 DEF FeedInv
  <2>. QED
    BY <2>1, <2>3, <2>4 DEF Brief!Answerable
<1>2. \A d \in Sources : situation.age[d] \in Nat
  BY <1>1 DEF FeedInv, Brief!Situations, BriefAssumption
<1>3. \A d \in Sources : ~ (situation.age[d] > 120)
  BY <1>1 DEF Brief!fallbackGlobalFreshness, Brief!FrontStale, Brief!Arrived
<1>4. \A d \in Sources : ~ (situation.age[d] > FreshMinutes)
  BY <1>2, <1>3 DEF BriefAssumption
<1>. QED
  BY <1>1, <1>4, FreshnessKnown DEF Brief!Unknown, Brief!Stale

\* What is told of the queue, and of what else there is.
ServiceTones ==
  (IF Brief!buildFreshnessReadiness(situation) # "current" THEN {"warning"} ELSE {})
    \cup Brief!AlertActions(situation.alert)
    \cup IF situation.operator THEN Brief!QueueActions(situation.queue) ELSE {}

BrowserTones ==
  (IF Brief!Failed(Sources) # {} THEN {"critical"} ELSE {})
    \cup (IF Brief!fallbackGlobalFreshness # "fresh" THEN {"warning"} ELSE {})
    \cup Brief!AlertActions(Brief!FrontAlerts)
    \cup IF situation.operator THEN Brief!QueueActions(Brief!FrontQueue) ELSE {}

LEMMA BriefsAreLabels ==
  /\ Brief!buildActionCenter(situation) = Brief!Label(ServiceTones)
  /\ Brief!computedExecutiveBrief = Brief!Label(BrowserTones)
BY DEF Brief!buildActionCenter, Brief!computedExecutiveBrief, ServiceTones, BrowserTones

LEMMA MilderLabel ==
  ASSUME NEW S, NEW T, "critical" \in S => "critical" \in T, S # {} => T # {}
  PROVE  Brief!Rank(Brief!Label(T)) >= Brief!Rank(Brief!Label(S))
BY DEF Brief!Rank, Brief!Label

\* A feed of the queue that failed is told of.
LEMMA QueueTold ==
  ASSUME FeedInv, situation.operator, feed["metrics"] # "loading"
  PROVE  IF feed["metrics"] = "arrived" THEN Brief!FrontQueue = situation.queue
         ELSE Brief!QueueActions(Brief!FrontQueue) # {}
<1>1. feed["metrics"] \in {"arrived", "failed"}
  BY DEF FeedInv, Feeds
<1>2. CASE feed["metrics"] = "arrived"
  BY <1>2 DEF Brief!FrontQueue
<1>3. CASE feed["metrics"] = "failed"
  <2>1. Brief!FrontQueue = Brief!Down
    BY <1>3 DEF Brief!FrontQueue
  <2>2. Brief!Down.down
    BY DEF Brief!Down, Brief!Quiet
  <2>3. "warning" \in Brief!QueueActions(Brief!Down)
    BY <2>2 DEF Brief!QueueActions
  <2>. QED
    BY <1>3, <2>1, <2>3
<1>. QED
  BY <1>1, <1>2, <1>3

\* The browser's own brief is as severe as the service's.
LEMMA BrowserIsNotMilder ==
  ASSUME BriefAssumption, FeedInv, FreshMinutes >= Brief!FrontFreshMinutes,
         \A f \in Feeds \ {"brief"} : feed[f] # "loading", feed["alerts"] = "arrived"
  PROVE  /\ BrowserTones = {} => ServiceTones = {}
         /\ feed["metrics"] = "arrived" \/ ~ situation.operator =>
              /\ "critical" \in ServiceTones => "critical" \in BrowserTones
              /\ ServiceTones # {} => BrowserTones # {}
<1>. DEFINE stale == Brief!buildFreshnessReadiness(situation) # "current"
            lost == Brief!Failed(Sources) # {}
            old == Brief!fallbackGlobalFreshness # "fresh"
            alerts == Brief!AlertActions(situation.alert)
            queue == IF situation.operator THEN Brief!QueueActions(situation.queue) ELSE {}
            told == IF situation.operator THEN Brief!QueueActions(Brief!FrontQueue) ELSE {}
<1>1. stale => lost \/ old
  BY FreshToBoth
<1>2. ServiceTones = (IF stale THEN {"warning"} ELSE {}) \cup alerts \cup queue
  BY DEF ServiceTones
<1>3. BrowserTones = (IF lost THEN {"critical"} ELSE {}) \cup (IF old THEN {"warning"} ELSE {})
                       \cup alerts \cup told
  BY DEF BrowserTones, Brief!FrontAlerts
<1>4. feed["metrics"] # "loading"
  BY DEF Feeds
<1>5. told = {} => queue = {}
  BY <1>4, QueueTold
<1>6. feed["metrics"] = "arrived" \/ ~ situation.operator => told = queue
  BY <1>4, QueueTold
<1>. HIDE DEF stale, lost, old, alerts, queue, told
<1>. QED
  BY <1>1, <1>2, <1>3, <1>5, <1>6

\* Two labels that agree on being ready.
LEMMA ReadyLabel ==
  ASSUME NEW S
  PROVE  Brief!Label(S) = "Ready for Memo" <=> S = {}
BY DEF Brief!Label

\* The operational readiness.
LEMMA ReadyReadiness ==
  ASSUME BriefAssumption, FeedInv,
         NEW services \in Brief!Healths, NEW delivery \in Brief!Healths, NEW issues \in {0, 1},
         Brief!Readiness(situation, services, delivery, issues) = "Ready"
  PROVE  /\ services = "healthy" /\ issues = 0
         /\ Brief!buildActionCenter([situation EXCEPT !.alert = [y \in AlertTypes |-> "none"]])
              # "Action Required"
         /\ Brief!QueueActions(situation.queue) \subseteq {"info"}
         /\ \A d \in Sources : situation.age[d] <= FreshMinutes
<1>. DEFINE cards == {services, Brief!SummariesCard(situation),
                      Brief!ParityCard(situation, issues), Brief!QueueCard(situation, delivery)}
<1>1. cards \cap {"critical", "warning", "restricted"} = {}
  <2>1. Brief!buildOverall(cards) = "Ready"
    BY DEF Brief!Readiness
  <2>. HIDE DEF cards
  <2>. QED
    BY <2>1 DEF Brief!buildOverall
<1>2. services = "healthy"
  BY <1>1 DEF Brief!Healths
<1>3. situation.operator /\ issues = 0
  BY <1>1 DEF Brief!ParityCard
<1>4. Brief!buildFreshnessReadiness(situation) = "current"
  BY <1>1 DEF Brief!SummariesCard, Brief!buildFreshnessReadiness
<1>5. \A d \in Sources : situation.age[d] <= FreshMinutes
  <2>. TAKE d \in Sources
  <2>1. situation.age[d] # Brief!NoRows /\ ~ (situation.age[d] > FreshMinutes)
    BY <1>4, FreshnessKnown DEF Brief!Unknown, Brief!Stale
  <2>2. situation.age[d] \in Nat
    BY <2>1 DEF FeedInv, Brief!Situations, BriefAssumption
  <2>. QED
    BY <2>1, <2>2 DEF BriefAssumption
<1>6. ~ situation.queue.down /\ Brief!buildQueueSeverity(situation.queue) = "healthy"
  BY <1>1, <1>3 DEF Brief!QueueCard, Brief!buildQueueSeverity
<1>7. Brief!QueueActions(situation.queue) \subseteq {"info"}
  BY <1>6 DEF Brief!QueueActions
<1>8. Brief!buildActionCenter([situation EXCEPT !.alert = [y \in AlertTypes |-> "none"]])
        # "Action Required"
  <2>. DEFINE s == [situation EXCEPT !.alert = [y \in AlertTypes |-> "none"]]
  <2>1. /\ s.age = situation.age /\ s.operator = situation.operator /\ s.queue = situation.queue
        /\ s.alert = [y \in AlertTypes |-> "none"]
    BY DEF FeedInv, Brief!Situations
  <2>. HIDE DEF s
  <2>2. Brief!buildFreshnessReadiness(s) = "current"
    BY <1>4, <2>1 DEF Brief!buildFreshnessReadiness, Brief!Unknown, Brief!Stale
  <2>3. Brief!AlertActions(s.alert) = {}
    BY <2>1 DEF Brief!AlertActions
  <2>4. Brief!QueueActions(s.queue) \subseteq {"info"}
    BY <1>7, <2>1
  <2>5. Brief!buildActionCenter(s) # "Action Required"
    BY <2>2, <2>3, <2>4 DEF Brief!buildActionCenter, Brief!Label
  <2>. QED
    BY <2>5 DEF s
<1>. QED
  BY <1>2, <1>3, <1>5, <1>7, <1>8

LEMMA BriefIsReady ==
  ASSUME BriefAssumption, FeedInv
  PROVE  Brief!ReadyIsReady
<1>1. \/ FreshMinutes < Brief!FrontFreshMinutes
      \/ feed["alerts"] # "arrived"
      \/ \E f \in (DOMAIN feed) \ {"brief"} : feed[f] = "loading"
      \/ /\ Brief!executiveBrief = "Ready for Memo" =>
              Brief!buildActionCenter(situation) = "Ready for Memo"
         /\ feed["metrics"] = "arrived" \/ ~ situation.operator =>
              Brief!Rank(Brief!executiveBrief) >= Brief!Rank(Brief!buildActionCenter(situation))
  <2>. SUFFICES ASSUME ~ (FreshMinutes < Brief!FrontFreshMinutes), feed["alerts"] = "arrived",
                       \A f \in Feeds \ {"brief"} : feed[f] # "loading"
                PROVE  /\ Brief!executiveBrief = "Ready for Memo" =>
                            Brief!buildActionCenter(situation) = "Ready for Memo"
                       /\ feed["metrics"] = "arrived" \/ ~ situation.operator =>
                            Brief!Rank(Brief!executiveBrief)
                              >= Brief!Rank(Brief!buildActionCenter(situation))
    BY DEF FeedInv
  <2>1. FreshMinutes >= Brief!FrontFreshMinutes
    BY DEF BriefAssumption, Brief!FrontFreshMinutes
  <2>2. CASE feed["brief"] = "arrived"
    <3>1. Brief!executiveBrief = Brief!buildActionCenter(situation)
      BY <2>2 DEF Brief!executiveBrief
    <3>2. Brief!Rank(Brief!Label(ServiceTones)) >= Brief!Rank(Brief!Label(ServiceTones))
      BY MilderLabel
    <3>. QED
      BY <3>1, <3>2, BriefsAreLabels
  <2>3. CASE feed["brief"] # "arrived"
    <3>1. Brief!executiveBrief = Brief!Label(BrowserTones)
      BY <2>3, BriefsAreLabels DEF Brief!executiveBrief
    <3>. QED
      BY <2>1, <3>1, BriefsAreLabels, BrowserIsNotMilder, MilderLabel, ReadyLabel
  <2>. QED
    BY <2>2, <2>3
<1>. QED
  BY <1>1, ReadyReadiness DEF Brief!ReadyIsReady

(***************************************************************************)
(* The brief the page shows never calls ready, or milder than it is, what  *)
(* the service would not, but for the known exceptions; and the readiness  *)
(* is not Ready where something critical is to be mentioned: for any       *)
(* datasets, ages, alert types and loads of the queue, and whichever feeds *)
(* arrive or fail in whatever order.                                       *)
(***************************************************************************)
THEOREM ReadyMeansReady == BriefAssumption => (ServiceSpec => []ReadyIsReady)
<1>. SUFFICES ASSUME BriefAssumption PROVE ServiceSpec => []ReadyIsReady
  OBVIOUS
<1>. DEFINE I == part = "brief" => FeedInv
<1>1. ServiceInit => I
  BY InitFeeds DEF ServiceInit, Begins
<1>2. I /\ [ServiceNext]_serviceVars => I'
  BY OnePartRuns, NextFeeds
<1>3. I => ReadyIsReady
  BY BriefIsReady DEF ReadyIsReady
<1>. QED
  BY <1>1, <1>2, <1>3, PTL DEF ServiceSpec

(***************************************************************************)
(* The seeds of the roles and of the root account.  While no two run at    *)
(* once, a seed that came to a role has the earlier ones saved once, one   *)
(* that came to the root has all of them and knows whether the root is     *)
(* there: no call makes it, as none may be for its name.                   *)
(***************************************************************************)
RoleSteps == {"find_role", "save_role"}
RootSteps == {"find_root", "find_roles", "write_root"}
SeedSteps == {"off", "failed"} \cup RoleSteps \cup RootSteps
CallSteps == {"none", "check_user", "find_user", "find_roles", "find_admin", "save_user",
              "write_roles", "done", "refused"}
SavingSteps == {"check_user", "find_roles", "save_user"}

SeedStates == [at : SeedSteps, script : BOOLEAN, next : 1 .. 3, sawRoot : BOOLEAN]
RoleSets == SUBSET Roles!RoleNames
CallStates ==
  [at : CallSteps, kind : {"none", "signup", "create", "promote", "demote"},
   user : Roles!Accounts, roles : RoleSets, saw : RoleSets]
Tallies == [seeds : Nat, calls : Nat, loads : Nat, failures : Nat]

AccountTypes ==
  /\ copies \in [Roles!RoleNames -> Nat]
  /\ account \in [Roles!Accounts -> {{}} \cup {{R} : R \in RoleSets}]
  /\ seed \in [Seeds -> SeedStates]
  /\ call \in [{"page", "other"} -> CallStates]
  /\ counts \in Tallies
  /\ together \in BOOLEAN /\ full \in BOOLEAN

RootKept == Roles!There(Roles!Root) /\ Roles!RootRoles \subseteq Roles!RolesOf(Roles!Root)

\* Of a seed that is at s, with c roles saved and the root there or not.
RolesInOrder(s, c, root) ==
  /\ s.at \in RoleSteps => \A i \in 1 .. 3 : i < s.next => c[Roles!SeedOrder[i]] = 1
  /\ s.at = "save_role" => c[Roles!SeedOrder[s.next]] = 0
  /\ s.at \in RootSteps => \A r \in Roles!RoleNames : c[r] = 1
  /\ s.at \in {"find_roles", "write_root"} => s.sawRoot = root

Runs(s) == s.at \notin {"off", "failed"}

SeedsAlone ==
  /\ \A r \in Roles!RoleNames : copies[r] <= 1
  /\ \A p, q \in Seeds : Runs(seed[p]) /\ Runs(seed[q]) => p = q
  /\ \A p \in Seeds : RolesInOrder(seed[p], copies, Roles!There(Roles!Root))
  /\ \A p \in Seeds : seed[p].at = "failed" => counts.failures > 0
  /\ ~ full /\ counts.seeds > 0 => RootKept \/ \E p \in Seeds : seed[p].at # "off"

RootNotSaved ==
  \A c \in {"page", "other"} : call[c].at \in SavingSteps => call[c].user # Roles!Root

AccountInv == AccountTypes /\ RootNotSaved /\ (~ together => SeedsAlone)

LEMMA RolesOfIt ==
  ASSUME AccountTypes, NEW u \in Roles!Accounts, Roles!There(u)
  PROVE  Roles!RolesOf(u) \in RoleSets /\ account[u] = {Roles!RolesOf(u)}
<1>1. PICK R \in RoleSets : account[u] = {R}
  BY DEF AccountTypes, Roles!There
<1>2. Roles!RolesOf(u) \in account[u]
  BY <1>1 DEF Roles!RolesOf
<1>. QED
  BY <1>1, <1>2

LEMMA TheOrder ==
  /\ Roles!SeedOrder[1] = "user" /\ Roles!SeedOrder[2] = "admin"
  /\ Roles!SeedOrder[3] = "super_admin" /\ Len(Roles!SeedOrder) = 3
BY DEF Roles!SeedOrder

LEMMA InitAccounts == Roles!Init => AccountInv
<1>. SUFFICES ASSUME Roles!Init PROVE AccountInv
  OBVIOUS
<1>1. Roles!NoSeed \in SeedStates /\ Roles!NoSeed.at = "off"
  BY DEF Roles!NoSeed, SeedStates, SeedSteps
<1>2. Roles!NoCall \in CallStates /\ Roles!NoCall.at = "none"
  BY DEF Roles!NoCall, CallStates, CallSteps, RoleSets, Roles!Accounts
<1>3. copies \in [Roles!RoleNames -> Nat] /\ \A r \in Roles!RoleNames : copies[r] <= 1
  BY DEF Roles!Init
<1>4. account \in [Roles!Accounts -> {{}} \cup {{R} : R \in RoleSets}]
  <2>1. {"user"} \in RoleSets
    BY DEF RoleSets, Roles!RoleNames
  <2>. QED
    BY <2>1 DEF Roles!Init
<1>5. seed \in [Seeds -> SeedStates] /\ \A p \in Seeds : seed[p].at = "off"
  BY <1>1 DEF Roles!Init
<1>6. /\ call \in [{"page", "other"} -> CallStates]
      /\ \A c \in {"page", "other"} : call[c].at = "none"
  BY <1>2 DEF Roles!Init
<1>7. /\ counts \in Tallies /\ ~ (counts.seeds > 0)
      /\ together \in BOOLEAN /\ full \in BOOLEAN
  <2>1. counts = [seeds |-> 0, calls |-> 0, loads |-> 0, failures |-> 0]
    BY DEF Roles!Init
  <2>2. together = FALSE /\ full = FALSE
    BY DEF Roles!Init
  <2>3. counts \in Tallies /\ ~ (counts.seeds > 0)
    BY ONLY <2>1 DEF Tallies
  <2>4. together \in BOOLEAN /\ full \in BOOLEAN
    BY ONLY <2>2
  <2>. QED
    BY ONLY <2>3, <2>4
<1>8. SeedsAlone
  <2>1. \A p \in Seeds : /\ ~ Runs(seed[p]) /\ seed[p].at # "failed"
                        /\ RolesInOrder(seed[p], copies, Roles!There(Roles!Root))
    BY <1>5 DEF Runs, RolesInOrder, RoleSteps, RootSteps
  <2>. QED
    BY <1>3, <1>7, <2>1 DEF SeedsAlone
<1>9. RootNotSaved
  BY <1>6 DEF RootNotSaved, SavingSteps
<1>. QED
  BY <1>3, <1>4, <1>5, <1>6, <1>7, <1>8, <1>9 DEF AccountInv, AccountTypes

\* Something is counted.
LEMMA CountedOnce ==
  ASSUME AccountTypes, NEW what \in {"seeds", "calls", "loads", "failures"}, Roles!Counted(what)
  PROVE  /\ counts' \in Tallies
         /\ counts'.failures >= counts.failures
         /\ what = "failures" => counts'.failures > 0
         /\ what # "seeds" => counts'.seeds = counts.seeds
<1>1. counts' = [counts EXCEPT ![what] = @ + 1]
  BY DEF Roles!Counted
<1>2. counts \in Tallies
  BY DEF AccountTypes
<1>3. CASE what = "seeds"
  BY <1>1, <1>2, <1>3 DEF Tallies
<1>4. CASE what = "calls"
  BY <1>1, <1>2, <1>4 DEF Tallies
<1>5. CASE what = "loads"
  BY <1>1, <1>2, <1>5 DEF Tallies
<1>6. CASE what = "failures"
  BY <1>1, <1>2, <1>6 DEF Tallies
<1>. QED
  BY <1>3, <1>4, <1>5, <1>6

\* The calls and the page leave the seeds alone.
LEMMA SeedsKept ==
  ASSUME AccountTypes, SeedsAlone, UNCHANGED <<copies, seed, full>>, counts' \in Tallies,
         counts'.seeds = counts.seeds, counts'.failures >= counts.failures,
         Roles!There(Roles!Root)' = Roles!There(Roles!Root), RootKept => RootKept'
  PROVE  SeedsAlone'
<1>1. \A p \in Seeds : RolesInOrder(seed[p], copies, Roles!There(Roles!Root))'
  BY DEF SeedsAlone, RolesInOrder
<1>2. \A p \in Seeds : Runs(seed[p])' = Runs(seed[p])
  BY DEF Runs
<1>3. counts.failures \in Nat /\ counts'.failures \in Nat
  BY DEF AccountTypes, Tallies
<1>4. \A p \in Seeds : seed'[p].at = "failed" => counts'.failures > 0
  BY <1>3 DEF SeedsAlone
<1>. QED
  BY <1>1, <1>2, <1>4 DEF SeedsAlone

\* Seed p goes on as s.
SeedTurns(p, s) == seed' = [seed EXCEPT ![p] = s]

LEMMA SeedTurned ==
  ASSUME AccountTypes, NEW p \in Seeds, NEW s \in SeedStates, SeedTurns(p, s)
  PROVE  /\ seed' \in [Seeds -> SeedStates]
         /\ \A q \in Seeds : seed'[q] = IF q = p THEN s ELSE seed[q]
BY DEF AccountTypes, SeedTurns

LEMMA WithAt ==
  ASSUME NEW s \in SeedStates, NEW at \in SeedSteps
  PROVE  /\ Roles!With(s, at) \in SeedStates /\ Roles!With(s, at).at = at
         /\ Roles!With(s, at).next = s.next /\ Roles!With(s, at).sawRoot = s.sawRoot
BY DEF Roles!With, SeedStates

LEMMA NoSeedIsOff == Roles!NoSeed \in SeedStates /\ Roles!NoSeed.at = "off"
BY DEF Roles!NoSeed, SeedStates, SeedSteps

LEMMA NextIs ==
  ASSUME NEW s \in SeedStates
  PROVE  /\ Roles!NextRole(s) \in SeedStates
         /\ s.next = 3 => Roles!NextRole(s).at = "find_root"
         /\ s.next # 3 => /\ Roles!NextRole(s).at = "find_role"
                          /\ Roles!NextRole(s).next = s.next + 1
<1>1. CASE s.next = 3
  <2>1. Roles!NextRole(s) = Roles!With(s, "find_root")
    BY <1>1, TheOrder DEF Roles!NextRole
  <2>. QED
    BY <1>1, <2>1, WithAt DEF SeedSteps, RootSteps
<1>2. CASE s.next # 3
  <2>1. Roles!NextRole(s) = [s EXCEPT !.at = "find_role", !.next = @ + 1]
    <3>1. s.next # Len(Roles!SeedOrder)
      BY <1>2, TheOrder
    <3>. QED
      BY ONLY <3>1 DEF Roles!NextRole
  <2>2. PICK at \in SeedSteps, byHand \in BOOLEAN, next \in 1 .. 3, sawRoot \in BOOLEAN :
          s = [at |-> at, script |-> byHand, next |-> next, sawRoot |-> sawRoot]
    BY DEF SeedStates
  <2>3. Roles!NextRole(s)
          = [at |-> "find_role", script |-> byHand, next |-> next + 1, sawRoot |-> sawRoot]
    BY ONLY <2>1, <2>2
  <2>4. s.next = next /\ next + 1 \in 1 .. 3
    BY <1>2, <2>2
  <2>. QED
    BY ONLY <1>2, <2>3, <2>4 DEF SeedStates, SeedSteps, RoleSteps
<1>. QED
  BY <1>1, <1>2

\* The only seed that runs starts, goes on, or stops.
LEMMA SeedGoesOn ==
  ASSUME AccountTypes, SeedsAlone, NEW p \in Seeds, NEW s \in SeedStates, SeedTurns(p, s),
         Runs(seed[p]) \/ (\A q \in Seeds : q # p => ~ Runs(seed[q])),
         RolesInOrder(s, copies', Roles!There(Roles!Root)'),
         \A r \in Roles!RoleNames : copies'[r] <= 1, counts' \in Tallies,
         s.at = "failed" => counts'.failures > 0,
         counts'.failures >= counts.failures,
         s.at = "off" => full' \/ RootKept'
  PROVE  SeedsAlone'
<1>1. \A q \in Seeds : seed'[q] = IF q = p THEN s ELSE seed[q]
  BY SeedTurned
<1>2. \A q \in Seeds : q # p => ~ Runs(seed[q])
  BY DEF SeedsAlone
<1>3. \A q \in Seeds : RolesInOrder(seed[q], copies, Roles!There(Roles!Root))'
  <2>. TAKE q \in Seeds
  <2>1. CASE q = p
    BY <1>1, <2>1 DEF RolesInOrder
  <2>2. CASE q # p
    <3>1. seed'[q].at \in {"off", "failed"}
      BY <1>1, <1>2, <2>2 DEF Runs
    <3>. QED
      BY <3>1 DEF RolesInOrder, RoleSteps, RootSteps
  <2>. QED
    BY <2>1, <2>2
<1>4. \A q \in Seeds : seed'[q].at = "failed" => counts'.failures > 0
  <2>1. counts.failures \in Nat /\ counts'.failures \in Nat
    BY DEF AccountTypes, Tallies
  <2>. QED
    BY <1>1, <2>1 DEF SeedsAlone
<1>5. \A q, t \in Seeds : Runs(seed'[q]) /\ Runs(seed'[t]) => q = t
  BY <1>1, <1>2
<1>6. (Runs(seed[p]))' = Runs(seed'[p])
  BY DEF Runs
<1>7. \A q, t \in Seeds : Runs(seed[q])' /\ Runs(seed[t])' => q = t
  BY <1>5 DEF Runs
<1>8. ~ full' => RootKept' \/ \E q \in Seeds : seed'[q].at # "off"
  BY <1>1
<1>. QED
  BY <1>3, <1>4, <1>7, <1>8 DEF SeedsAlone

\* What a seed that runs knows, unless two ran at once.
LEMMA SeedKnows ==
  ASSUME AccountInv, ~ together, NEW p \in Seeds
  PROVE  /\ SeedsAlone /\ seed[p] \in SeedStates
         /\ RolesInOrder(seed[p], copies, Roles!There(Roles!Root))
         /\ copies \in [Roles!RoleNames -> Nat]
BY DEF AccountInv, AccountTypes, SeedsAlone

LEMMA OrderIsOfRoles ==
  /\ \A i \in 1 .. 3 : Roles!SeedOrder[i] \in Roles!RoleNames
  /\ \A r \in Roles!RoleNames : \E i \in 1 .. 3 : r = Roles!SeedOrder[i]
  /\ \A i, j \in 1 .. 3 : Roles!SeedOrder[i] = Roles!SeedOrder[j] => i = j
<1>1. \A i \in 1 .. 3 : i = 1 \/ i = 2 \/ i = 3
  OBVIOUS
<1>2. 1 \in 1 .. 3 /\ 2 \in 1 .. 3 /\ 3 \in 1 .. 3
  OBVIOUS
<1>. QED
  BY <1>1, <1>2, TheOrder DEF Roles!RoleNames

\* A role is there, and the seed goes on to the next.
LEMMA OnToNextRole ==
  ASSUME NEW s \in SeedStates, NEW root, NEW c \in [Roles!RoleNames -> Nat],
         copies' = c,
         \A i \in 1 .. 3 : i <= s.next => c[Roles!SeedOrder[i]] = 1
  PROVE  /\ RolesInOrder(Roles!NextRole(s), copies', root) /\ Roles!NextRole(s) \in SeedStates
         /\ Roles!NextRole(s).at \in {"find_role", "find_root"}
<1>1. s.next \in 1 .. 3
  BY DEF SeedStates
<1>2. CASE s.next = 3
  <2>1. \A r \in Roles!RoleNames : c[r] = 1
    BY <1>2, OrderIsOfRoles
  <2>2. Roles!NextRole(s).at = "find_root" /\ Roles!NextRole(s) \in SeedStates
    BY <1>2, NextIs
  <2>. QED
    BY <2>1, <2>2 DEF RolesInOrder, RoleSteps
<1>3. CASE s.next # 3
  <2>1. /\ Roles!NextRole(s).at = "find_role" /\ Roles!NextRole(s) \in SeedStates
        /\ Roles!NextRole(s).next = s.next + 1
    BY <1>3, NextIs
  <2>2. \A i \in 1 .. 3 : i < s.next + 1 => c[Roles!SeedOrder[i]] = 1
    BY <1>1
  <2>. QED
    BY <2>1, <2>2 DEF RolesInOrder, RootSteps
<1>. QED
  BY <1>2, <1>3

\* The steps of a seed.
LEMMA CallsKept ==
  ASSUME AccountInv, UNCHANGED call
  PROVE  call' \in [{"page", "other"} -> CallStates] /\ RootNotSaved'
BY DEF AccountInv, AccountTypes, RootNotSaved

LEMMA RootGiven ==
  ASSUME AccountTypes, account' = Roles!GivenRoles(Roles!Root, Roles!RootRoles)
  PROVE  /\ account' \in [Roles!Accounts -> {{}} \cup {{R} : R \in RoleSets}] /\ RootKept'
<1>1. Roles!RootRoles \in RoleSets
  BY DEF Roles!RootRoles, RoleSets, Roles!RoleNames
<1>2. Roles!Root \in Roles!Accounts
  BY DEF Roles!Accounts
<1>3. account' = [account EXCEPT ![Roles!Root] = {Roles!RootRoles}]
  BY DEF Roles!GivenRoles
<1>4. account' \in [Roles!Accounts -> {{}} \cup {{R} : R \in RoleSets}]
      /\ account'[Roles!Root] = {Roles!RootRoles}
  BY <1>1, <1>2, <1>3 DEF AccountTypes
<1>5. (CHOOSE roles \in account'[Roles!Root] : TRUE) = Roles!RootRoles
  BY <1>4
<1>. QED
  BY <1>4, <1>5 DEF RootKept, Roles!There, Roles!RolesOf

\* The kept parts of the invariant, for a step of a seed that runs.
LEMMA SeedStepKeeps ==
  ASSUME AccountInv, NEW p \in Seeds, NEW s \in SeedStates, SeedTurns(p, s),
         UNCHANGED <<call, together>>,
         copies' \in [Roles!RoleNames -> Nat], counts' \in Tallies, full' \in BOOLEAN,
         account' \in [Roles!Accounts -> {{}} \cup {{R} : R \in RoleSets}],
         ~ together => SeedsAlone'
  PROVE  AccountInv'
<1>1. call' \in [{"page", "other"} -> CallStates] /\ RootNotSaved'
  BY CallsKept
<1>2. seed' \in [Seeds -> SeedStates]
  BY SeedTurned DEF AccountInv
<1>3. together' \in BOOLEAN
  BY DEF AccountInv, AccountTypes
<1>. QED
  BY <1>1, <1>2, <1>3 DEF AccountInv, AccountTypes

LEMMA FindRoleKeeps ==
  ASSUME AccountInv, NEW p \in Seeds, Roles!FindRole(p)
  PROVE  AccountInv'
<1>. DEFINE s == IF copies[Roles!SeedOrder[seed[p].next]] = 0 THEN Roles!With(seed[p], "save_role")
                 ELSE Roles!NextRole(seed[p])
<1>1. /\ seed[p].at = "find_role" /\ SeedTurns(p, s)
      /\ UNCHANGED <<copies, account, call, counts, together, full>>
  BY DEF Roles!FindRole, SeedTurns
<1>2. seed[p] \in SeedStates /\ "save_role" \in SeedSteps
  BY DEF AccountInv, AccountTypes, SeedSteps, RoleSteps
<1>3. s \in SeedStates
  BY <1>2, WithAt, NextIs
<1>4. ASSUME ~ together PROVE SeedsAlone'
  <2>1. /\ SeedsAlone /\ copies \in [Roles!RoleNames -> Nat]
        /\ \A i \in 1 .. 3 : i < seed[p].next => copies[Roles!SeedOrder[i]] = 1
    BY <1>1, <1>4, SeedKnows DEF RolesInOrder, RoleSteps
  <2>2. /\ s.at \in {"save_role", "find_role", "find_root"}
        /\ RolesInOrder(s, copies', Roles!There(Roles!Root)')
    <3>1. CASE copies[Roles!SeedOrder[seed[p].next]] = 0
      <4>1. /\ s.at = "save_role" /\ s.next = seed[p].next
        BY <1>2, <3>1, WithAt
      <4>. HIDE DEF s
      <4>. QED
        BY <1>1, <2>1, <3>1, <4>1 DEF RolesInOrder, RootSteps
    <3>2. CASE copies[Roles!SeedOrder[seed[p].next]] # 0
      <4>1. s = Roles!NextRole(seed[p])
        BY <3>2
      <4>2. seed[p].next \in 1 .. 3 /\ copies[Roles!SeedOrder[seed[p].next]] <= 1
        BY <1>2, <2>1, OrderIsOfRoles DEF SeedStates, SeedsAlone
      <4>3. copies[Roles!SeedOrder[seed[p].next]] = 1
        BY <2>1, <3>2, <4>2, OrderIsOfRoles
      <4>4. \A i \in 1 .. 3 : i <= seed[p].next => copies[Roles!SeedOrder[i]] = 1
        BY <2>1, <4>2, <4>3
      <4>. HIDE DEF s
      <4>. QED
        BY <1>1, <1>2, <2>1, <4>1, <4>4, OnToNextRole
    <3>. QED
      BY <3>1, <3>2
  <2>. HIDE DEF s
  <2>3. counts \in Tallies /\ counts.failures >= counts.failures
    BY DEF AccountInv, AccountTypes, Tallies
  <2>4. Runs(seed[p]) /\ \A r \in Roles!RoleNames : copies[r] <= 1
    BY <1>1, <2>1 DEF Runs, SeedsAlone
  <2>. QED
    BY <1>1, <1>3, <2>1, <2>2, <2>3, <2>4, SeedGoesOn DEF AccountInv
<1>. HIDE DEF s
<1>. QED
  BY <1>1, <1>3, <1>4, SeedStepKeeps DEF AccountInv, AccountTypes

LEMMA SaveRoleKeeps ==
  ASSUME AccountInv, NEW p \in Seeds, Roles!SaveRole(p)
  PROVE  AccountInv'
<1>. DEFINE s == Roles!NextRole(seed[p])
            role == Roles!SeedOrder[seed[p].next]
<1>1. /\ seed[p].at = "save_role" /\ SeedTurns(p, s)
      /\ copies' = [copies EXCEPT ![role] = @ + 1]
      /\ UNCHANGED <<account, call, counts, together, full>>
  BY DEF Roles!SaveRole, SeedTurns
<1>2. seed[p] \in SeedStates
  BY DEF AccountInv, AccountTypes
<1>3. s \in SeedStates /\ role \in Roles!RoleNames
  BY <1>2, NextIs, OrderIsOfRoles DEF SeedStates
<1>4. copies' \in [Roles!RoleNames -> Nat]
  BY <1>1, <1>3 DEF AccountInv, AccountTypes
<1>5. ASSUME ~ together PROVE SeedsAlone'
  <2>1. /\ SeedsAlone /\ copies \in [Roles!RoleNames -> Nat]
        /\ \A i \in 1 .. 3 : i < seed[p].next => copies[Roles!SeedOrder[i]] = 1
        /\ copies[role] = 0
    BY <1>1, <1>5, SeedKnows DEF RolesInOrder, RoleSteps
  <2>2. \A r \in Roles!RoleNames : copies'[r] = IF r = role THEN 1 ELSE copies[r]
    BY <1>1, <1>3, <2>1
  <2>3. seed[p].next \in 1 .. 3
    BY <1>2 DEF SeedStates
  <2>4. \A i \in 1 .. 3 : i <= seed[p].next => copies'[Roles!SeedOrder[i]] = 1
    <3>. TAKE i \in 1 .. 3
    <3>. HAVE i <= seed[p].next
    <3>1. CASE i = seed[p].next
      BY <1>3, <2>2, <3>1
    <3>2. CASE i # seed[p].next
      BY <2>1, <2>2, <2>3, <3>2, OrderIsOfRoles
    <3>. QED
      BY <3>1, <3>2
  <2>. HIDE DEF role
  <2>5. s.at \in {"find_role", "find_root"} /\ RolesInOrder(s, copies', Roles!There(Roles!Root)')
    BY <1>2, <1>4, <2>4, OnToNextRole
  <2>. HIDE DEF s
  <2>6. counts \in Tallies /\ counts.failures >= counts.failures
    BY DEF AccountInv, AccountTypes, Tallies
  <2>7. Runs(seed[p]) /\ \A r \in Roles!RoleNames : copies'[r] <= 1
    BY <1>1, <2>1, <2>2 DEF Runs, SeedsAlone
  <2>. QED
    BY <1>1, <1>3, <2>1, <2>5, <2>6, <2>7, SeedGoesOn DEF AccountInv
<1>. HIDE DEF s, role
<1>. QED
  BY <1>1, <1>3, <1>4, <1>5, SeedStepKeeps DEF AccountInv, AccountTypes

LEMMA SeedStartKeeps ==
  ASSUME AccountInv, NEW p \in Seeds, NEW byHand \in BOOLEAN, Roles!SeedStart(p, byHand)
  PROVE  AccountInv'
<1>. DEFINE s == [Roles!NoSeed EXCEPT !.at = "find_role", !.script = byHand]
<1>1. /\ SeedTurns(p, s) /\ Roles!Counted("seeds")
      /\ together' = (together \/ \E q \in Seeds \ {p} : Runs(seed[q]))
      /\ UNCHANGED <<copies, account, call, full>>
  BY DEF Roles!SeedStart, SeedTurns, Runs
<1>2. s \in SeedStates /\ s.at = "find_role" /\ s.next = 1
  <2>1. PICK idle : idle = [at |-> "off", script |-> FALSE, next |-> 1, sawRoot |-> FALSE]
    OBVIOUS
  <2>2. s = [idle EXCEPT !.at = "find_role", !.script = byHand]
    BY <2>1 DEF Roles!NoSeed
  <2>. HIDE DEF s
  <2>3. s = [at |-> "find_role", script |-> byHand, next |-> 1, sawRoot |-> FALSE]
    BY ONLY <2>1, <2>2
  <2>. QED
    BY ONLY <2>3 DEF SeedStates, SeedSteps, RoleSteps
<1>. HIDE DEF s
<1>3. counts' \in Tallies /\ counts'.failures >= counts.failures
  BY <1>1, CountedOnce DEF AccountInv
<1>4. ASSUME ~ together' PROVE SeedsAlone'
  <2>1. ~ together /\ \A q \in Seeds : q # p => ~ Runs(seed[q])
    BY <1>1, <1>4
  <2>2. SeedsAlone /\ \A r \in Roles!RoleNames : copies[r] <= 1
    BY <2>1 DEF AccountInv, SeedsAlone
  <2>3. RolesInOrder(s, copies', Roles!There(Roles!Root)')
    BY <1>2 DEF RolesInOrder, RootSteps
  <2>. QED
    BY <1>1, <1>2, <1>3, <2>1, <2>2, <2>3, SeedGoesOn DEF AccountInv
<1>5. call' \in [{"page", "other"} -> CallStates] /\ RootNotSaved'
  BY <1>1, CallsKept
<1>6. seed' \in [Seeds -> SeedStates]
  BY <1>1, <1>2, SeedTurned DEF AccountInv
<1>7. together' \in BOOLEAN
  BY <1>1
<1>8. /\ copies' \in [Roles!RoleNames -> Nat] /\ full' \in BOOLEAN
      /\ account' \in [Roles!Accounts -> {{}} \cup {{R} : R \in RoleSets}]
  BY <1>1 DEF AccountInv, AccountTypes
<1>. QED
  BY ONLY <1>3, <1>4, <1>5, <1>6, <1>7, <1>8 DEF AccountInv, AccountTypes

LEMMA RootLooked ==
  ASSUME NEW f, NEW p, p \in DOMAIN f, NEW x, NEW y, f[p] \in SeedStates
  PROVE  [f EXCEPT ![p].sawRoot = x, ![p].at = y]
           = [f EXCEPT ![p] = [f[p] EXCEPT !.sawRoot = x, !.at = y]]
OBVIOUS

LEMMA FindRootKeeps ==
  ASSUME AccountInv, NEW p \in Seeds, Roles!FindRoot(p)
  PROVE  AccountInv'
<1>. DEFINE at == IF seed[p].script THEN "write_root" ELSE "find_roles"
            s == [seed[p] EXCEPT !.sawRoot = Roles!There(Roles!Root), !.at = at]
<1>1. seed[p] \in SeedStates /\ p \in DOMAIN seed
  BY DEF AccountInv, AccountTypes
<1>2. /\ seed[p].at = "find_root"
      /\ seed' = [seed EXCEPT ![p].sawRoot = Roles!There(Roles!Root), ![p].at = at]
      /\ UNCHANGED <<copies, account, call, counts, together, full>>
  BY DEF Roles!FindRoot
<1>3. SeedTurns(p, s)
  BY <1>1, <1>2, RootLooked DEF SeedTurns
<1>4. at \in {"write_root", "find_roles"}
  OBVIOUS
<1>5. Roles!There(Roles!Root) \in BOOLEAN
  BY DEF Roles!There
<1>. HIDE DEF at
<1>6. s \in SeedStates /\ s.at = at /\ s.sawRoot = Roles!There(Roles!Root)
  BY <1>1, <1>4, <1>5 DEF SeedStates, SeedSteps, RootSteps
<1>. HIDE DEF s
<1>7. ASSUME ~ together PROVE SeedsAlone'
  <2>1. SeedsAlone /\ \A r \in Roles!RoleNames : copies[r] = 1
    BY <1>2, <1>7, SeedKnows DEF RolesInOrder, RootSteps
  <2>2. RolesInOrder(s, copies', Roles!There(Roles!Root)')
    <3>1. Roles!There(Roles!Root)' = Roles!There(Roles!Root)
      BY <1>2 DEF Roles!There
    <3>. QED
      BY <1>2, <1>4, <1>6, <2>1, <3>1 DEF RolesInOrder, RoleSteps
  <2>3. counts \in Tallies /\ counts.failures >= counts.failures
    BY DEF AccountInv, AccountTypes, Tallies
  <2>4. Runs(seed[p]) /\ \A r \in Roles!RoleNames : copies[r] <= 1
    BY <1>2, <2>1 DEF Runs, SeedsAlone
  <2>5. s.at \notin {"off", "failed"}
    BY <1>4, <1>6
  <2>. QED
    BY <1>2, <1>3, <1>6, <2>1, <2>2, <2>3, <2>4, <2>5, SeedGoesOn DEF AccountInv
<1>. QED
  BY <1>2, <1>3, <1>6, <1>7, SeedStepKeeps DEF AccountInv, AccountTypes

LEMMA TwoRootRoles == Roles!Cardinality(Roles!RootRoles) = 2
<1>1. IsFiniteSet({"user"}) /\ Cardinality({"user"}) = 1
  BY FS_Singleton
<1>2. Roles!RootRoles = {"user"} \cup {"super_admin"} /\ "super_admin" \notin {"user"}
  BY DEF Roles!RootRoles
<1>3. Cardinality(Roles!RootRoles) = 2
  BY <1>1, <1>2, FS_AddElement
<1>. QED
  BY <1>3 DEF Cardinality, Roles!Cardinality

LEMMA FindRolesKeeps ==
  ASSUME AccountInv, NEW p \in Seeds, Roles!FindRoles(p)
  PROVE  AccountInv'
<1>. DEFINE two == copies["user"] + copies["super_admin"] = Roles!Cardinality(Roles!RootRoles)
            at == IF two THEN "write_root" ELSE "failed"
            s == Roles!With(seed[p], at)
<1>1. seed[p] \in SeedStates
  BY DEF AccountInv, AccountTypes
<1>2. /\ seed[p].at = "find_roles" /\ SeedTurns(p, s)
      /\ UNCHANGED <<copies, account, call, counts, together, full>>
  BY DEF Roles!FindRoles, SeedTurns
<1>3. at \in SeedSteps /\ (two => at = "write_root")
  BY DEF SeedSteps, RootSteps
<1>. HIDE DEF at
<1>4. s \in SeedStates /\ s.at = at /\ s.sawRoot = seed[p].sawRoot
  BY <1>1, <1>3, WithAt
<1>. HIDE DEF s
<1>5. ASSUME ~ together PROVE SeedsAlone'
  <2>1. /\ SeedsAlone /\ \A r \in Roles!RoleNames : copies[r] = 1
        /\ seed[p].sawRoot = Roles!There(Roles!Root)
    BY <1>2, <1>5, SeedKnows DEF RolesInOrder, RootSteps
  <2>2. s.at = "write_root"
    <3>1. copies["user"] = 1 /\ copies["super_admin"] = 1
      BY <2>1 DEF Roles!RoleNames
    <3>. QED
      BY <1>3, <1>4, <3>1, TwoRootRoles
  <2>3. RolesInOrder(s, copies', Roles!There(Roles!Root)')
    <3>1. Roles!There(Roles!Root)' = Roles!There(Roles!Root)
      BY <1>2 DEF Roles!There
    <3>. QED
      BY <1>2, <1>4, <2>1, <2>2, <3>1 DEF RolesInOrder, RoleSteps
  <2>4. counts \in Tallies /\ counts.failures >= counts.failures
    BY DEF AccountInv, AccountTypes, Tallies
  <2>5. Runs(seed[p]) /\ \A r \in Roles!RoleNames : copies[r] <= 1
    BY <1>2, <2>1 DEF Runs, SeedsAlone
  <2>. QED
    BY <1>2, <1>4, <2>1, <2>2, <2>3, <2>4, <2>5, SeedGoesOn DEF AccountInv
<1>. QED
  BY <1>2, <1>4, <1>5, SeedStepKeeps DEF AccountInv, AccountTypes

LEMMA WriteRootKeeps ==
  ASSUME AccountInv, NEW p \in Seeds, Roles!WriteRoot(p)
  PROVE  AccountInv'
<1>1. seed[p] \in SeedStates /\ counts \in Tallies /\ counts.failures >= counts.failures
  BY DEF AccountInv, AccountTypes, Tallies
<1>2. seed[p].at = "write_root" /\ UNCHANGED <<copies, call, counts, together, full>>
  BY DEF Roles!WriteRoot
<1>3. CASE ~ seed[p].sawRoot /\ Roles!There(Roles!Root)
  <2>. DEFINE s == Roles!With(seed[p], "failed")
  <2>1. SeedTurns(p, s) /\ UNCHANGED account
    BY <1>3 DEF Roles!WriteRoot, SeedTurns
  <2>2. s \in SeedStates
    BY <1>1, WithAt DEF SeedSteps
  <2>3. together
    <3>1. ASSUME ~ together PROVE seed[p].sawRoot = Roles!There(Roles!Root)
      BY <1>2, <3>1, SeedKnows DEF RolesInOrder
    <3>2. seed[p].sawRoot \in BOOLEAN
      BY <1>1 DEF SeedStates
    <3>. QED
      BY <1>3, <3>1, <3>2
  <2>. HIDE DEF s
  <2>. QED
    BY <1>2, <2>1, <2>2, <2>3, SeedStepKeeps DEF AccountInv, AccountTypes
<1>4. CASE ~ (~ seed[p].sawRoot /\ Roles!There(Roles!Root))
  <2>1. /\ SeedTurns(p, Roles!NoSeed)
        /\ account' = Roles!GivenRoles(Roles!Root, Roles!RootRoles)
    BY <1>4 DEF Roles!WriteRoot, SeedTurns
  <2>2. RootKept' /\ account' \in [Roles!Accounts -> {{}} \cup {{R} : R \in RoleSets}]
    BY <2>1, RootGiven DEF AccountInv
  <2>3. ASSUME ~ together PROVE SeedsAlone'
    <3>1. SeedsAlone /\ Runs(seed[p]) /\ \A r \in Roles!RoleNames : copies[r] <= 1
      BY <1>2, <2>3 DEF AccountInv, SeedsAlone, Runs
    <3>2. RolesInOrder(Roles!NoSeed, copies', Roles!There(Roles!Root)')
      BY NoSeedIsOff DEF RolesInOrder, RoleSteps, RootSteps
    <3>. QED
      BY <1>1, <1>2, <2>1, <2>2, <3>1, <3>2, NoSeedIsOff, SeedGoesOn DEF AccountInv
  <2>. QED
    BY <1>1, <1>2, <2>1, <2>2, <2>3, NoSeedIsOff, SeedStepKeeps DEF AccountInv, AccountTypes
<1>. QED
  BY <1>3, <1>4

LEMMA SeedErrorKeeps ==
  ASSUME AccountInv, NEW p \in Seeds, NEW quota \in BOOLEAN, Roles!SeedError(p, quota)
  PROVE  AccountInv'
<1>. DEFINE s == IF quota THEN Roles!NoSeed ELSE Roles!With(seed[p], "failed")
<1>1. /\ SeedTurns(p, s) /\ Runs(seed[p]) /\ Roles!Counted("failures")
      /\ full' = (full \/ quota) /\ UNCHANGED <<copies, account, call, together>>
  BY DEF Roles!SeedError, SeedTurns, Runs
<1>2. /\ s \in SeedStates /\ s.at \in {"off", "failed"} /\ (s.at = "off" => quota)
  <2>1. seed[p] \in SeedStates /\ "failed" \in SeedSteps
    BY DEF AccountInv, AccountTypes, SeedSteps
  <2>2. /\ Roles!With(seed[p], "failed") \in SeedStates
        /\ Roles!With(seed[p], "failed").at = "failed"
    BY <2>1, WithAt
  <2>. QED
    BY <2>2, NoSeedIsOff
<1>. HIDE DEF s
<1>3. counts' \in Tallies /\ counts'.failures >= counts.failures /\ counts'.failures > 0
  BY <1>1, CountedOnce DEF AccountInv
<1>4. full' \in BOOLEAN /\ (s.at = "off" => full')
  BY <1>1, <1>2
<1>5. ASSUME ~ together PROVE SeedsAlone'
  <2>1. SeedsAlone /\ \A r \in Roles!RoleNames : copies[r] <= 1
    BY <1>5 DEF AccountInv, SeedsAlone
  <2>2. RolesInOrder(s, copies', Roles!There(Roles!Root)')
    BY <1>2 DEF RolesInOrder, RoleSteps, RootSteps
  <2>. QED
    BY <1>1, <1>2, <1>3, <1>4, <2>1, <2>2, SeedGoesOn DEF AccountInv
<1>. QED
  BY <1>1, <1>2, <1>3, <1>4, <1>5, SeedStepKeeps DEF AccountInv, AccountTypes

\* The steps of the calls and of the page.
CallTurns(c, r) == call' = [call EXCEPT ![c] = r]

LEMMA RootUntouched ==
  ASSUME UNCHANGED account
  PROVE  Roles!There(Roles!Root)' = Roles!There(Roles!Root) /\ (RootKept => RootKept')
BY DEF Roles!There, RootKept, Roles!RolesOf

LEMMA RolesGiven ==
  ASSUME AccountTypes, NEW u \in Roles!Accounts, NEW R \in RoleSets,
         account' = Roles!GivenRoles(u, R),
         u = Roles!Root => /\ Roles!There(Roles!Root)
                           /\ Roles!RootRoles \subseteq Roles!RolesOf(u) =>
                                Roles!RootRoles \subseteq R
  PROVE  /\ account' \in [Roles!Accounts -> {{}} \cup {{T} : T \in RoleSets}]
         /\ Roles!There(Roles!Root)' = Roles!There(Roles!Root)
         /\ RootKept => RootKept'
<1>1. account' = [account EXCEPT ![u] = {R}]
  BY DEF Roles!GivenRoles
<1>2. account' \in [Roles!Accounts -> {{}} \cup {{T} : T \in RoleSets}]
  BY <1>1 DEF AccountTypes
<1>3. CASE u # Roles!Root
  <2>1. account'[Roles!Root] = account[Roles!Root]
    BY <1>1, <1>3 DEF AccountTypes, Roles!Accounts
  <2>. QED
    BY <1>2, <2>1 DEF Roles!There, RootKept, Roles!RolesOf
<1>4. CASE u = Roles!Root
  <2>1. account'[Roles!Root] = {R}
    BY <1>1, <1>4 DEF AccountTypes
  <2>2. Roles!There(Roles!Root)' = TRUE /\ Roles!There(Roles!Root) = TRUE
    BY <1>4, <2>1 DEF Roles!There
  <2>3. Roles!RolesOf(Roles!Root)' = R
    <3>1. (CHOOSE roles \in account'[Roles!Root] : TRUE) \in account'[Roles!Root]
      BY <2>1
    <3>. QED
      BY <2>1, <3>1 DEF Roles!RolesOf
  <2>4. RootKept => RootKept'
    BY <1>4, <2>2, <2>3 DEF RootKept
  <2>. QED
    BY <1>2, <2>2, <2>4
<1>. QED
  BY <1>3, <1>4

LEMMA CallStepKeeps ==
  ASSUME AccountInv, NEW c \in {"page", "other"}, NEW r \in CallStates, CallTurns(c, r),
         r.at \in SavingSteps => r.user # Roles!Root,
         UNCHANGED <<copies, seed, together, full>>,
         account' \in [Roles!Accounts -> {{}} \cup {{R} : R \in RoleSets}],
         counts' \in Tallies, counts'.seeds = counts.seeds, counts'.failures >= counts.failures,
         Roles!There(Roles!Root)' = Roles!There(Roles!Root), RootKept => RootKept'
  PROVE  AccountInv'
<1>1. call' \in [{"page", "other"} -> CallStates]
      /\ \A d \in {"page", "other"} : call'[d] = IF d = c THEN r ELSE call[d]
  BY DEF CallTurns, AccountInv, AccountTypes
<1>2. RootNotSaved'
  BY <1>1 DEF AccountInv, RootNotSaved
<1>3. ~ together => SeedsAlone'
  BY SeedsKept DEF AccountInv
<1>4. copies' \in [Roles!RoleNames -> Nat] /\ seed' \in [Seeds -> SeedStates]
      /\ together' \in BOOLEAN /\ full' \in BOOLEAN
  BY DEF AccountInv, AccountTypes
<1>5. AccountTypes'
  BY ONLY <1>1, <1>4, counts' \in Tallies,
          account' \in [Roles!Accounts -> {{}} \cup {{R} : R \in RoleSets}] DEF AccountTypes
<1>. QED
  BY <1>2, <1>3, <1>5 DEF AccountInv

\* The same, for a step that writes no account and counts nothing.
LEMMA CallGoesOn ==
  ASSUME AccountInv, NEW c \in {"page", "other"}, NEW r \in CallStates, CallTurns(c, r),
         r.at \in SavingSteps => r.user # Roles!Root,
         UNCHANGED <<copies, account, seed, counts, together, full>>
  PROVE  AccountInv'
<1>1. counts' \in Tallies /\ counts'.seeds = counts.seeds /\ counts'.failures >= counts.failures
  BY DEF AccountInv, AccountTypes, Tallies
<1>2. account' \in [Roles!Accounts -> {{}} \cup {{R} : R \in RoleSets}]
  BY DEF AccountInv, AccountTypes
<1>. QED
  BY <1>1, <1>2, RootUntouched, CallStepKeeps

LEMMA NoCallRests == Roles!NoCall \in CallStates /\ Roles!NoCall.at \notin SavingSteps
BY DEF Roles!NoCall, CallStates, CallSteps, RoleSets, Roles!Accounts, SavingSteps

LEMMA CallMoves ==
  ASSUME AccountTypes, NEW c \in {"page", "other"}, NEW at \in CallSteps, Roles!Goes(c, at)
  PROVE  \E r \in CallStates : CallTurns(c, r) /\ r.at = at /\ r.user = call[c].user
<1>. DEFINE r == [call[c] EXCEPT !.at = at]
<1>1. call[c] \in CallStates
  BY DEF AccountTypes
<1>2. r \in CallStates /\ r.at = at /\ r.user = call[c].user
  BY <1>1 DEF CallStates
<1>3. CallTurns(c, r)
  BY DEF Roles!Goes, CallTurns
<1>. HIDE DEF r
<1>. QED
  BY <1>2, <1>3

LEMMA CallSaw ==
  ASSUME AccountTypes, NEW c \in {"page", "other"}, NEW at \in CallSteps, NEW saw \in RoleSets,
         call' = [call EXCEPT ![c].at = at, ![c].saw = saw]
  PROVE  \E r \in CallStates : CallTurns(c, r) /\ r.at = at
<1>. DEFINE r == [call[c] EXCEPT !.at = at, !.saw = saw]
<1>1. call[c] \in CallStates /\ c \in DOMAIN call
  BY DEF AccountTypes
<1>2. r \in CallStates /\ r.at = at
  BY <1>1 DEF CallStates
<1>3. ASSUME NEW f, c \in DOMAIN f, f[c] \in CallStates
      PROVE  [f EXCEPT ![c].at = at, ![c].saw = saw]
               = [f EXCEPT ![c] = [f[c] EXCEPT !.at = at, !.saw = saw]]
  BY ONLY <1>3
<1>4. CallTurns(c, r)
  BY <1>1, <1>3 DEF CallTurns
<1>. HIDE DEF r
<1>. QED
  BY <1>2, <1>4

LEMMA AnswerGiven ==
  ASSUME AccountTypes, NEW c \in {"page", "other"}, NEW ok \in BOOLEAN, NEW roles \in RoleSets,
         Roles!Answered(c, ok, roles)
  PROVE  \E r \in CallStates : CallTurns(c, r) /\ r.at \notin SavingSteps
<1>. DEFINE at == IF ok THEN "done" ELSE "refused"
            r == [call[c] EXCEPT !.at = at, !.roles = roles, !.saw = {}]
<1>1. CASE c = "other"
  <2>1. CallTurns(c, Roles!NoCall)
    BY <1>1 DEF Roles!Answered, CallTurns
  <2>. QED
    BY <2>1, NoCallRests
<1>2. CASE c # "other"
  <2>1. CallTurns(c, r)
    BY <1>2 DEF Roles!Answered, CallTurns
  <2>2. at \in CallSteps \ SavingSteps
    BY DEF CallSteps, SavingSteps
  <2>. HIDE DEF at
  <2>3. call[c] \in CallStates /\ {} \in RoleSets
    BY DEF AccountTypes, RoleSets
  <2>4. r \in CallStates /\ r.at = at
    BY <2>2, <2>3 DEF CallStates
  <2>. HIDE DEF r
  <2>. QED
    BY <2>1, <2>2, <2>4
<1>. QED
  BY <1>1, <1>2

LEMMA CallEnds ==
  ASSUME AccountTypes, NEW c \in {"page", "other"}, NEW ok \in BOOLEAN, Roles!Ends(c, ok)
  PROVE  \E r \in CallStates : CallTurns(c, r) /\ r.at \notin SavingSteps
<1>1. {} \in RoleSets
  BY DEF RoleSets
<1>. QED
  BY <1>1, AnswerGiven DEF Roles!Ends

LEMMA CallIsMade ==
  ASSUME AccountInv, NEW c \in {"page", "other"},
         NEW kind \in {"signup", "create", "promote", "demote"}, NEW u \in Roles!Accounts,
         NEW roles \in RoleSets, Roles!Call(c, kind, u, roles),
         kind \in {"signup", "create"} => u # Roles!Root,
         UNCHANGED <<copies, account, seed, together, full>>
  PROVE  AccountInv'
<1>. DEFINE at == Roles!FirstStep(kind)
            r == [Roles!NoCall EXCEPT !.at = at, !.kind = kind, !.user = u, !.roles = roles]
<1>1. /\ CallTurns(c, r) /\ Roles!Counted("calls")
  BY DEF Roles!Call, CallTurns
<1>2. at \in CallSteps /\ (at \in SavingSteps => kind \in {"signup", "create"})
  BY DEF Roles!FirstStep, CallSteps, SavingSteps
<1>. HIDE DEF at
<1>3. r = [at |-> at, kind |-> kind, user |-> u, roles |-> roles, saw |-> {}]
  <2>1. PICK none : none = [at |-> "none", kind |-> "none", user |-> Roles!Root,
                            roles |-> {}, saw |-> {}]
    OBVIOUS
  <2>2. r = [none EXCEPT !.at = at, !.kind = kind, !.user = u, !.roles = roles]
    BY <2>1 DEF Roles!NoCall
  <2>. HIDE DEF r
  <2>. QED
    BY ONLY <2>1, <2>2
<1>. HIDE DEF r
<1>4. r \in CallStates /\ r.at = at /\ r.user = u
  BY ONLY <1>2, <1>3, kind \in {"signup", "create", "promote", "demote"},
          u \in Roles!Accounts, roles \in RoleSets DEF CallStates, RoleSets
<1>5. counts' \in Tallies /\ counts'.seeds = counts.seeds /\ counts'.failures >= counts.failures
  BY <1>1, CountedOnce DEF AccountInv
<1>6. account' \in [Roles!Accounts -> {{}} \cup {{R} : R \in RoleSets}]
  BY DEF AccountInv, AccountTypes
<1>. QED
  BY <1>1, <1>2, <1>4, <1>5, <1>6, RootUntouched, CallStepKeeps

LEMMA CallStepsKeep ==
  ASSUME AccountInv, NEW c \in {"page", "other"}, Roles!CallStep(c)
  PROVE  AccountInv'
<1>. DEFINE still == UNCHANGED <<copies, account, seed, counts, together, full>>
<1>1. /\ AccountTypes /\ call[c].user \in Roles!Accounts /\ call[c].roles \in RoleSets
      /\ call[c].at \in SavingSteps => call[c].user # Roles!Root
  BY DEF AccountInv, AccountTypes, RootNotSaved, CallStates
<1>2. ASSUME still, Roles!Ends(c, FALSE) PROVE AccountInv'
  BY <1>1, <1>2, CallEnds, CallGoesOn
<1>3. ASSUME still, NEW at \in CallSteps, Roles!Goes(c, at), call[c].at \in SavingSteps
      PROVE  AccountInv'
  BY <1>1, <1>3, CallMoves, CallGoesOn
<1>4. CASE Roles!CheckUser(c)
  <2>1. still /\ call[c].at \in SavingSteps /\ "find_roles" \in CallSteps
    BY <1>4 DEF Roles!CheckUser, SavingSteps, CallSteps
  <2>. HIDE DEF still
  <2>. QED
    BY <1>2, <1>3, <1>4, <2>1 DEF Roles!CheckUser
<1>5. CASE Roles!FindGivenRoles(c)
  <2>1. still /\ call[c].at \in SavingSteps /\ "save_user" \in CallSteps
    BY <1>5 DEF Roles!FindGivenRoles, SavingSteps, CallSteps
  <2>2. Roles!Goes(c, "save_user") \/ Roles!Ends(c, FALSE)
    BY <1>5 DEF Roles!FindGivenRoles
  <2>. HIDE DEF still
  <2>. QED
    BY <1>2, <1>3, <2>1, <2>2
<1>6. CASE Roles!SaveUser(c)
  <2>. DEFINE u == call[c].user
              ok == ~ Roles!There(u)
  <2>1. /\ call[c].at \in SavingSteps /\ Roles!Ends(c, ok) /\ ok \in BOOLEAN
        /\ account' = IF Roles!There(u) THEN account ELSE Roles!GivenRoles(u, call[c].roles)
        /\ UNCHANGED <<copies, seed, counts, together, full>>
    BY <1>6 DEF Roles!SaveUser, SavingSteps
  <2>. HIDE DEF ok
  <2>2. PICK r \in CallStates : CallTurns(c, r) /\ r.at \notin SavingSteps
    BY <1>1, <2>1, CallEnds
  <2>3. /\ account' \in [Roles!Accounts -> {{}} \cup {{R} : R \in RoleSets}]
        /\ Roles!There(Roles!Root)' = Roles!There(Roles!Root) /\ (RootKept => RootKept')
    <3>1. CASE Roles!There(u)
      BY <1>1, <2>1, <3>1, RootUntouched DEF AccountTypes
    <3>2. CASE ~ Roles!There(u)
      BY <1>1, <2>1, <3>2, RolesGiven
    <3>. QED
      BY <3>1, <3>2
  <2>4. counts' \in Tallies /\ counts'.seeds = counts.seeds /\ counts'.failures >= counts.failures
    BY <1>1, <2>1 DEF AccountTypes, Tallies
  <2>. QED
    BY <2>1, <2>2, <2>3, <2>4, CallStepKeeps
<1>7. CASE Roles!FindUser(c)
  <2>. DEFINE u == call[c].user
  <2>1. still
    BY <1>7 DEF Roles!FindUser
  <2>2. CASE Roles!Ends(c, FALSE)
    <3>. HIDE DEF still
    <3>. QED
      BY <1>2, <2>1, <2>2
  <2>3. ASSUME Roles!There(u),
               call' = [call EXCEPT ![c].at = "find_admin", ![c].saw = Roles!RolesOf(u)]
        PROVE  AccountInv'
    <3>1. Roles!RolesOf(u) \in RoleSets /\ "find_admin" \in CallSteps \ SavingSteps
      BY <1>1, <2>3, RolesOfIt DEF CallSteps, SavingSteps
    <3>2. PICK r \in CallStates : CallTurns(c, r) /\ r.at = "find_admin"
      BY <1>1, <2>3, <3>1, CallSaw
    <3>. QED
      BY <2>1, <3>1, <3>2, CallGoesOn
  <2>. HIDE DEF still
  <2>. QED
    BY <1>7, <2>2, <2>3 DEF Roles!FindUser
<1>8. CASE Roles!FindAdmin(c)
  <2>1. still
    BY <1>8 DEF Roles!FindAdmin
  <2>2. CASE Roles!Ends(c, FALSE)
    <3>. HIDE DEF still
    <3>. QED
      BY <1>2, <2>1, <2>2
  <2>3. CASE call' = [call EXCEPT ![c].at = "write_roles", ![c].saw = {}]
    <3>1. {} \in RoleSets /\ "write_roles" \in CallSteps \ SavingSteps
      BY DEF CallSteps, SavingSteps, RoleSets
    <3>2. PICK r \in CallStates : CallTurns(c, r) /\ r.at = "write_roles"
      BY <1>1, <2>3, <3>1, CallSaw
    <3>. QED
      BY <2>1, <3>1, <3>2, CallGoesOn
  <2>. HIDE DEF still
  <2>. QED
    BY <1>8, <2>2, <2>3 DEF Roles!FindAdmin
<1>9. CASE Roles!WriteRoles(c)
  <2>. DEFINE u == call[c].user
              after == IF call[c].kind = "promote" THEN Roles!RolesOf(u) \cup {"admin"}
                         ELSE Roles!RolesOf(u) \ {"admin"}
  <2>1. UNCHANGED <<copies, seed, counts, together, full>>
    BY <1>9 DEF Roles!WriteRoles
  <2>2. counts' \in Tallies /\ counts'.seeds = counts.seeds /\ counts'.failures >= counts.failures
    BY <1>1, <2>1 DEF AccountTypes, Tallies
  <2>3. CASE Roles!There(u)
    <3>1. account' = Roles!GivenRoles(u, after) /\ Roles!Answered(c, TRUE, after)
      BY <1>9, <2>3 DEF Roles!WriteRoles
    <3>2. Roles!RolesOf(u) \in RoleSets
      BY <1>1, <2>3, RolesOfIt
    <3>3. after \in RoleSets
      BY <3>2 DEF RoleSets, Roles!RoleNames
    <3>4. Roles!RootRoles \subseteq Roles!RolesOf(u) => Roles!RootRoles \subseteq after
      BY DEF Roles!RootRoles
    <3>. HIDE DEF after
    <3>5. PICK r \in CallStates : CallTurns(c, r) /\ r.at \notin SavingSteps
      BY <1>1, <3>1, <3>3, AnswerGiven
    <3>6. /\ account' \in [Roles!Accounts -> {{}} \cup {{R} : R \in RoleSets}]
          /\ Roles!There(Roles!Root)' = Roles!There(Roles!Root) /\ (RootKept => RootKept')
      BY <1>1, <2>3, <3>1, <3>3, <3>4, RolesGiven
    <3>. QED
      BY <2>1, <2>2, <3>5, <3>6, CallStepKeeps
  <2>4. CASE ~ Roles!There(u)
    <3>1. still /\ Roles!Ends(c, FALSE)
      BY <1>9, <2>1, <2>4 DEF Roles!WriteRoles
    <3>. HIDE DEF still
    <3>. QED
      BY <1>2, <3>1
  <2>. QED
    BY <2>3, <2>4
<1>10. CASE Roles!CallError(c)
  <2>1. /\ Roles!Ends(c, FALSE) /\ Roles!Counted("failures")
        /\ UNCHANGED <<copies, account, seed, together, full>>
    BY <1>10 DEF Roles!CallError
  <2>2. PICK r \in CallStates : CallTurns(c, r) /\ r.at \notin SavingSteps
    BY <1>1, <2>1, CallEnds
  <2>3. counts' \in Tallies /\ counts'.seeds = counts.seeds /\ counts'.failures >= counts.failures
    BY <1>1, <2>1, CountedOnce
  <2>4. account' \in [Roles!Accounts -> {{}} \cup {{R} : R \in RoleSets}]
    BY <1>1, <2>1 DEF AccountTypes
  <2>. QED
    BY <2>1, <2>2, <2>3, <2>4, RootUntouched, CallStepKeeps
<1>. QED
  BY <1>4, <1>5, <1>6, <1>7, <1>8, <1>9, <1>10 DEF Roles!CallStep

\* What the page does without a call.
LEMMA PageStepKeeps ==
  ASSUME AccountInv, UNCHANGED <<copies, account, seed, call, together, full>>,
         counts' \in Tallies, counts'.seeds = counts.seeds, counts'.failures >= counts.failures
  PROVE  AccountInv'
<1>1. AccountTypes' /\ RootNotSaved'
  BY DEF AccountInv, AccountTypes, RootNotSaved
<1>2. ~ together => SeedsAlone'
  BY RootUntouched, SeedsKept DEF AccountInv
<1>. QED
  BY <1>1, <1>2 DEF AccountInv

LEMMA NextAccounts ==
  ASSUME AccountInv, [Roles!Next]_accountsVars
  PROVE  AccountInv'
<1>1. counts \in Tallies /\ counts.failures >= counts.failures
  BY DEF AccountInv, AccountTypes, Tallies
<1>2. CASE UNCHANGED accountsVars
  BY <1>1, <1>2, PageStepKeeps DEF accountsVars
<1>3. ASSUME NEW p \in Seeds, Roles!SeedStep(p)
      PROVE  AccountInv'
  BY <1>3, SeedStartKeeps, FindRoleKeeps, SaveRoleKeeps, FindRootKeeps, FindRolesKeeps,
     WriteRootKeeps, SeedErrorKeeps DEF Roles!SeedStep
<1>4. ASSUME NEW c \in {"page", "other"}, Roles!CallStep(c)
      PROVE  AccountInv'
  BY <1>4, CallStepsKeep
<1>5. ASSUME NEW kind \in {"signup", "create", "promote", "demote"}, NEW u \in Roles!Accounts,
             NEW roles \in {{}, {"user"}, {"user", "admin"}}, Roles!OtherCall(kind, u, roles)
      PROVE  AccountInv'
  <2>1. /\ Roles!Call("other", kind, u, roles)
        /\ kind \in {"signup", "create"} => u # Roles!Root
        /\ UNCHANGED <<copies, account, seed, together, full>>
    BY <1>5 DEF Roles!OtherCall
  <2>2. roles \in RoleSets
    BY DEF RoleSets, Roles!RoleNames
  <2>. QED
    BY <2>1, <2>2, CallIsMade
<1>6. ASSUME NEW silent \in BOOLEAN, Roles!Load(silent)
      PROVE  AccountInv'
  <2>1. Roles!Counted("loads") /\ UNCHANGED <<copies, account, seed, call, together, full>>
    BY <1>6 DEF Roles!Load
  <2>. QED
    BY <2>1, CountedOnce, PageStepKeeps DEF AccountInv
<1>7. CASE Roles!ReadUsers \/ Roles!LoadAnswered
  BY <1>1, <1>7, PageStepKeeps DEF Roles!ReadUsers, Roles!LoadAnswered
<1>8. CASE Roles!LoadFails
  <2>1. Roles!Counted("failures") /\ UNCHANGED <<copies, account, seed, call, together, full>>
    BY <1>8 DEF Roles!LoadFails
  <2>. QED
    BY <2>1, CountedOnce, PageStepKeeps DEF AccountInv
<1>9. ASSUME NEW u \in Users, Roles!Press(u)
      PROVE  AccountInv'
  <2>1. PICK kind \in {"promote", "demote"} : Roles!Call("page", kind, u, {})
    BY <1>9 DEF Roles!Press
  <2>2. UNCHANGED <<copies, account, seed, together, full>>
    BY <1>9 DEF Roles!Press
  <2>3. u \in Roles!Accounts /\ {} \in RoleSets
    BY DEF Roles!Accounts, RoleSets
  <2>. QED
    BY <2>1, <2>2, <2>3, CallIsMade
<1>10. CASE Roles!PageAnswered
  <2>1. /\ CallTurns("page", Roles!NoCall)
        /\ UNCHANGED <<copies, account, seed, counts, together, full>>
    BY <1>10 DEF Roles!PageAnswered, CallTurns
  <2>. QED
    BY <2>1, NoCallRests, CallGoesOn
<1>. QED
  BY <1>2, <1>3, <1>4, <1>5, <1>6, <1>7, <1>8, <1>9, <1>10 DEF Roles!Next

LEMMA AloneSeedsAgree == AccountInv => Roles!SeedsAgree
<1>. SUFFICES ASSUME AccountInv, ~ together, SeedsAlone PROVE Roles!SeedsAgree
  BY DEF AccountInv, Roles!SeedsAgree
<1>. QED
  BY DEF SeedsAlone, Roles!SeedsAgree, RootKept

(***************************************************************************)
(* The roles are one of each name, a seed fails of an error only, and one  *)
(* that ended left the root with its roles, unless two ran at once: for    *)
(* any users, any number of seeds, calls and errors, and whatever the      *)
(* endpoints and the page do to the users meanwhile.                       *)
(***************************************************************************)
THEOREM SeedsLeaveTheRoot == ServiceSpec => [](part = "accounts" => Roles!SeedsAgree)
<1>. DEFINE I == part = "accounts" => AccountInv
<1>1. ServiceInit => I
  BY InitAccounts DEF ServiceInit, Begins
<1>2. I /\ [ServiceNext]_serviceVars => I'
  BY OnePartRuns, NextAccounts
<1>3. I => (part = "accounts" => Roles!SeedsAgree)
  BY AloneSeedsAgree
<1>. QED
  BY <1>1, <1>2, <1>3, PTL DEF ServiceSpec

(***************************************************************************)
(* The page of the users.  Between its loads and calls it shows what is    *)
(* stored, or nobody: a call of its own that is written and not yet        *)
(* answered stands for the one difference.                                 *)
(***************************************************************************)
UserPages ==
  [load : {"none", "asked", "read"}, silent : BOOLEAN,
   snap : [Roles!Accounts -> {{}} \cup {{R} : R \in RoleSets}],
   shown : [Roles!Accounts -> {{}} \cup {{R} : R \in RoleSets}]]

\* Of what is shown or about to be, the page's call and the stored users.
IsStored(them, c, users) ==
  \/ them = Roles!NoUsers
  \/ IF c.at = "done" THEN them[c.user] # {} /\ users = [them EXCEPT ![c.user] = {c.roles}]
     ELSE users = them

Held(p) == IF p.load = "read" THEN p.snap ELSE p.shown

UsersShown ==
  /\ userPage \in UserPages /\ userCrossed \in BOOLEAN
  /\ ~ userCrossed => IsStored(Held(userPage), call["page"], account)

\* A step that neither touches the page nor stores anything, nor lets the
\* page's call come to be done or pass from it.
LEMMA UsersStay ==
  ASSUME UsersShown, UNCHANGED <<userPage, account, userCrossed>>,
         (call'["page"]).at # "done", call["page"].at # "done"
  PROVE  UsersShown'
BY DEF UsersShown, IsStored

LEMMA StoredIsAccount == AccountTypes => Roles!Stored = account
BY DEF AccountTypes, Roles!Stored

LEMMA InitUsersShown == Roles!Init => UsersShown
<1>1. Roles!NoUsers \in [Roles!Accounts -> {{}} \cup {{R} : R \in RoleSets}]
  BY DEF Roles!NoUsers
<1>. HIDE DEF Roles!NoUsers
<1>2. Roles!Open \in UserPages /\ Held(Roles!Open) = Roles!NoUsers
  BY <1>1 DEF Roles!Open, UserPages, Held, Roles!NoLoad
<1>. QED
  BY <1>2 DEF Roles!Init, UsersShown, IsStored

\* What a step may do that stores nothing the page does not know.
LEMMA CallsLeaveUsers ==
  ASSUME AccountInv, UsersShown, NEW c \in {"page", "other"}, Roles!CallStep(c)
  PROVE  UsersShown'
<1>. DEFINE one == call["page"]
<1>1. /\ userPage' = userPage /\ AccountTypes
      /\ call \in [{"page", "other"} -> CallStates] /\ one \in CallStates
  BY DEF AccountInv, AccountTypes, Roles!CallStep, Roles!CheckUser, Roles!FindGivenRoles,
         Roles!SaveUser, Roles!FindUser, Roles!FindAdmin, Roles!WriteRoles, Roles!CallError
<1>2. ASSUME UNCHANGED <<account, userCrossed>>, c = "page" => one.at # "done",
             c = "page" => (call'["page"]).at # "done",
             c = "other" => call'["page"] = one
      PROVE  UsersShown'
  BY <1>1, <1>2 DEF UsersShown, IsStored
<1>3. ASSUME userCrossed' = TRUE
      PROVE  UsersShown'
  BY <1>1, <1>3 DEF UsersShown
<1>4. ASSUME Roles!Ends(c, FALSE)
      PROVE  /\ c = "page" => (call'["page"]).at # "done"
             /\ c = "other" => call'["page"] = one
  BY <1>1, <1>4 DEF Roles!Ends, Roles!Answered, CallStates
<1>5. ASSUME NEW at \in CallSteps, at # "done", Roles!Goes(c, at)
      PROVE  /\ c = "page" => (call'["page"]).at # "done"
             /\ c = "other" => call'["page"] = one
  BY <1>1, <1>5 DEF Roles!Goes, CallStates
<1>6. CASE Roles!CheckUser(c) \/ Roles!FindGivenRoles(c)
  <2>1. UNCHANGED <<account, userCrossed>> /\ call[c].at # "done"
    BY <1>6 DEF Roles!CheckUser, Roles!FindGivenRoles
  <2>2. \/ Roles!Ends(c, FALSE)
        \/ \E at \in {"find_roles", "save_user"} : Roles!Goes(c, at)
    BY <1>6 DEF Roles!CheckUser, Roles!FindGivenRoles
  <2>3. {"find_roles", "save_user"} \subseteq CallSteps \ {"done"}
    BY DEF CallSteps
  <2>. QED
    BY <1>2, <1>4, <1>5, <2>1, <2>2, <2>3
<1>7. CASE Roles!SaveUser(c) \/ Roles!CallError(c)
  BY <1>3, <1>7 DEF Roles!SaveUser, Roles!CallError
<1>8. CASE Roles!FindUser(c) \/ Roles!FindAdmin(c)
  <2>1. UNCHANGED <<account, userCrossed>> /\ call[c].at # "done"
    BY <1>8 DEF Roles!FindUser, Roles!FindAdmin
  <2>2. CASE Roles!Ends(c, FALSE)
    BY <1>2, <1>4, <2>1, <2>2
  <2>3. ASSUME NEW at \in {"find_admin", "write_roles"}, NEW saw,
               call' = [call EXCEPT ![c].at = at, ![c].saw = saw]
        PROVE  UsersShown'
    <3>1. ASSUME NEW f \in [{"page", "other"} -> CallStates]
          PROVE  /\ [f EXCEPT ![c].at = at, ![c].saw = saw][c].at # "done"
                 /\ \A d \in {"page", "other"} :
                      d # c => [f EXCEPT ![c].at = at, ![c].saw = saw][d] = f[d]
      BY ONLY <3>1, c \in {"page", "other"}, at \in {"find_admin", "write_roles"} DEF CallStates
    <3>. QED
      BY <1>1, <1>2, <2>1, <2>3, <3>1
  <2>4. \/ Roles!Ends(c, FALSE)
        \/ \E at \in {"find_admin", "write_roles"} : \E saw \in {Roles!RolesOf(call[c].user), {}} :
             call' = [call EXCEPT ![c].at = at, ![c].saw = saw]
    BY <1>8 DEF Roles!FindUser, Roles!FindAdmin
  <2>. QED
    BY <2>2, <2>3, <2>4
<1>9. CASE Roles!WriteRoles(c)
  <2>1. CASE c = "other"
    BY <1>3, <1>9, <2>1 DEF Roles!WriteRoles
  <2>2. CASE c = "page" /\ ~ Roles!There(one.user)
    <3>1. Roles!Ends(c, FALSE) /\ UNCHANGED <<account, userCrossed>> /\ call[c].at # "done"
      BY <1>1, <1>9, <2>2 DEF Roles!WriteRoles, UsersShown
    <3>. QED
      BY <1>2, <1>4, <2>2, <3>1
  <2>3. CASE c = "page" /\ Roles!There(one.user)
    <3>. DEFINE u == one.user
                after == IF one.kind = "promote" THEN Roles!RolesOf(u) \cup {"admin"}
                         ELSE Roles!RolesOf(u) \ {"admin"}
    <3>1. /\ account' = [account EXCEPT ![u] = {after}] /\ Roles!Answered("page", TRUE, after)
          /\ one.at # "done"
      BY <1>9, <2>3 DEF Roles!WriteRoles, Roles!GivenRoles
    <3>. HIDE DEF after
    <3>2. (call'["page"]).at = "done" /\ (call'["page"]).user = u /\ (call'["page"]).roles = after
      BY <1>1, <3>1 DEF Roles!Answered, CallStates
    <3>3. ASSUME Held(userPage) = account, ~ userCrossed
          PROVE  IsStored(Held(userPage), call'["page"], account')
      BY <2>3, <3>1, <3>2, <3>3 DEF IsStored, Roles!There
    <3>4. userCrossed' = (userCrossed \/ c = "other")
      BY <1>9 DEF Roles!WriteRoles
    <3>. QED
      BY <1>1, <2>3, <3>1, <3>3, <3>4 DEF UsersShown, IsStored
  <2>. QED
    BY <2>1, <2>2, <2>3
<1>. QED
  BY <1>6, <1>7, <1>8, <1>9 DEF Roles!CallStep

LEMMA SeedsLeaveUsers ==
  ASSUME UsersShown, NEW p \in Seeds, Roles!SeedStep(p)
  PROVE  UsersShown'
<1>1. /\ UNCHANGED <<userPage, call>> /\ userCrossed' \in BOOLEAN
      /\ userCrossed' = TRUE \/ UNCHANGED <<account, userCrossed>>
  BY DEF Roles!SeedStep, Roles!SeedStart, Roles!FindRole, Roles!SaveRole, Roles!FindRoot,
         Roles!FindRoles, Roles!WriteRoot, Roles!SeedError, UsersShown
<1>. QED
  BY <1>1 DEF UsersShown

\* The loads of the page.
LEMMA LoadsShowUsers ==
  ASSUME AccountInv, UsersShown,
         \/ \E silent \in BOOLEAN : Roles!Load(silent)
         \/ Roles!ReadUsers \/ Roles!LoadAnswered \/ Roles!LoadFails
  PROVE  UsersShown'
<1>1. /\ userPage \in UserPages /\ UNCHANGED <<account, call>> /\ AccountTypes
      /\ Roles!NoUsers \in [Roles!Accounts -> {{}} \cup {{R} : R \in RoleSets}]
  BY DEF UsersShown, AccountInv, Roles!NoUsers, Roles!Load, Roles!ReadUsers, Roles!LoadAnswered,
         Roles!LoadFails
<1>. HIDE DEF Roles!NoUsers
<1>2. ASSUME NEW silent \in BOOLEAN, Roles!Load(silent)
      PROVE  UsersShown'
  <2>1. userPage' \in UserPages /\ Held(userPage') = Held(userPage) /\ UNCHANGED userCrossed
    BY <1>1, <1>2 DEF Roles!Load, Roles!NoLoad, UserPages, Held
  <2>. QED
    BY <1>1, <2>1 DEF UsersShown
<1>3. CASE Roles!ReadUsers
  <2>1. /\ userPage' = [userPage EXCEPT !.load = "read", !.snap = account]
        /\ userCrossed' = (call["page"].at = "done")
    BY <1>1, <1>3, StoredIsAccount DEF Roles!ReadUsers
  <2>2. userPage' \in UserPages /\ Held(userPage') = account
    BY <1>1, <2>1 DEF UserPages, Held, AccountTypes
  <2>. QED
    BY <1>1, <2>1, <2>2 DEF UsersShown, IsStored
<1>4. CASE Roles!LoadAnswered
  <2>1. /\ userPage.load = "read" /\ UNCHANGED userCrossed
        /\ userPage' = [userPage EXCEPT !.load = "none", !.shown = userPage.snap,
                                        !.snap = Roles!NoUsers]
    BY <1>4 DEF Roles!LoadAnswered, Roles!NoLoad
  <2>2. userPage' \in UserPages /\ Held(userPage') = Held(userPage)
    BY <1>1, <2>1 DEF UserPages, Held
  <2>. QED
    BY <1>1, <2>1, <2>2 DEF UsersShown
<1>5. CASE Roles!LoadFails
  <2>1. /\ userPage' = [userPage EXCEPT !.load = "none", !.shown = Roles!NoUsers,
                                        !.snap = Roles!NoUsers]
        /\ UNCHANGED userCrossed
    BY <1>5 DEF Roles!LoadFails, Roles!NoLoad
  <2>2. userPage' \in UserPages /\ Held(userPage') = Roles!NoUsers
    BY <1>1, <2>1 DEF UserPages, Held
  <2>. QED
    BY <1>1, <2>1, <2>2 DEF UsersShown, IsStored
<1>. QED
  BY <1>2, <1>3, <1>4, <1>5

\* The page's own call: its button, and its answer.
LEMMA AnswersShowUsers ==
  ASSUME AccountInv, UsersShown, Roles!PageAnswered
  PROVE  UsersShown'
<1>. DEFINE c == call["page"]
            row(old) == IF c.at = "done" /\ old # {} THEN {c.roles} ELSE old
            after == [userPage.shown EXCEPT ![c.user] = row(userPage.shown[c.user])]
<1>1. /\ userPage \in UserPages /\ c \in CallStates /\ UNCHANGED account
      /\ call \in [{"page", "other"} -> CallStates]
  BY DEF UsersShown, AccountInv, AccountTypes, Roles!PageAnswered
<1>2. /\ userPage' = [userPage EXCEPT !.shown = after]
      /\ userCrossed' = (userCrossed \/ userPage.load = "read")
      /\ call' = [call EXCEPT !["page"] = Roles!NoCall] /\ c.at \in {"done", "refused"}
  BY DEF Roles!PageAnswered
<1>3. c.user \in Roles!Accounts /\ {c.roles} \in {{R} : R \in RoleSets}
  BY <1>1 DEF CallStates
<1>4. after \in [Roles!Accounts -> {{}} \cup {{R} : R \in RoleSets}]
  BY <1>1, <1>3 DEF UserPages
<1>5. /\ userPage' \in UserPages
      /\ userPage.load # "read" => Held(userPage) = userPage.shown /\ Held(userPage') = after
  <2>. HIDE DEF after
  <2>. QED
    BY <1>1, <1>2, <1>4 DEF UserPages, Held
<1>6. (call'["page"]).at = "none"
  BY <1>1, <1>2 DEF Roles!NoCall
<1>7. ASSUME ~ userCrossed'
      PROVE  IsStored(after, call'["page"], account')
  <2>1. IsStored(userPage.shown, c, account)
    BY <1>2, <1>5, <1>7 DEF UsersShown
  <2>2. CASE userPage.shown = Roles!NoUsers
    <3>1. userPage.shown[c.user] = {}
      BY <1>3, <2>2 DEF Roles!NoUsers
    <3>2. after = userPage.shown
      BY <1>1, <3>1 DEF UserPages
    <3>. QED
      BY <2>2, <3>2 DEF IsStored
  <2>3. CASE account = userPage.shown /\ c.at # "done"
    <3>1. after = userPage.shown
      BY <1>1, <2>3 DEF UserPages
    <3>. QED
      BY <1>1, <1>6, <2>3, <3>1 DEF IsStored
  <2>4. CASE /\ c.at = "done" /\ userPage.shown[c.user] # {}
             /\ account = [userPage.shown EXCEPT ![c.user] = {c.roles}]
    <3>1. after = account
      BY <2>4
    <3>. HIDE DEF after
    <3>. QED
      BY <1>1, <1>6, <3>1 DEF IsStored
  <2>. QED
    BY <2>1, <2>2, <2>3, <2>4 DEF IsStored
<1>. QED
  BY <1>2, <1>5, <1>7 DEF UsersShown

LEMMA CallsBegun ==
  ASSUME AccountInv, UsersShown, NEW c \in {"page", "other"}, NEW kind, NEW u, NEW roles,
         kind \in {"signup", "create", "promote", "demote"}, Roles!Call(c, kind, u, roles),
         UNCHANGED <<account, userPage, userCrossed>>
  PROVE  UsersShown'
<1>1. call \in [{"page", "other"} -> CallStates]
  BY DEF AccountInv, AccountTypes
<1>2. /\ call' = [call EXCEPT ![c] = [Roles!NoCall EXCEPT !.at = Roles!FirstStep(kind),
                                       !.kind = kind, !.user = u, !.roles = roles]]
      /\ call[c].at = "none"
  BY DEF Roles!Call, Roles!Free
<1>3. Roles!FirstStep(kind) # "done"
  BY DEF Roles!FirstStep
<1>4. (call'[c]).at = Roles!FirstStep(kind)
  BY <1>1, <1>2 DEF Roles!NoCall
<1>5. c # "page" => call'["page"] = call["page"]
  BY <1>1, <1>2
<1>. QED
  BY <1>2, <1>3, <1>4, <1>5 DEF UsersShown, IsStored

LEMMA NextUsersShown ==
  ASSUME AccountInv, UsersShown, [Roles!Next]_accountsVars
  PROVE  UsersShown'
<1>1. CASE UNCHANGED accountsVars
  BY <1>1 DEF accountsVars, UsersShown
<1>2. CASE \E p \in Seeds : Roles!SeedStep(p)
  BY <1>2, SeedsLeaveUsers
<1>3. CASE \E c \in {"page", "other"} : Roles!CallStep(c)
  BY <1>3, CallsLeaveUsers
<1>4. CASE \E kind \in {"signup", "create", "promote", "demote"}, u \in Roles!Accounts,
              roles \in {{}, {"user"}, {"user", "admin"}} : Roles!OtherCall(kind, u, roles)
  BY <1>4, CallsBegun DEF Roles!OtherCall
<1>5. CASE \/ \E silent \in BOOLEAN : Roles!Load(silent)
           \/ Roles!ReadUsers \/ Roles!LoadAnswered \/ Roles!LoadFails
  BY <1>5, LoadsShowUsers
<1>6. ASSUME NEW u \in Users, Roles!Press(u)
      PROVE  UsersShown'
  <2>1. PICK kind \in {"promote", "demote"} : Roles!Call("page", kind, u, {})
    BY <1>6 DEF Roles!Press
  <2>2. UNCHANGED <<account, userPage, userCrossed>>
    BY <1>6 DEF Roles!Press
  <2>. QED
    BY <2>1, <2>2, CallsBegun
<1>7. CASE Roles!PageAnswered
  BY <1>7, AnswersShowUsers
<1>. QED
  BY <1>1, <1>2, <1>3, <1>4, <1>5, <1>6, <1>7 DEF Roles!Next

LEMMA RestShowsUsers ==
  ASSUME AccountInv, UsersShown
  PROVE  Roles!UsersShownAreStored
<1>. SUFFICES ASSUME ~ userCrossed, userPage.load = "none", call["page"].at = "none"
              PROVE  userPage.shown \in {Roles!NoUsers, Roles!Stored}
  BY DEF Roles!UsersShownAreStored, Roles!NoLoad, Roles!Free
<1>. QED
  BY StoredIsAccount DEF UsersShown, IsStored, Held, AccountInv

(***************************************************************************)
(* UsersShownAreStored of the page of the users: for any users, calls,     *)
(* loads and errors, at rest the page shows the roles that are stored or   *)
(* no user, but for what others wrote and what crossed a load.             *)
(***************************************************************************)
THEOREM UsersFollowTheStore == ServiceSpec => [](part = "accounts" => Roles!UsersShownAreStored)
<1>. DEFINE I == part = "accounts" => AccountInv /\ UsersShown
<1>1. ServiceInit => I
  BY InitAccounts, InitUsersShown DEF ServiceInit, Begins
<1>2. I /\ [ServiceNext]_serviceVars => I'
  BY OnePartRuns, NextAccounts, NextUsersShown
<1>3. I => (part = "accounts" => Roles!UsersShownAreStored)
  BY RestShowsUsers
<1>. QED
  BY <1>1, <1>2, <1>3, PTL DEF ServiceSpec

(***************************************************************************)
(* AccountsAgree: unless two seeds ran at once the roles are one of each   *)
(* name and the root keeps them, and the page of the users shows what is   *)
(* stored, whatever the endpoints, the seeds and the page do meanwhile.    *)
(***************************************************************************)
THEOREM AccountsAreKept == ServiceSpec => []AccountsAgree
<1>1. /\ part = "accounts" => Roles!SeedsAgree
      /\ part = "accounts" => Roles!UsersShownAreStored
      => AccountsAgree
  BY DEF AccountsAgree
<1>. QED
  BY <1>1, SeedsLeaveTheRoot, UsersFollowTheStore, PTL

(***************************************************************************)
(* Sums over finite sets, as MapThenSumSet makes them: they can be taken   *)
(* apart at any element and into any two parts.                            *)
(***************************************************************************)
AnyOf(s) == CHOOSE x \in s : TRUE
SumsUp(f, S, G) ==
  G = [s \in SUBSET S |-> IF s = {} THEN 0 ELSE f[AnyOf(s)] + G[s \ {AnyOf(s)}]]
SumFcn(f, S) == CHOOSE G : SumsUp(f, S, G)
TickSum(f, S) == Limiter!MapThenSumSet(LAMBDA t : f[t], S)

\* Induction over the subsets of a finite set, stated with a set of subsets.
LEMMA AllSmallerInduction ==
  ASSUME NEW S, IsFiniteSet(S), NEW Good, {} \in Good,
         \A T \in SUBSET S : (\A x \in T : T \ {x} \in Good) => T \in Good
  PROVE  \A T \in SUBSET S : T \in Good
<1>. SUFFICES ASSUME NEW T \in SUBSET S, T \notin Good PROVE FALSE
  OBVIOUS
<1>. DEFINE Lengths == {Cardinality(U) : U \in {U \in SUBSET S : U \notin Good}}
<1>1. \A U \in SUBSET S : IsFiniteSet(U) /\ Cardinality(U) \in Nat
  BY FS_Subset, FS_CardinalityType
<1>2. Lengths \subseteq Nat /\ Lengths # {}
  BY <1>1
<1>3. PICK n \in Lengths : \A m \in Lengths : n <= m
  <2>. HIDE DEF Lengths
  <2>. QED
    BY <1>2, Smallest
<1>4. PICK U \in SUBSET S : U \notin Good /\ n = Cardinality(U)
  OBVIOUS
<1>5. PICK x \in U : U \ {x} \notin Good
  BY <1>4
<1>6. /\ IsFiniteSet(U) /\ Cardinality(U \ {x}) = Cardinality(U) - 1
      /\ Cardinality(U) \in Nat
  BY <1>1, <1>5, FS_RemoveElement
<1>7. U \ {x} \notin Good /\ U \ {x} \in SUBSET S
  BY <1>4, <1>5
<1>8. Cardinality(U \ {x}) \in Lengths
  BY <1>7
<1>9. n <= Cardinality(U \ {x})
  <2>. HIDE DEF Lengths
  <2>. QED
    BY <1>3, <1>8
<1>. QED
  BY ONLY <1>4, <1>6, <1>9

\* The recursive definition has a solution.
LEMMA SumsExist ==
  ASSUME NEW S, IsFiniteSet(S), NEW f
  PROVE  \E G : SumsUp(f, S, G)
<1>. DEFINE Small(n) == {s \in SUBSET S : Cardinality(s) <= n}
            Solves(n, G) ==
              G = [s \in Small(n) |-> IF s = {} THEN 0 ELSE f[AnyOf(s)] + G[s \ {AnyOf(s)}]]
            Bad == {n \in Nat : ~ \E G : Solves(n, G)}
<1>1. \A s \in SUBSET S : IsFiniteSet(s) /\ Cardinality(s) \in Nat
  BY FS_Subset, FS_CardinalityType
<1>2. \A s \in SUBSET S : s # {} =>
        AnyOf(s) \in s /\ Cardinality(s \ {AnyOf(s)}) = Cardinality(s) - 1
  BY <1>1, FS_RemoveElement DEF AnyOf
<1>3. Bad = {}
  <2>. SUFFICES ASSUME Bad # {} PROVE FALSE
    OBVIOUS
  <2>1. PICK n \in Bad : \A m \in Bad : n <= m
    <3>1. Bad \subseteq Nat
      OBVIOUS
    <3>. HIDE DEF Bad
    <3>. QED
      BY <3>1, Smallest
  <2>2. n \in Nat /\ ~ \E G : Solves(n, G)
    OBVIOUS
  <2>3. CASE n = 0
    <3>. DEFINE G == [s \in Small(0) |-> 0]
    <3>1. \A s \in Small(0) : s = {}
      BY <1>1, FS_EmptySet
    <3>2. Solves(0, G)
      BY <3>1
    <3>. QED
      BY <2>2, <2>3, <3>2
  <2>4. CASE n # 0
    <3>1. n - 1 \in Nat /\ n - 1 \notin Bad
      <4>1. n - 1 \in Nat /\ ~ (n <= n - 1)
        BY <2>2, <2>4
      <4>. HIDE DEF Bad
      <4>. QED
        BY <2>1, <4>1
    <3>2. PICK F : Solves(n - 1, F)
      BY <3>1
    <3>. DEFINE G == [s \in Small(n) |-> IF s = {} THEN 0
                                         ELSE f[AnyOf(s)] + F[s \ {AnyOf(s)}]]
    <3>3. \A s \in Small(n - 1) : s \in Small(n)
      BY <1>1, <2>2
    <3>4. \A s \in Small(n - 1) : G[s] = F[s]
      BY <3>2, <3>3
    <3>5. \A s \in Small(n) : s # {} => s \ {AnyOf(s)} \in Small(n - 1)
      BY <1>1, <1>2, <2>2
    <3>6. Solves(n, G)
      BY <3>4, <3>5
    <3>. QED
      BY <2>2, <3>6
  <2>. QED
    BY <2>3, <2>4
<1>4. Cardinality(S) \in Nat
  BY FS_CardinalityType
<1>5. PICK G : Solves(Cardinality(S), G)
  BY <1>3, <1>4
<1>6. Small(Cardinality(S)) = SUBSET S
  BY FS_Subset
<1>. QED
  BY <1>5, <1>6 DEF SumsUp

LEMMA TickSumIs ==
  ASSUME NEW S, NEW f
  PROVE  TickSum(f, S) = SumFcn(f, S)[S]
BY DEF TickSum, Limiter!MapThenSumSet, Limiter!MapThenFoldSet, SumsUp, SumFcn, AnyOf

LEMMA SumEquation ==
  ASSUME NEW S, IsFiniteSet(S), NEW f
  PROVE  SumsUp(f, S, SumFcn(f, S))
BY SumsExist DEF SumFcn

(***************************************************************************)
(* The drilldown.  Its figures agree for any amounts, any enrolment and    *)
(* any search, wherever the batch was when it died: what they rest on is   *)
(* that a count of employees in the snapshots that equals the count in the *)
(* rows means the same employees, where the snapshots agree with the rows, *)
(* and that a group is made of those whose column has its value and those  *)
(* whose column has none, if it is the default one.                        *)
(***************************************************************************)
DrillAssumption == Amounts \subseteq Nat

DrillInv ==
  /\ paid \in [Employees -> Nat] /\ totals \in [Employees -> Nat]
  /\ snapshot \in [Employees -> [valid : BOOLEAN, amount : Nat]]
  /\ batch \in [step : {"idle", "snapshots", "summary", "totals"}, year : {"this", "next"},
                read : [Employees -> Nat]]

LEMMA InitDrill == DrillAssumption /\ Drill!Init => DrillInv
<1>. SUFFICES ASSUME DrillAssumption, Drill!Init PROVE DrillInv
  OBVIOUS
<1>1. paid \in [Employees -> Nat] /\ totals \in [Employees -> Nat]
  BY DEF Drill!Init, DrillAssumption
<1>2. snapshot \in [Employees -> [valid : BOOLEAN, amount : Nat]]
  BY DEF Drill!Init
<1>3. batch \in [step : {"idle", "snapshots", "summary", "totals"}, year : {"this", "next"},
                 read : [Employees -> Nat]]
  BY DEF Drill!Init, Drill!NoBatch
<1>. QED
  BY <1>1, <1>2, <1>3 DEF DrillInv

LEMMA NextDrill ==
  ASSUME DrillAssumption, DrillInv, [Drill!Next]_drilldownVars
  PROVE  DrillInv'
<1>1. CASE UNCHANGED drilldownVars
  BY <1>1 DEF drilldownVars, DrillInv
<1>2. ASSUME NEW e \in Employees, Drill!Pay(e)
      PROVE  DrillInv'
  BY <1>2 DEF Drill!Pay, DrillInv, DrillAssumption
<1>3. CASE Drill!BatchReads
  BY <1>3 DEF Drill!BatchReads, DrillInv
<1>4. CASE Drill!BatchWritesSnapshots
  <2>1. PICK written \in SUBSET Employees :
          snapshot' = [e \in Employees |->
            IF e \notin written THEN snapshot[e]
            ELSE IF batch.year = "this" THEN [valid |-> TRUE, amount |-> batch.read[e]]
                 ELSE [valid |-> FALSE, amount |-> 0]]
    BY <1>4 DEF Drill!BatchWritesSnapshots
  <2>2. batch.read \in [Employees -> Nat]
    BY DEF DrillInv
  <2>3. snapshot' \in [Employees -> [valid : BOOLEAN, amount : Nat]]
    BY <2>1, <2>2 DEF DrillInv
  <2>. QED
    BY <1>4, <2>3 DEF Drill!BatchWritesSnapshots, DrillInv
<1>5. CASE Drill!BatchWritesSummary
  BY <1>5 DEF Drill!BatchWritesSummary, DrillInv
<1>6. CASE Drill!BatchWritesTotals
  <2>1. Drill!NoBatch \in [step : {"idle", "snapshots", "summary", "totals"},
                           year : {"this", "next"}, read : [Employees -> Nat]]
    BY DEF Drill!NoBatch
  <2>2. batch.read \in [Employees -> Nat]
    BY DEF DrillInv
  <2>. QED
    BY <1>6, <2>1, <2>2 DEF Drill!BatchWritesTotals, DrillInv
<1>7. CASE Drill!BatchDies
  <2>1. Drill!NoBatch \in [step : {"idle", "snapshots", "summary", "totals"},
                           year : {"this", "next"}, read : [Employees -> Nat]]
    BY DEF Drill!NoBatch
  <2>. QED
    BY <1>7, <2>1 DEF Drill!BatchDies, DrillInv
<1>. QED
  BY <1>1, <1>2, <1>3, <1>4, <1>5, <1>6, <1>7 DEF Drill!Next

\* The employees, and any of them, are finitely many.
LEMMA EmployeesAreFinite ==
  ASSUME NEW S \in SUBSET Employees
  PROVE  IsFiniteSet(S) /\ Drill!Cardinality(S) = Cardinality(S)
<1>1. IsFiniteSet(Employees)
  <2>1. Employees = ({"e1"} \cup {"e2"}) \cup {"e3"}
    BY DEF Employees
  <2>2. IsFiniteSet({"e1"} \cup {"e2"})
    BY FS_Singleton, FS_AddElement
  <2>. QED
    BY <2>1, <2>2, FS_AddElement
<1>2. IsFiniteSet(S)
  BY <1>1, FS_Subset
<1>3. Drill!Cardinality(S) = Cardinality(S)
  BY DEF Drill!Cardinality, Cardinality
<1>. QED
  BY <1>2, <1>3

\* Where the snapshots agree with the rows, they answer as the rows do.
LEMMA SnapshotsAnswerAlike ==
  ASSUME DrillInv, Drill!Agree, NEW f, f.min \in Nat, Drill!UsesSnapshots(f)
  PROVE  Drill!InSnapshot(f) = Drill!InTotals(f)
<1>1. Drill!InSnapshot(f) \subseteq Drill!InTotals(f) /\ Drill!InTotals(f) \subseteq Employees
  BY DEF Drill!InSnapshot, Drill!InTotals, Drill!Agree
<1>2. /\ IsFiniteSet(Drill!InTotals(f))
      /\ Cardinality(Drill!InSnapshot(f)) = Cardinality(Drill!InTotals(f))
  <2>1. Drill!InSnapshot(f) \in SUBSET Employees /\ Drill!InTotals(f) \in SUBSET Employees
    BY <1>1
  <2>2. Drill!Cardinality(Drill!InSnapshot(f)) = Drill!Cardinality(Drill!InTotals(f))
    BY DEF Drill!UsesSnapshots
  <2>. QED
    BY <2>1, <2>2, EmployeesAreFinite
<1>. QED
  BY <1>1, <1>2, FS_Subset

\* A list of pairs is as long as the set of those it pairs.
LEMMA PairsAreAsMany ==
  ASSUME NEW S \in SUBSET Employees, NEW g \in [Employees -> Nat]
  PROVE  Drill!Cardinality({<<e, g[e]>> : e \in S}) = Drill!Cardinality(S)
<1>. DEFINE T == {<<e, g[e]>> : e \in S}
            h == [e \in S |-> <<e, g[e]>>]
<1>1. h \in Bijection(S, T)
  <2>1. h \in [S -> T]
    OBVIOUS
  <2>2. \A e, x \in S : h[e] = h[x] => e = x
    OBVIOUS
  <2>3. \A t \in T : \E e \in S : h[e] = t
    OBVIOUS
  <2>. QED
    <3>. HIDE DEF T, h
    <3>. QED
      BY <2>1, <2>2, <2>3 DEF Bijection, Injection, Surjection, IsInjective
<1>2. ExistsBijection(S, T)
  BY <1>1 DEF ExistsBijection
<1>3. IsFiniteSet(S) /\ Drill!Cardinality(S) = Cardinality(S)
  BY EmployeesAreFinite
<1>4. Cardinality(T) = Cardinality(S)
  BY <1>2, <1>3, FS_Bijection
<1>5. Drill!Cardinality(T) = Cardinality(T)
  BY DEF Drill!Cardinality, Cardinality
<1>. QED
  BY <1>3, <1>4, <1>5

LEMMA ListIsExport ==
  ASSUME DrillAssumption, DrillInv
  PROVE  Drill!ExportMatchesList
<1>. SUFFICES ASSUME NEW f \in Drill!Filters, f.min = 0 \/ Drill!Agree
              PROVE  /\ Drill!Listed(f) = Drill!Exported(f)
                     /\ Drill!Cardinality(Drill!Listed(f)) = Drill!Cardinality(Drill!Query(f))
  BY DEF Drill!ExportMatchesList
<1>. DEFINE g == [e \in Employees |-> Drill!TotalEarnings(e)]
<1>1. f.min \in Nat
  BY DEF Drill!Filters, DrillAssumption
<1>2. g \in [Employees -> Nat]
  BY DEF Drill!TotalEarnings, DrillInv
<1>3. Drill!Query(f) \subseteq Drill!Matching(f) /\ Drill!Matching(f) \subseteq Employees
  BY DEF Drill!Query, Drill!Matching
<1>4. \A e \in Drill!Matching(f) :
        e \in Drill!Query(f) <=> /\ f.plan => e \in Enrolled
                                 /\ f.min > 0 => Drill!TotalEarnings(e) >= f.min
  <2>1. CASE f.min = 0
    BY <2>1 DEF Drill!Query
  <2>2. CASE Drill!Agree
    <3>1. \A e \in Employees : Drill!TotalEarnings(e) = totals[e]
      BY <2>2 DEF Drill!TotalEarnings, Drill!Agree, DrillInv
    <3>2. Drill!UsesSnapshots(f) => Drill!InSnapshot(f) = Drill!InTotals(f)
      BY <1>1, <2>2, SnapshotsAnswerAlike
    <3>. QED
      BY <1>3, <3>1, <3>2 DEF Drill!Query, Drill!InTotals
  <2>. QED
    BY <2>1, <2>2
<1>5. Drill!Listed(f) = {<<e, Drill!TotalEarnings(e)>> : e \in Drill!Query(f)}
  BY <1>3, <1>4 DEF Drill!Listed
<1>6. Drill!Query(f) = {x \in Drill!Matching(f) :
                          /\ f.min > 0 => Drill!TotalEarnings(x) >= f.min
                          /\ f.plan => x \in Enrolled}
  BY <1>3, <1>4
<1>7. Drill!Listed(f) = Drill!Exported(f)
  BY <1>5, <1>6 DEF Drill!Exported
<1>8. Drill!Listed(f) = {<<e, g[e]>> : e \in Drill!Query(f)}
  BY <1>3, <1>5
<1>. HIDE DEF g
<1>9. Drill!Cardinality({<<e, g[e]>> : e \in Drill!Query(f)})
        = Drill!Cardinality(Drill!Query(f))
  BY <1>2, <1>3, PairsAreAsMany
<1>. QED
  BY <1>7, <1>8, <1>9

\* The sum over no one.
LEMMA NothingToSum ==
  ASSUME NEW f
  PROVE  Drill!SumOf(f, {}) = 0
<1>1. IsFiniteSet({})
  BY FS_EmptySet
<1>2. SumsUp(f, {}, SumFcn(f, {}))
  BY <1>1, SumEquation
<1>3. SumFcn(f, {})[{}] = 0
  BY <1>2 DEF SumsUp
<1>4. Drill!SumOf(f, {}) = SumFcn(f, {})[{}]
  BY DEF Drill!SumOf, Drill!MapThenSumSet, Drill!MapThenFoldSet, SumsUp, SumFcn, AnyOf
<1>. QED
  BY <1>3, <1>4

LEMMA SummaryIsOfList ==
  ASSUME DrillAssumption, DrillInv
  PROVE  Drill!SummaryOfDimensions
<1>. SUFFICES ASSUME Drill!InSync, NEW f \in Drill!Filters, ~ f.search, ~ f.plan, ~ Drill!Partial(f)
              PROVE  Drill!SummaryTotalEarnings(f)
                       = Drill!SumOf(totals, Drill!Query(f) \cup Drill!Unlisted(f))
  BY DEF Drill!SummaryOfDimensions
<1>1. f.min \in Nat /\ f.search \in BOOLEAN /\ f.plan \in BOOLEAN
      /\ f.on = [d \in Dimensions |-> f.on[d]]
  BY DEF Drill!Filters, DrillAssumption
<1>2. f.min = 0
  BY <1>1 DEF Drill!Partial
<1>3. Drill!Query(f) = {e \in Employees : \A d \in Drill!ActiveDimensions(f) : ValueOf[d][e] = f.on[d]}
  BY <1>1, <1>2 DEF Drill!Query, Drill!Matching
<1>4. CASE Drill!NoSuchDepartment(f)
  <2>1. Drill!Query(f) = {}
    BY <1>3, <1>4 DEF Drill!NoSuchDepartment
  <2>2. Drill!Unlisted(f) = {}
    BY <1>4 DEF Drill!Unlisted
  <2>3. Drill!Query(f) \cup Drill!Unlisted(f) = {}
    BY <2>1, <2>2
  <2>. QED
    BY <1>4, <2>3, NothingToSum DEF Drill!SummaryTotalEarnings
<1>5. CASE ~ Drill!NoSuchDepartment(f) /\ ~ Drill!HasActiveFilter(f)
  <2>1. Drill!ActiveDimensions(f) = {}
    BY <1>5 DEF Drill!HasActiveFilter
  <2>2. Drill!Query(f) = Drill!Members(<<"total", "all">>)
    BY <1>3, <2>1 DEF Drill!Members
  <2>3. <<"total", "all">> \in Drill!Groups
    BY DEF Drill!Groups
  <2>4. summary[<<"total", "all">>] = Drill!SumOf(totals, Drill!Members(<<"total", "all">>))
    BY <2>3 DEF Drill!InSync, Drill!SummaryRows
  <2>5. Drill!Query(f) \cup Drill!Unlisted(f) = Drill!Query(f)
    BY <2>1 DEF Drill!Unlisted
  <2>. QED
    BY <1>5, <2>2, <2>4, <2>5 DEF Drill!SummaryTotalEarnings
<1>6. CASE ~ Drill!NoSuchDepartment(f) /\ Drill!HasActiveFilter(f)
           /\ Drill!CanUseSingleDimension(f)
  <2>1. Drill!Cardinality(Drill!ActiveDimensions(f)) = 1
    BY <1>6 DEF Drill!CanUseSingleDimension
  <2>2. PICK d : Drill!ActiveDimensions(f) = {d}
    <3>1. IsFiniteSet(Drill!ActiveDimensions(f))
      <4>1. Dimensions = {"department"} \cup {"ethnicity"}
        BY DEF Dimensions
      <4>2. IsFiniteSet(Dimensions)
        BY <4>1, FS_Singleton, FS_AddElement
      <4>3. Drill!ActiveDimensions(f) \subseteq Dimensions
        BY DEF Drill!ActiveDimensions
      <4>. QED
        BY <4>2, <4>3, FS_Subset
    <3>2. Cardinality(Drill!ActiveDimensions(f)) = 1
      <4>1. Drill!Cardinality(Drill!ActiveDimensions(f))
              = Cardinality(Drill!ActiveDimensions(f))
        BY DEF Drill!Cardinality, Cardinality
      <4>. QED
        BY <2>1, <4>1
    <3>. QED
      BY <3>1, <3>2, FS_Singleton
  <2>3. (CHOOSE x \in Drill!ActiveDimensions(f) : TRUE) = d
    BY <2>2
  <2>4. d \in Dimensions /\ f.on[d] # Drill!Any /\ f.on[d] \in {Drill!Any} \cup Drill!Values(d)
    BY <2>2 DEF Drill!ActiveDimensions, Drill!Filters
  <2>5. <<d, f.on[d]>> \in Drill!Groups
    BY <2>4 DEF Drill!Groups
  <2>6. Drill!Members(<<d, f.on[d]>>) = Drill!Query(f) \cup Drill!Unlisted(f)
    <3>1. d # "total"
      BY <2>4 DEF Dimensions
    <3>2. Drill!Members(<<d, f.on[d]>>) = {e \in Employees : Drill!GroupOf(d, e) = f.on[d]}
      BY <3>1 DEF Drill!Members
    <3>3. Drill!Query(f) = {e \in Employees : ValueOf[d][e] = f.on[d]}
      BY <1>3, <2>2
    <3>4. Drill!Unlisted(f) = {e \in Employees : ValueOf[d][e] = None /\ f.on[d] = Default[d]}
      BY <1>6, <2>2 DEF Drill!Unlisted
    <3>5. f.on[d] # None
      BY <2>4 DEF Drill!Values, Drill!GroupOf, Dimensions, Default, None
    <3>. QED
      BY <3>2, <3>3, <3>4, <3>5 DEF Drill!GroupOf
  <2>7. summary[<<d, f.on[d]>>] = Drill!SumOf(totals, Drill!Members(<<d, f.on[d]>>))
    BY <2>5 DEF Drill!InSync, Drill!SummaryRows
  <2>8. Drill!SummaryTotalEarnings(f) = summary[<<d, f.on[d]>>]
    BY <1>6, <2>3 DEF Drill!SummaryTotalEarnings
  <2>. QED
    BY <2>6, <2>7, <2>8
<1>7. CASE ~ Drill!NoSuchDepartment(f) /\ Drill!HasActiveFilter(f)
           /\ ~ Drill!CanUseSingleDimension(f)
  <2>1. Drill!Query(f) \cup Drill!Unlisted(f) = Drill!Query(f)
    BY <1>7 DEF Drill!Unlisted
  <2>. QED
    BY <1>7, <2>1 DEF Drill!SummaryTotalEarnings
<1>. QED
  BY <1>4, <1>5, <1>6, <1>7

(***************************************************************************)
(* FiguresAgree: without a minimum of earnings, and with one where the     *)
(* snapshots agree with the rows, a list and its export hold the same      *)
(* employees with the same earnings; and where rows and summaries come     *)
(* from one run, the total above a list is that of the employees listed    *)
(* and of those only whose column is empty where its default is asked for. *)
(* For any amounts, and any number of payments and runs of the batch,      *)
(* however they end.                                                       *)
(***************************************************************************)
THEOREM FiguresOfDrilldownAgree == DrillAssumption /\ ServiceSpec => []FiguresAgree
<1>. SUFFICES ASSUME DrillAssumption PROVE ServiceSpec => []FiguresAgree
  OBVIOUS
<1>. DEFINE I == part = "drilldown" => DrillInv
<1>1. ServiceInit => I
  BY InitDrill DEF ServiceInit, Begins
<1>2. I /\ [ServiceNext]_serviceVars => I'
  BY OnePartRuns, NextDrill
<1>3. I => FiguresAgree
  BY ListIsExport, SummaryIsOfList DEF FiguresAgree
<1>. QED
  BY <1>1, <1>2, <1>3, PTL DEF ServiceSpec

\* A sum does not depend on the set it is taken apart in.
LEMMA SumsAgree ==
  ASSUME NEW S, IsFiniteSet(S), NEW f, NEW T \in SUBSET S
  PROVE  TickSum(f, T) = SumFcn(f, S)[T]
<1>. DEFINE G == SumFcn(f, S)
            H == SumFcn(f, T)
            Good == {U \in SUBSET T : G[U] = H[U]}
<1>1. IsFiniteSet(T)
  BY FS_Subset
<1>2. \A U \in SUBSET T :
        /\ G[U] = IF U = {} THEN 0 ELSE f[AnyOf(U)] + G[U \ {AnyOf(U)}]
        /\ H[U] = IF U = {} THEN 0 ELSE f[AnyOf(U)] + H[U \ {AnyOf(U)}]
  <2>1. SumsUp(f, S, G) /\ SumsUp(f, T, H)
    BY <1>1, SumEquation
  <2>. HIDE DEF G, H
  <2>. QED
    BY <2>1 DEF SumsUp
<1>3. TickSum(f, T) = H[T]
  BY TickSumIs
<1>. HIDE DEF G, H
<1>4. {} \in Good
  BY <1>2
<1>5. \A U \in SUBSET T : (\A x \in U : U \ {x} \in Good) => U \in Good
  <2>. SUFFICES ASSUME NEW U \in SUBSET T, \A x \in U : U \ {x} \in Good PROVE U \in Good
    OBVIOUS
  <2>1. CASE U = {}
    BY <1>4, <2>1
  <2>2. CASE U # {}
    <3>1. AnyOf(U) \in U
      BY <2>2 DEF AnyOf
    <3>2. G[U \ {AnyOf(U)}] = H[U \ {AnyOf(U)}]
      BY <3>1
    <3>3. G[U] = H[U]
      BY <1>2, <2>2, <3>2
    <3>. QED
      BY <3>3
  <2>. QED
    BY <2>1, <2>2
<1>6. T \in Good
  <2>. HIDE DEF Good
  <2>. QED
    BY <1>1, <1>4, <1>5, AllSmallerInduction
<1>7. G[T] = H[T]
  BY <1>6
<1>. QED
  BY <1>3, <1>7 DEF G

LEMMA SumNat ==
  ASSUME NEW S, IsFiniteSet(S), NEW f \in [S -> Nat], NEW G,
         \A T \in SUBSET S : G[T] = IF T = {} THEN 0 ELSE f[AnyOf(T)] + G[T \ {AnyOf(T)}]
  PROVE  \A T \in SUBSET S : G[T] \in Nat
<1>. DEFINE Good == {T \in SUBSET S : G[T] \in Nat}
<1>1. {} \in Good
  OBVIOUS
<1>2. \A T \in SUBSET S : (\A x \in T : T \ {x} \in Good) => T \in Good
  <2>. SUFFICES ASSUME NEW T \in SUBSET S, \A x \in T : T \ {x} \in Good PROVE T \in Good
    OBVIOUS
  <2>1. CASE T = {}
    BY <1>1, <2>1
  <2>2. CASE T # {}
    <3>1. AnyOf(T) \in T
      BY <2>2 DEF AnyOf
    <3>2. f[AnyOf(T)] \in Nat /\ G[T \ {AnyOf(T)}] \in Nat
      BY <3>1
    <3>3. G[T] \in Nat
      BY <2>2, <3>2
    <3>. QED
      BY <3>3
  <2>. QED
    BY <2>1, <2>2
<1>. HIDE DEF Good
<1>3. \A T \in SUBSET S : T \in Good
  BY <1>1, <1>2, AllSmallerInduction
<1>. QED
  BY <1>3 DEF Good

\* What a sum is, taken apart at any element.
LEMMA SumTakenApart ==
  ASSUME NEW S, IsFiniteSet(S), NEW f \in [S -> Nat]
  PROVE  \A T \in SUBSET S : /\ TickSum(f, T) \in Nat
                             /\ T = {} => TickSum(f, T) = 0
                             /\ \A x \in T : TickSum(f, T) = f[x] + TickSum(f, T \ {x})
<1>. DEFINE G == SumFcn(f, S)
            Good == {T \in SUBSET S : /\ G[T] \in Nat
                                      /\ \A x \in T : G[T] = f[x] + G[T \ {x}]}
<1>1. \A T \in SUBSET S : G[T] = IF T = {} THEN 0 ELSE f[AnyOf(T)] + G[T \ {AnyOf(T)}]
  <2>1. SumsUp(f, S, G)
    BY SumEquation
  <2>. HIDE DEF G
  <2>. QED
    BY <2>1 DEF SumsUp
<1>2. \A T \in SUBSET S : TickSum(f, T) = G[T]
  BY SumsAgree
<1>. HIDE DEF G
<1>6. \A T \in SUBSET S : G[T] \in Nat
  BY <1>1, SumNat
<1>3. {} \in Good
  BY <1>1
<1>4. \A T \in SUBSET S : (\A x \in T : T \ {x} \in Good) => T \in Good
  <2>. SUFFICES ASSUME NEW T \in SUBSET S, \A x \in T : T \ {x} \in Good PROVE T \in Good
    OBVIOUS
  <2>1. CASE T = {}
    BY <1>3, <2>1
  <2>2. CASE T # {}
    <3>1. PICK y \in T : y = AnyOf(T)
      BY <2>2 DEF AnyOf
    <3>2. G[T] = f[y] + G[T \ {y}]
      BY <1>1, <2>2, <3>1
    <3>3. G[T \ {y}] \in Nat /\ f[y] \in Nat
      OBVIOUS
    <3>4. ASSUME NEW x \in T
          PROVE  G[T] = f[x] + G[T \ {x}]
      <4>1. CASE x = y
        BY <3>2, <4>1
      <4>2. CASE x # y
        <5>. DEFINE R == (T \ {x}) \ {y}
        <5>1. R = (T \ {y}) \ {x} /\ R \in SUBSET S
          OBVIOUS
        <5>2. G[T \ {y}] = f[x] + G[R]
          BY <4>2, <5>1
        <5>3. G[T \ {x}] = f[y] + G[R] /\ G[T \ {x}] \in Nat
          BY <4>2
        <5>4. f[x] \in Nat /\ f[y] \in Nat /\ G[R] \in Nat
          BY <1>6, <5>1
        <5>. HIDE DEF R
        <5>. QED
          BY <3>2, <5>2, <5>3, <5>4
      <4>. QED
        BY <4>1, <4>2
    <3>5. G[T] \in Nat
      BY <1>6
    <3>. QED
      BY <3>4, <3>5
  <2>. QED
    BY <2>1, <2>2
<1>5. \A T \in SUBSET S : T \in Good
  <2>. HIDE DEF Good
  <2>. QED
    BY <1>3, <1>4, AllSmallerInduction
<1>. QED
  BY <1>1, <1>2, <1>5

LEMMA SumSame ==
  ASSUME NEW S, IsFiniteSet(S), NEW f \in [S -> Nat], NEW g \in [S -> Nat]
  PROVE  \A T \in SUBSET S : (\A x \in T : f[x] = g[x]) => TickSum(f, T) = TickSum(g, T)
<1>. DEFINE Good == {T \in SUBSET S : (\A x \in T : f[x] = g[x])
                                         => TickSum(f, T) = TickSum(g, T)}
<1>1. \A T \in SUBSET S :
        /\ T = {} => TickSum(f, T) = 0 /\ TickSum(g, T) = 0
        /\ \A x \in T : /\ TickSum(f, T) = f[x] + TickSum(f, T \ {x})
                        /\ TickSum(g, T) = g[x] + TickSum(g, T \ {x})
  BY SumTakenApart
<1>2. {} \in Good
  BY <1>1
<1>3. \A T \in SUBSET S : (\A x \in T : T \ {x} \in Good) => T \in Good
  <2>. SUFFICES ASSUME NEW T \in SUBSET S, \A x \in T : T \ {x} \in Good,
                       \A x \in T : f[x] = g[x]
                PROVE  TickSum(f, T) = TickSum(g, T)
    OBVIOUS
  <2>1. CASE T = {}
    BY <1>1, <2>1
  <2>2. ASSUME NEW x \in T
        PROVE  TickSum(f, T) = TickSum(g, T)
    <3>1. TickSum(f, T \ {x}) = TickSum(g, T \ {x})
      OBVIOUS
    <3>. QED
      BY <1>1, <3>1
  <2>. QED
    BY <2>1, <2>2
<1>. HIDE DEF Good
<1>4. \A T \in SUBSET S : T \in Good
  BY <1>2, <1>3, AllSmallerInduction
<1>. QED
  BY <1>4 DEF Good

LEMMA SumParts ==
  ASSUME NEW S, IsFiniteSet(S), NEW f \in [S -> Nat], NEW U \in SUBSET S
  PROVE  \A T \in SUBSET S : T \cap U = {} => TickSum(f, T \cup U) = TickSum(f, T) + TickSum(f, U)
<1>. DEFINE Good == {T \in SUBSET S :
              T \cap U = {} => TickSum(f, T \cup U) = TickSum(f, T) + TickSum(f, U)}
<1>1. \A T \in SUBSET S : /\ TickSum(f, T) \in Nat
                          /\ T = {} => TickSum(f, T) = 0
                          /\ \A x \in T : TickSum(f, T) = f[x] + TickSum(f, T \ {x})
  BY SumTakenApart
<1>2. {} \in Good
  <2>1. TickSum(f, {} \cup U) = TickSum(f, U)
    OBVIOUS
  <2>2. TickSum(f, {}) = 0 /\ TickSum(f, U) \in Nat
    BY <1>1
  <2>. QED
    BY <2>1, <2>2
<1>3. \A T \in SUBSET S : (\A x \in T : T \ {x} \in Good) => T \in Good
  <2>. SUFFICES ASSUME NEW T \in SUBSET S, \A x \in T : T \ {x} \in Good, T \cap U = {}
                PROVE  TickSum(f, T \cup U) = TickSum(f, T) + TickSum(f, U)
    OBVIOUS
  <2>1. CASE T = {}
    <3>1. {} \in Good
      BY <1>2
    <3>. QED
      BY <2>1, <3>1
  <2>2. ASSUME NEW x \in T
        PROVE  TickSum(f, T \cup U) = TickSum(f, T) + TickSum(f, U)
    <3>1. TickSum(f, (T \ {x}) \cup U) = TickSum(f, T \ {x}) + TickSum(f, U)
      OBVIOUS
    <3>2. (T \cup U) \ {x} = (T \ {x}) \cup U /\ T \cup U \in SUBSET S
      OBVIOUS
    <3>3. TickSum(f, T \cup U) = f[x] + TickSum(f, (T \ {x}) \cup U)
      BY <1>1, <3>2
    <3>4. TickSum(f, T) = f[x] + TickSum(f, T \ {x})
      BY <1>1
    <3>5. f[x] \in Nat /\ TickSum(f, T \ {x}) \in Nat /\ TickSum(f, U) \in Nat
      BY <1>1
    <3>. QED
      BY <3>1, <3>3, <3>4, <3>5
  <2>. QED
    BY <2>1, <2>2
<1>. HIDE DEF Good
<1>4. \A T \in SUBSET S : T \in Good
  BY <1>2, <1>3, AllSmallerInduction
<1>. QED
  BY <1>4 DEF Good

LEMMA SumLess ==
  ASSUME NEW S, IsFiniteSet(S), NEW f \in [S -> Nat], NEW T \in SUBSET S, NEW U \in SUBSET T
  PROVE  TickSum(f, U) <= TickSum(f, T)
<1>1. TickSum(f, (T \ U) \cup U) = TickSum(f, T \ U) + TickSum(f, U)
  BY SumParts
<1>2. (T \ U) \cup U = T
  OBVIOUS
<1>3. TickSum(f, T \ U) \in Nat /\ TickSum(f, U) \in Nat
  BY SumTakenApart
<1>4. TickSum(f, T) = TickSum(f, T \ U) + TickSum(f, U)
  BY ONLY <1>1, <1>2
<1>. QED
  BY ONLY <1>3, <1>4

\* At most what the two parts have that cover it.
LEMMA SumCovered ==
  ASSUME NEW S, IsFiniteSet(S), NEW f \in [S -> Nat], NEW T \in SUBSET S, NEW U \in SUBSET S,
         NEW V, V \subseteq T \cup U
  PROVE  TickSum(f, V) <= TickSum(f, T) + TickSum(f, U)
<1>1. TickSum(f, (T \ U) \cup U) = TickSum(f, T \ U) + TickSum(f, U)
  BY SumParts
<1>2. TickSum(f, V) <= TickSum(f, (T \ U) \cup U)
  <2>1. V \in SUBSET ((T \ U) \cup U) /\ (T \ U) \cup U \in SUBSET S
    OBVIOUS
  <2>. QED
    BY <2>1, SumLess
<1>3. TickSum(f, T \ U) <= TickSum(f, T)
  BY SumLess
<1>4. /\ TickSum(f, T \ U) \in Nat /\ TickSum(f, U) \in Nat /\ TickSum(f, T) \in Nat
      /\ TickSum(f, V) \in Nat
  <2>1. V \in SUBSET S
    OBVIOUS
  <2>. QED
    BY <2>1, SumTakenApart
<1>. QED
  BY <1>1, <1>2, <1>3, <1>4

LEMMA SumZero ==
  ASSUME NEW S, IsFiniteSet(S), NEW f \in [S -> Nat], NEW T \in SUBSET S, \A x \in T : f[x] = 0
  PROVE  TickSum(f, T) = 0
<1>. DEFINE Good == {U \in SUBSET T : TickSum(f, U) = 0}
<1>1. \A U \in SUBSET S : /\ U = {} => TickSum(f, U) = 0
                          /\ \A x \in U : TickSum(f, U) = f[x] + TickSum(f, U \ {x})
  BY SumTakenApart
<1>2. {} \in Good
  BY <1>1
<1>3. \A U \in SUBSET T : (\A x \in U : U \ {x} \in Good) => U \in Good
  <2>. SUFFICES ASSUME NEW U \in SUBSET T, \A x \in U : U \ {x} \in Good
                PROVE  TickSum(f, U) = 0
    OBVIOUS
  <2>1. CASE U = {}
    BY <1>1, <2>1
  <2>2. ASSUME NEW x \in U
        PROVE  TickSum(f, U) = 0
    <3>1. TickSum(f, U \ {x}) = 0 /\ f[x] = 0 /\ U \in SUBSET S
      OBVIOUS
    <3>. QED
      BY <1>1, <3>1
  <2>. QED
    BY <2>1, <2>2
<1>. HIDE DEF Good
<1>4. IsFiniteSet(T)
  BY FS_Subset
<1>5. \A U \in SUBSET T : U \in Good
  BY <1>2, <1>3, <1>4, AllSmallerInduction
<1>. QED
  BY <1>5 DEF Good

LEMMA SumOneMore ==
  ASSUME NEW S, IsFiniteSet(S), NEW f \in [S -> Nat], NEW x \in S,
         NEW g \in [S -> Nat], g[x] = f[x] + 1, \A y \in S : y # x => g[y] = f[y],
         NEW T \in SUBSET S
  PROVE  TickSum(g, T) = IF x \in T THEN TickSum(f, T) + 1 ELSE TickSum(f, T)
<1>2. CASE x \notin T
  BY <1>2, SumSame
<1>3. CASE x \in T
  <2>1. TickSum(g, T \ {x}) = TickSum(f, T \ {x})
    BY SumSame
  <2>2. /\ TickSum(g, T) = g[x] + TickSum(g, T \ {x})
        /\ TickSum(f, T) = f[x] + TickSum(f, T \ {x})
    BY <1>3, SumTakenApart
  <2>3. TickSum(f, T \ {x}) \in Nat /\ f[x] \in Nat
    BY SumTakenApart
  <2>. QED
    BY <1>3, <2>1, <2>2, <2>3
<1>. QED
  BY <1>2, <1>3

(***************************************************************************)
(* The rate limiter.  b is when the last window of a key began: what was   *)
(* let through since is at most Limit, and so is what was let through in   *)
(* the Window before it, as the window before it had ended by then; a span *)
(* of one Window that reaches beyond b begins within those.                *)
(***************************************************************************)
LimiterAssumption ==
  /\ Window \in Nat \ {0} /\ Limit \in Nat \ {0} /\ Second \in Nat \ {0}
  /\ MaxTime \in Nat

Span(a, z) == {t \in Limiter!Times : a <= t /\ t < z}

\* At time n, with g let through, the window e and the hint r.
WindowFollows(b, n, g, e, r) ==
  /\ b <= n
  /\ IF e.resetAt > n
     THEN e.resetAt = b + Window /\ (e.count <= Limit => TickSum(g, Span(b, n + 1)) = e.count)
          /\ (e.count > Limit => TickSum(g, Span(b, n + 1)) = Limit)
     ELSE b + Window <= n
  /\ \A t \in Limiter!Times : t > n \/ t >= b + Window => g[t] = 0
  /\ TickSum(g, Span(b, MaxTime + 1)) <= Limit
  /\ TickSum(g, Span(b - Window, b)) <= Limit
  /\ \A t \in Limiter!Times : TickSum(g, Span(t, t + Window)) <= 2 * Limit
  /\ r # 0 => r >= b + Window

KeyFollows(n, g, e, r) == \E b \in Int : WindowFollows(b, n, g, e, r)

LimiterTypes ==
  /\ now \in Limiter!Times
  /\ store \in [Keys -> [count : Nat, resetAt : Nat]]
  /\ passed \in [Keys -> [Limiter!Times -> Nat]]
  /\ retryAt \in [Keys -> Nat]

LimiterInv ==
  /\ LimiterTypes /\ ~ unjust
  /\ \A k \in Keys : KeyFollows(now, passed[k], store[k], retryAt[k])

LEMMA TicksAreFinite ==
  ASSUME LimiterAssumption
  PROVE  IsFiniteSet(Limiter!Times) /\ \A a, z : Span(a, z) \in SUBSET Limiter!Times
BY FS_Interval DEF LimiterAssumption, Limiter!Times, Span

LEMMA PassedIs ==
  ASSUME NEW k, NEW a, NEW z
  PROVE  Limiter!PassedIn(k, a, z) = TickSum(passed[k], Span(a, z))
BY DEF Limiter!PassedIn, TickSum, Span

\* A refusal is to be retried when its window has ended, or later.
LEMMA RetryIsLate ==
  ASSUME LimiterAssumption, NEW n \in Int
  PROVE  Limiter!RetryAfter(n) \in Nat /\ Limiter!RetryAfter(n) >= n
<1>. DEFINE q == (n + Second - 1) \div Second
            s == IF q < 1 THEN 1 ELSE q
<1>1. Second \in Int /\ Second > 0
  BY DEF LimiterAssumption
<1>2. q \in Int /\ n + Second - 1 = Second * q + ((n + Second - 1) % Second)
      /\ (n + Second - 1) % Second \in 0 .. Second - 1
  BY <1>1
<1>. HIDE DEF q
<1>3. Second * q >= n
  BY <1>1, <1>2
<1>4. s \in Nat /\ s >= q
  BY <1>2
<1>5. Second * s \in Nat /\ Second * s >= Second * q
  BY <1>1, <1>2, <1>4
<1>6. Limiter!RetryAfter(n) = Second * s
  BY DEF Limiter!RetryAfter, q
<1>. HIDE DEF s
<1>. QED
  BY <1>1, <1>2, <1>3, <1>5, <1>6

LEMMA InitLimiter == LimiterAssumption /\ Limiter!Init => LimiterInv
<1>. SUFFICES ASSUME LimiterAssumption, Limiter!Init PROVE LimiterInv
  OBVIOUS
<1>1. LimiterTypes /\ ~ unjust
  BY DEF Limiter!Init, LimiterTypes, Limiter!NoEntry, Limiter!Times, LimiterAssumption
<1>2. ASSUME NEW k \in Keys
      PROVE  KeyFollows(now, passed[k], store[k], retryAt[k])
  <2>1. /\ now = 0 /\ store[k].resetAt = 0 /\ retryAt[k] = 0
        /\ passed[k] \in [Limiter!Times -> Nat] /\ \A t \in Limiter!Times : passed[k][t] = 0
    BY DEF Limiter!Init, Limiter!NoEntry
  <2>2. \A a, z : TickSum(passed[k], Span(a, z)) = 0
    <3>. TAKE a, z
    <3>1. Span(a, z) \in SUBSET Limiter!Times /\ IsFiniteSet(Limiter!Times)
      BY TicksAreFinite
    <3>. QED
      BY <2>1, <3>1, SumZero
  <2>3. WindowFollows(- Window, now, passed[k], store[k], retryAt[k])
    BY <2>1, <2>2 DEF WindowFollows, LimiterAssumption
  <2>. QED
    BY <2>3 DEF KeyFollows, LimiterAssumption
<1>. QED
  BY <1>1, <1>2 DEF LimiterInv

LEMMA TickKeeps ==
  ASSUME LimiterAssumption, LimiterInv, Limiter!Tick
  PROVE  LimiterInv'
<1>1. /\ now' = now + 1 /\ now' \in Limiter!Times
      /\ UNCHANGED <<store, passed, retryAt, unjust>>
  BY DEF Limiter!Tick, LimiterInv, LimiterTypes, Limiter!Times, LimiterAssumption
<1>2. ASSUME NEW k \in Keys
      PROVE  KeyFollows(now + 1, passed[k], store[k], retryAt[k])
  <2>. DEFINE g == passed[k]
              e == store[k]
              r == retryAt[k]
  <2>1. PICK b \in Int : WindowFollows(b, now, g, e, r)
    BY DEF LimiterInv, KeyFollows
  <2>2. g \in [Limiter!Times -> Nat] /\ e.resetAt \in Nat /\ r \in Nat /\ e.count \in Nat
        /\ now \in Nat /\ Window \in Nat
    BY DEF LimiterInv, LimiterTypes, Limiter!Times, LimiterAssumption
  <2>. HIDE DEF g, e, r
  <2>3. ASSUME e.resetAt > now + 1
        PROVE  TickSum(g, Span(b, now + 2)) = TickSum(g, Span(b, now + 1))
    <3>1. Span(b, now + 1) \cap Span(now + 1, now + 2) = {}
          /\ Span(b, now + 1) \cup Span(now + 1, now + 2) = Span(b, now + 2)
      <4>1. b <= now
        BY <2>1 DEF WindowFollows
      <4>. QED
        BY <2>2, <4>1 DEF Span, Limiter!Times, LimiterAssumption
    <3>2. TickSum(g, Span(now + 1, now + 2)) = 0
      <4>1. \A t \in Span(now + 1, now + 2) : g[t] = 0
        BY <2>1, <2>2 DEF WindowFollows, Span, Limiter!Times, LimiterAssumption
      <4>. QED
        BY <2>2, <4>1, TicksAreFinite, SumZero
    <3>3. TickSum(g, Span(b, now + 1) \cup Span(now + 1, now + 2))
            = TickSum(g, Span(b, now + 1)) + TickSum(g, Span(now + 1, now + 2))
      BY <2>2, <3>1, TicksAreFinite, SumParts
    <3>4. TickSum(g, Span(b, now + 1)) \in Nat
      BY <2>2, TicksAreFinite, SumTakenApart
    <3>. QED
      BY <3>1, <3>2, <3>3, <3>4
  <2>4. now + 1 + 1 = now + 2
    BY <2>2
  <2>5. WindowFollows(b, now + 1, g, e, r)
    BY <2>1, <2>2, <2>3, <2>4 DEF WindowFollows, Limiter!Times, LimiterAssumption
  <2>. QED
    BY <2>5 DEF KeyFollows, g, e, r
<1>. QED
  BY <1>1, <1>2 DEF LimiterInv, LimiterTypes

\* The windows of the others, of which those that have ended may be removed.
LEMMA RemovalKeeps ==
  ASSUME LimiterAssumption, NEW n \in Nat, NEW g, NEW e, NEW x, NEW r,
         KeyFollows(n, g, e, r),
         x = e \/ (Limiter!Ended(e, n) /\ e.resetAt \in Nat /\ x = Limiter!NoEntry)
  PROVE  KeyFollows(n, g, x, r)
<1>1. PICK b \in Int : WindowFollows(b, n, g, e, r)
  BY DEF KeyFollows
<1>2. CASE x = Limiter!NoEntry /\ Limiter!Ended(e, n) /\ e.resetAt \in Nat
  <2>1. x.resetAt = 0 /\ ~ (e.resetAt > n)
    BY <1>2 DEF Limiter!NoEntry, Limiter!Ended
  <2>2. WindowFollows(b, n, g, x, r)
    BY <1>1, <2>1 DEF WindowFollows
  <2>. QED
    BY <2>2 DEF KeyFollows
<1>. QED
  BY <1>2

\* A request is let through at n: it is counted, and where it begins a
\* window, the last one is the window before.
LEMMA PassKeeps ==
  ASSUME LimiterAssumption, NEW n \in Limiter!Times, NEW g \in [Limiter!Times -> Nat],
         NEW f \in [Limiter!Times -> Nat], f[n] = g[n] + 1,
         \A t \in Limiter!Times : t # n => f[t] = g[t],
         NEW b \in Int, b <= n, n < b + Window,
         \A t \in Limiter!Times : t > n \/ t >= b + Window => g[t] = 0,
         NEW c \in Nat, TickSum(g, Span(b, n + 1)) = c, c < Limit,
         TickSum(g, Span(b - Window, b)) <= Limit,
         \A t \in Limiter!Times : TickSum(g, Span(t, t + Window)) <= 2 * Limit
  PROVE  WindowFollows(b, n, f, [count |-> c + 1, resetAt |-> b + Window], 0)
<1>t. Limiter!Times = 0 .. MaxTime
  BY DEF Limiter!Times
<1>1. /\ Window \in Nat /\ Limit \in Nat /\ MaxTime \in Nat
      /\ n \in Nat /\ n <= MaxTime /\ \A t \in Limiter!Times : t \in Nat /\ t <= MaxTime
  BY <1>t DEF LimiterAssumption
<1>f. IsFiniteSet(Limiter!Times)
  BY TicksAreFinite
<1>2. \A T \in SUBSET Limiter!Times :
        TickSum(f, T) = IF n \in T THEN TickSum(g, T) + 1 ELSE TickSum(g, T)
  BY <1>f, SumOneMore
<1>s. \A a, z : Span(a, z) \in SUBSET Limiter!Times
  BY TicksAreFinite
<1>n. \A T \in SUBSET Limiter!Times : TickSum(g, T) \in Nat /\ TickSum(f, T) \in Nat
  BY <1>f, SumTakenApart
<1>3. \A a, z : n \in Span(a, z) <=> a <= n /\ n < z
  BY DEF Span
<1>4. TickSum(f, Span(b, n + 1)) = c + 1
  <2>1. n \in Span(b, n + 1)
    BY <1>1, <1>3
  <2>. QED
    BY <1>2, <1>s, <2>1
<1>5. \A t \in Limiter!Times : t > n \/ t >= b + Window => f[t] = 0
  <2>. TAKE t \in Limiter!Times
  <2>. HAVE t > n \/ t >= b + Window
  <2>1. t # n
    BY <1>1
  <2>. QED
    BY <2>1
<1>6. TickSum(f, Span(b, MaxTime + 1)) <= Limit
  <2>0. \A u \in Limiter!Times :
          /\ ~ (u < n + 1 /\ n + 1 <= u) /\ u < MaxTime + 1
          /\ n + 1 <= u => b <= u /\ n < u
          /\ u < n + 1 \/ n + 1 <= u
    <3>. TAKE u \in Limiter!Times
    <3>1. u \in Nat /\ u <= MaxTime
      BY <1>1
    <3>. QED
      BY <1>1, <3>1
  <2>1. /\ Span(b, n + 1) \cap Span(n + 1, MaxTime + 1) = {}
        /\ Span(b, n + 1) \cup Span(n + 1, MaxTime + 1) = Span(b, MaxTime + 1)
    BY <2>0 DEF Span
  <2>2. TickSum(f, Span(n + 1, MaxTime + 1)) = 0
    <3>1. \A t \in Span(n + 1, MaxTime + 1) : t \in Limiter!Times /\ t >= n + 1
      BY DEF Span
    <3>2. \A t \in Span(n + 1, MaxTime + 1) : f[t] = 0
      BY <1>5, <2>0, <3>1
    <3>. QED
      BY <1>f, <1>s, <3>2, SumZero
  <2>3. TickSum(f, Span(b, n + 1) \cup Span(n + 1, MaxTime + 1))
          = TickSum(f, Span(b, n + 1)) + TickSum(f, Span(n + 1, MaxTime + 1))
    BY <1>f, <1>s, <2>1, SumParts
  <2>4. TickSum(f, Span(b, MaxTime + 1)) = c + 1
    BY ONLY <1>4, <2>1, <2>2, <2>3, c \in Nat
  <2>. QED
    BY ONLY <1>1, <2>4, c \in Nat, c < Limit
<1>7. TickSum(f, Span(b - Window, b)) <= Limit
  <2>1. n \notin Span(b - Window, b)
    BY <1>1, <1>3
  <2>. QED
    BY <1>2, <1>s, <2>1
<1>8. ASSUME NEW t \in Limiter!Times
      PROVE  TickSum(f, Span(t, t + Window)) <= 2 * Limit
  <2>1. CASE n \notin Span(t, t + Window)
    BY <1>2, <1>s, <2>1
  <2>2. CASE n \in Span(t, t + Window)
    <3>1. t <= n /\ n < t + Window /\ t \in Nat
      BY <1>1, <1>3, <2>2
    <3>2. Span(t, t + Window) \subseteq Span(b - Window, b) \cup Span(b, MaxTime + 1)
      <4>1. ASSUME NEW u \in Limiter!Times, t <= u, u < t + Window
            PROVE  b - Window <= u /\ u < MaxTime + 1 /\ (u < b \/ b <= u)
        <5>1. u \in Nat /\ u <= MaxTime
          BY <1>1
        <5>. QED
          BY <1>1, <3>1, <4>1, <5>1
      <4>. QED
        BY <4>1 DEF Span
    <3>3. TickSum(f, Span(t, t + Window))
            <= TickSum(f, Span(b - Window, b)) + TickSum(f, Span(b, MaxTime + 1))
      BY <1>f, <1>s, <3>2, SumCovered
    <3>4. /\ TickSum(f, Span(t, t + Window)) \in Nat
          /\ TickSum(f, Span(b - Window, b)) \in Nat
          /\ TickSum(f, Span(b, MaxTime + 1)) \in Nat
      BY <1>n, <1>s
    <3>. QED
      BY ONLY <1>1, <1>6, <1>7, <3>3, <3>4
  <2>. QED
    BY <2>1, <2>2
<1>9. c + 1 <= Limit
  BY <1>1
<1>. QED
  BY <1>1, <1>4, <1>5, <1>6, <1>7, <1>8, <1>9 DEF WindowFollows

\* The request's own key.
LEMMA LetThrough ==
  ASSUME LimiterAssumption, NEW n \in Limiter!Times, NEW g \in [Limiter!Times -> Nat],
         NEW f \in [Limiter!Times -> Nat], f[n] = g[n] + 1,
         \A t \in Limiter!Times : t # n => f[t] = g[t],
         NEW e \in [count : Nat, resetAt : Nat], NEW r \in Nat, KeyFollows(n, g, e, r),
         NEW x, x = (IF Limiter!Ended(e, n) THEN [count |-> 1, resetAt |-> n + Window]
                     ELSE [e EXCEPT !.count = @ + 1]),
         x.count <= Limit
  PROVE  KeyFollows(n, f, x, 0)
<1>1. PICK b \in Int : WindowFollows(b, n, g, e, r)
  BY DEF KeyFollows
<1>2. /\ Window \in Nat \ {0} /\ Limit \in Nat \ {0} /\ MaxTime \in Nat /\ n \in Nat
      /\ IsFiniteSet(Limiter!Times) /\ n <= MaxTime
      /\ \A a, z : Span(a, z) \in SUBSET Limiter!Times
      /\ Limiter!Times = 0 .. MaxTime
  BY TicksAreFinite DEF LimiterAssumption, Limiter!Times
<1>3. CASE Limiter!Ended(e, n)
  <2>1. b + Window <= n /\ x = [count |-> 1, resetAt |-> n + Window]
    BY <1>1, <1>3 DEF WindowFollows, Limiter!Ended
  <2>2. TickSum(g, Span(n, n + 1)) = 0
    <3>1. \A t \in Span(n, n + 1) : g[t] = 0
      BY <1>1, <1>2, <2>1 DEF WindowFollows, Span
    <3>. QED
      BY <1>2, <3>1, SumZero
  <2>3. TickSum(g, Span(n - Window, n)) <= Limit
    <3>1. Span(n - Window, n) \subseteq Span(b, MaxTime + 1)
      BY <1>2, <2>1 DEF Span
    <3>2. TickSum(g, Span(n - Window, n)) <= TickSum(g, Span(b, MaxTime + 1))
      BY <1>2, <3>1, SumLess
    <3>3. /\ TickSum(g, Span(n - Window, n)) \in Nat
          /\ TickSum(g, Span(b, MaxTime + 1)) \in Nat
      BY <1>2, SumTakenApart
    <3>. QED
      BY <1>1, <1>2, <3>2, <3>3 DEF WindowFollows
  <2>4. \A t \in Limiter!Times : t > n \/ t >= n + Window => g[t] = 0
    BY <1>1, <1>2 DEF WindowFollows
  <2>5. \A t \in Limiter!Times : TickSum(g, Span(t, t + Window)) <= 2 * Limit
    BY <1>1 DEF WindowFollows
  <2>6. WindowFollows(n, n, f, [count |-> 0 + 1, resetAt |-> n + Window], 0)
    <3>1. 0 \in Nat /\ 0 < Limit /\ n \in Int /\ n <= n /\ n < n + Window
      BY <1>2
    <3>. QED
      BY <2>2, <2>3, <2>4, <2>5, <3>1, PassKeeps
  <2>7. WindowFollows(n, n, f, x, 0)
    BY <2>1, <2>6
  <2>. QED
    BY <1>2, <2>7 DEF KeyFollows
<1>4. CASE ~ Limiter!Ended(e, n)
  <2>1. /\ e.resetAt > n /\ e.count \in Nat /\ x.count = e.count + 1
        /\ x = [count |-> e.count + 1, resetAt |-> e.resetAt]
    BY <1>2, <1>4 DEF Limiter!Ended
  <2>2. /\ e.resetAt = b + Window /\ TickSum(g, Span(b, n + 1)) = e.count /\ e.count < Limit
        /\ b <= n /\ n < b + Window
    BY <1>1, <1>2, <2>1 DEF WindowFollows
  <2>3. /\ \A t \in Limiter!Times : t > n \/ t >= b + Window => g[t] = 0
        /\ TickSum(g, Span(b - Window, b)) <= Limit
        /\ \A t \in Limiter!Times : TickSum(g, Span(t, t + Window)) <= 2 * Limit
    BY <1>1 DEF WindowFollows
  <2>4. WindowFollows(b, n, f, [count |-> e.count + 1, resetAt |-> b + Window], 0)
    BY <2>1, <2>2, <2>3, PassKeeps
  <2>5. WindowFollows(b, n, f, x, 0)
    BY <2>1, <2>2, <2>4
  <2>. QED
    BY <2>5 DEF KeyFollows
<1>. QED
  BY <1>3, <1>4

\* A refusal: the window is full and has not ended.
LEMMA RefusedRightly ==
  ASSUME LimiterAssumption, NEW n \in Limiter!Times, NEW g \in [Limiter!Times -> Nat],
         NEW e \in [count : Nat, resetAt : Nat], NEW r \in Nat, KeyFollows(n, g, e, r),
         NEW x, x = (IF Limiter!Ended(e, n) THEN [count |-> 1, resetAt |-> n + Window]
                     ELSE [e EXCEPT !.count = @ + 1]),
         ~ (x.count <= Limit)
  PROVE  /\ KeyFollows(n, g, x, n + Limiter!RetryAfter(x.resetAt - n))
         /\ ~ (TickSum(g, Span(n - Window + 1, n + 1)) < Limit)
         /\ ~ (r # 0 /\ n >= r)
<1>1. PICK b \in Int : WindowFollows(b, n, g, e, r)
  BY DEF KeyFollows
<1>2. /\ Window \in Nat \ {0} /\ Limit \in Nat \ {0} /\ MaxTime \in Nat /\ n \in Nat
      /\ IsFiniteSet(Limiter!Times) /\ n <= MaxTime
      /\ \A a, z : Span(a, z) \in SUBSET Limiter!Times
      /\ Limiter!Times = 0 .. MaxTime
  BY TicksAreFinite DEF LimiterAssumption, Limiter!Times
<1>3. ~ Limiter!Ended(e, n)
  BY <1>2
<1>4. /\ e.resetAt > n /\ e.count \in Nat /\ x.count = e.count + 1 /\ e.resetAt \in Nat
      /\ x = [count |-> e.count + 1, resetAt |-> e.resetAt] /\ x.resetAt = e.resetAt
  BY <1>2, <1>3 DEF Limiter!Ended
<1>5. /\ e.resetAt = b + Window /\ e.count >= Limit /\ n < b + Window
      /\ TickSum(g, Span(b, n + 1)) = Limit
  BY <1>1, <1>2, <1>4 DEF WindowFollows
<1>6. ~ (r # 0 /\ n >= r)
  BY <1>1, <1>2, <1>5 DEF WindowFollows
<1>7. ~ (TickSum(g, Span(n - Window + 1, n + 1)) < Limit)
  <2>1. Span(b, n + 1) \subseteq Span(n - Window + 1, n + 1)
    BY <1>2, <1>5 DEF Span
  <2>2. TickSum(g, Span(b, n + 1)) <= TickSum(g, Span(n - Window + 1, n + 1))
    BY <1>2, <2>1, SumLess
  <2>3. TickSum(g, Span(n - Window + 1, n + 1)) \in Nat
    BY <1>2, SumTakenApart
  <2>. QED
    BY <1>2, <1>5, <2>2, <2>3
<1>8. n + Limiter!RetryAfter(x.resetAt - n) >= b + Window
  <2>1. x.resetAt - n \in Int
    BY <1>2, <1>4
  <2>2. /\ Limiter!RetryAfter(x.resetAt - n) \in Nat
        /\ Limiter!RetryAfter(x.resetAt - n) >= x.resetAt - n
    BY <2>1, RetryIsLate
  <2>. QED
    BY <1>2, <1>4, <1>5, <2>2
<1>9. WindowFollows(b, n, g, x, n + Limiter!RetryAfter(x.resetAt - n))
  BY <1>1, <1>2, <1>4, <1>5, <1>8 DEF WindowFollows
<1>. QED
  BY <1>6, <1>7, <1>9 DEF KeyFollows

LEMMA RequestKeeps ==
  ASSUME LimiterAssumption, LimiterInv, NEW k \in Keys, Limiter!Request(k)
  PROVE  LimiterInv'
<1>. DEFINE kept == Limiter!Cleaned(store)
            entry == Limiter!Counted(kept[k])
<1>1. /\ now \in Limiter!Times /\ now \in Nat /\ Window \in Nat /\ ~ unjust
      /\ store \in [Keys -> [count : Nat, resetAt : Nat]]
      /\ passed \in [Keys -> [Limiter!Times -> Nat]]
      /\ retryAt \in [Keys -> Nat]
      /\ \A j \in Keys : KeyFollows(now, passed[j], store[j], retryAt[j])
  BY DEF LimiterInv, LimiterTypes, Limiter!Times, LimiterAssumption
<1>2. /\ kept \in [Keys -> [count : Nat, resetAt : Nat]]
      /\ \A j \in Keys :
           kept[j] = store[j] \/ (Limiter!Ended(store[j], now) /\ kept[j] = Limiter!NoEntry)
  BY <1>1 DEF Limiter!Cleaned, Limiter!NoEntry
<1>3. /\ store' = [kept EXCEPT ![k] = entry] /\ now' = now
      /\ IF entry.count <= Limit
         THEN /\ passed' = [passed EXCEPT ![k][now] = @ + 1]
              /\ retryAt' = [retryAt EXCEPT ![k] = 0]
              /\ UNCHANGED unjust
         ELSE /\ retryAt' = [retryAt EXCEPT ![k] = now + Limiter!RetryAfter(entry.resetAt - now)]
              /\ unjust' = (unjust \/ Limiter!PassedIn(k, now - Window + 1, now + 1) < Limit
                                   \/ (retryAt[k] # 0 /\ now >= retryAt[k]))
              /\ UNCHANGED passed
  BY DEF Limiter!Request
<1>. HIDE DEF kept
<1>4. \A j \in Keys : KeyFollows(now, passed[j], kept[j], retryAt[j])
  <2>. TAKE j \in Keys
  <2>1. store[j].resetAt \in Nat
    BY <1>1
  <2>2. KeyFollows(now, passed[j], store[j], retryAt[j])
    BY <1>1
  <2>. QED
    BY <1>1, <1>2, <2>1, <2>2, RemovalKeeps
<1>5. entry = IF Limiter!Ended(kept[k], now) THEN [count |-> 1, resetAt |-> now + Window]
              ELSE [kept[k] EXCEPT !.count = @ + 1]
  BY DEF Limiter!Counted
<1>6. entry \in [count : Nat, resetAt : Nat]
  BY <1>1, <1>2, <1>5
<1>. HIDE DEF entry
<1>7. store' \in [Keys -> [count : Nat, resetAt : Nat]] /\ store'[k] = entry
      /\ \A j \in Keys : j # k => store'[j] = kept[j]
  BY <1>2, <1>3, <1>6
<1>8. CASE entry.count <= Limit
  <2>1. /\ passed' = [passed EXCEPT ![k][now] = @ + 1]
        /\ retryAt' = [retryAt EXCEPT ![k] = 0] /\ unjust' = unjust
    BY <1>3, <1>8
  <2>2. /\ passed' \in [Keys -> [Limiter!Times -> Nat]]
        /\ passed'[k][now] = passed[k][now] + 1
        /\ \A t \in Limiter!Times : t # now => passed'[k][t] = passed[k][t]
        /\ \A j \in Keys : j # k => passed'[j] = passed[j]
    BY <1>1, <2>1
  <2>3. /\ retryAt' \in [Keys -> Nat] /\ retryAt'[k] = 0
        /\ \A j \in Keys : j # k => retryAt'[j] = retryAt[j]
    BY <1>1, <2>1
  <2>4. KeyFollows(now, passed'[k], entry, 0)
    <3>1. /\ passed[k] \in [Limiter!Times -> Nat] /\ passed'[k] \in [Limiter!Times -> Nat]
          /\ kept[k] \in [count : Nat, resetAt : Nat] /\ retryAt[k] \in Nat
          /\ KeyFollows(now, passed[k], kept[k], retryAt[k])
      BY <1>1, <1>2, <1>4, <2>2
    <3>. QED
      BY <1>1, <1>5, <1>8, <2>2, <3>1, LetThrough
  <2>5. \A j \in Keys : KeyFollows(now', passed'[j], store'[j], retryAt'[j])
    BY <1>3, <1>4, <1>7, <2>2, <2>3, <2>4
  <2>. QED
    BY <1>1, <1>3, <1>7, <2>1, <2>2, <2>3, <2>5 DEF LimiterInv, LimiterTypes
<1>9. CASE ~ (entry.count <= Limit)
  <2>1. /\ retryAt' = [retryAt EXCEPT ![k] = now + Limiter!RetryAfter(entry.resetAt - now)]
        /\ unjust' = (unjust \/ Limiter!PassedIn(k, now - Window + 1, now + 1) < Limit
                             \/ (retryAt[k] # 0 /\ now >= retryAt[k]))
        /\ passed' = passed
    BY <1>3, <1>9
  <2>2. now + Limiter!RetryAfter(entry.resetAt - now) \in Nat
    <3>1. entry.resetAt - now \in Int
      BY <1>1, <1>6
    <3>2. Limiter!RetryAfter(entry.resetAt - now) \in Nat
      BY <3>1, RetryIsLate
    <3>. QED
      BY <1>1, <3>2
  <2>3. /\ retryAt' \in [Keys -> Nat]
        /\ retryAt'[k] = now + Limiter!RetryAfter(entry.resetAt - now)
        /\ \A j \in Keys : j # k => retryAt'[j] = retryAt[j]
    BY <1>1, <2>1, <2>2
  <2>4. /\ KeyFollows(now, passed[k], entry, now + Limiter!RetryAfter(entry.resetAt - now))
        /\ ~ (TickSum(passed[k], Span(now - Window + 1, now + 1)) < Limit)
        /\ ~ (retryAt[k] # 0 /\ now >= retryAt[k])
    <3>1. /\ passed[k] \in [Limiter!Times -> Nat]
          /\ kept[k] \in [count : Nat, resetAt : Nat] /\ retryAt[k] \in Nat
          /\ KeyFollows(now, passed[k], kept[k], retryAt[k])
      BY <1>1, <1>2, <1>4
    <3>. QED
      BY <1>1, <1>5, <1>9, <3>1, RefusedRightly
  <2>5. ~ unjust'
    <3>1. Limiter!PassedIn(k, now - Window + 1, now + 1)
            = TickSum(passed[k], Span(now - Window + 1, now + 1))
      BY PassedIs
    <3>. QED
      BY <1>1, <2>1, <2>4, <3>1
  <2>6. \A j \in Keys : KeyFollows(now', passed'[j], store'[j], retryAt'[j])
    BY <1>3, <1>4, <1>7, <2>1, <2>3, <2>4
  <2>. QED
    BY <1>1, <1>3, <1>7, <2>1, <2>3, <2>5, <2>6 DEF LimiterInv, LimiterTypes
<1>. QED
  BY <1>8, <1>9

LEMMA NextLimiter ==
  ASSUME LimiterAssumption, LimiterInv, [Limiter!Next]_limiterVars
  PROVE  LimiterInv'
<1>1. CASE UNCHANGED limiterVars
  BY <1>1 DEF limiterVars, LimiterInv, LimiterTypes
<1>. QED
  BY <1>1, TickKeeps, RequestKeeps DEF Limiter!Next

LEMMA SpansPass ==
  ASSUME LimiterAssumption, LimiterInv
  PROVE  Limiter!LimitIsFair
<1>1. ASSUME NEW k \in Keys, NEW t \in Limiter!Times
      PROVE  Limiter!PassedIn(k, t, t + Window) <= 2 * Limit
  <2>1. PICK b \in Int : WindowFollows(b, now, passed[k], store[k], retryAt[k])
    BY DEF LimiterInv, KeyFollows
  <2>2. TickSum(passed[k], Span(t, t + Window)) <= 2 * Limit
    BY <2>1 DEF WindowFollows
  <2>3. Limiter!PassedIn(k, t, t + Window) = TickSum(passed[k], Span(t, t + Window))
    BY PassedIs
  <2>. QED
    BY <2>2, <2>3
<1>. QED
  BY <1>1 DEF Limiter!LimitIsFair, LimiterInv

(***************************************************************************)
(* A limiter neither lets through too much nor refuses too much, for any   *)
(* window, limit, clock and keys, and whenever ended windows are removed:  *)
(* no span of one window holds more than twice the limit, and a request is *)
(* refused only where the limit has passed within the window before it,    *)
(* never one that waited as its last refusal said.                         *)
(***************************************************************************)
THEOREM LimitsAreFair == LimiterAssumption /\ ServiceSpec => []LimitIsFair
<1>. SUFFICES ASSUME LimiterAssumption PROVE ServiceSpec => []LimitIsFair
  OBVIOUS
<1>. DEFINE I == part = "limiter" => LimiterInv
<1>1. ServiceInit => I
  BY InitLimiter DEF ServiceInit, Begins
<1>2. I /\ [ServiceNext]_serviceVars => I'
  BY OnePartRuns, NextLimiter
<1>3. I => LimitIsFair
  BY SpansPass DEF LimitIsFair
<1>. QED
  BY <1>1, <1>2, <1>3, PTL DEF ServiceSpec

(***************************************************************************)
(* The schema of MySQL.  A start knows of each step of the program that it *)
(* is past it: what the step is for is there, or still to be done by this  *)
(* very start (Passed).  A start that nobody is beside can do all that it  *)
(* has left (Doable).  Whatever else is done meanwhile takes nothing of    *)
(* that away but an index of the summaries, which whoever dropped it makes *)
(* anew unless it dies before (Scoped).                                    *)
(***************************************************************************)
SchemaAssumption == Olds \subseteq DOMAIN Schema!Databases

Indexes == Schema!ModelIndexes \cup {"history", "log_trace", "log_unique", "scope_other",
                              "scope_legacy", "employee_unique"}
Migrations == {"bootstrap", "payRates", "scope", "trace", "idempotency"}
Stale == {"scope_other", "scope_legacy"}
Logged == [id : {1, 2}, status : {"SUCCESS", "PENDING", "FAILED"}, at : Nat]

AllStatements ==
  [do : {"add"}, on : Schema!Full] \cup [do : {"drop_column"}, on : Schema!LegacyColumns]
    \cup [do : {"update"}, on : {"tables", "pay_rate", "pay_type", "scope"}]
    \cup [do : {"drop"}, on : Stale \cup {"employee_unique", "history_by_model"}]
    \cup [do : {"create"}, on : Schema!ModelIndexes \cup {"history", "log_trace", "log_unique"}]
    \cup [do : {"delete_rows"}, on : SUBSET {1, 2}]

DbType ==
  [present : BOOLEAN, cols : SUBSET (Schema!Full \cup Schema!LegacyColumns),
   idx : SUBSET Indexes, rate : {"none", "zero", "kept"}, kind : {"none", "default", "kept"},
   unscoped : BOOLEAN, log : SUBSET Logged, applied : SUBSET Migrations]

SchemaTypes ==
  /\ db \in DbType
  /\ proc \in [Procs -> [up : BOOLEAN, alone : BOOLEAN, next : 0..27, last : {0, 10, 26},
                         todo : SUBSET AllStatements]]
  /\ writes \in Nat /\ severed \in BOOLEAN /\ rewritten \in BOOLEAN

\* A process that is up is in its part of the program, one that is not has
\* nothing to do.
InPart(p) ==
  /\ ~ proc[p].up => proc[p].todo = {}
  /\ proc[p].up => proc[p].last \in {10, 26} /\ proc[p].next > 0
  /\ proc[p].up /\ proc[p].last = 10 => proc[p].next \in 2..11

\* Rows of the log differ in their id and in the time they were written.
RowsDiffer ==
  /\ \A q, r \in db.log : q.id = r.id \/ q.at = r.at => q = r
  /\ \A r \in db.log : r.at < 3 + writes

\* The index of the summaries is there or about to be made.
Scoped ==
  "scope" \in db.idx \/ \E q \in Procs : proc[q].up /\ Schema!Create("scope") \in proc[q].todo

\* What is there of the columns and indexes a migration is for, and stays.
PayRatesDone == Schema!RateColumns \subseteq db.cols /\ Schema!LegacyColumns \cap db.cols = {}
ScopeColumnsDone == Schema!ScopeColumns \subseteq db.cols /\ ~ db.unscoped
ScopeDone == ScopeColumnsDone /\ Stale \cap db.idx = {} /\ (severed \/ Scoped)
TraceDone == "correlation_id" \in db.cols /\ "log_trace" \in db.idx

RecordedDone ==
  /\ "payRates" \in db.applied => PayRatesDone
  /\ "scope" \in db.applied => ScopeDone
  /\ "trace" \in db.applied => TraceDone
  /\ "idempotency" \in db.applied => "log_unique" \in db.idx

DbInv ==
  /\ db.present => \/ "pay_rate" \in db.cols /\ db.rate = "kept"
                   \/ "value" \in db.cols
  /\ db.present => \/ "pay_type" \in db.cols /\ db.kind = "kept"
                   \/ "type" \in db.cols
  /\ db.applied # {} => db.present
  /\ db.present /\ "bootstrap" \notin db.applied => Schema!Full \subseteq db.cols
  /\ ~ ("scope" \in db.idx /\ "scope_other" \in db.idx)
  /\ "log_unique" \in db.idx => Schema!OneRow(db)
  /\ ~ rewritten /\ writes > 0 => \E r \in db.log : r.status = "SUCCESS"

\* The row that outranks the others is not among those to be deleted.
BestStays(S) ==
  db.log # {} => \E b \in db.log : b.id \notin S /\ \A r \in db.log : r = b \/ Schema!Outranks(b, r)

\* What a start has still to do it does in an order that loses nothing.
TodoInv(todo) ==
  /\ Schema!DropColumn("value") \in todo =>
       Schema!Update("pay_rate") \in todo \/ ("pay_rate" \in db.cols /\ db.rate = "kept")
  /\ Schema!DropColumn("type") \in todo =>
       Schema!Update("pay_type") \in todo \/ ("pay_type" \in db.cols /\ db.kind = "kept")
  /\ Schema!Drop("scope_other") \in todo => Schema!Create("scope") \in todo
  /\ ~ rewritten => \A s \in todo : s.do = "delete_rows" => BestStays(s.on)

\* What a start at instruction n is past.
Passed(n, todo) ==
  /\ n >= 4 => db.present \/ Schema!Update("tables") \in todo
  /\ n = 14 => /\ \A c \in Schema!RateColumns : c \in db.cols \/ Schema!Add(c) \in todo
               /\ \A c \in Schema!LegacyColumns : c \notin db.cols \/ Schema!DropColumn(c) \in todo
  /\ n = 17 => /\ \A c \in Schema!ScopeColumns : c \in db.cols \/ Schema!Add(c) \in todo
               /\ ~ db.unscoped \/ Schema!Update("scope") \in todo
  /\ n = 18 => /\ ScopeColumnsDone
               /\ \A i \in Stale : i \notin db.idx \/ Schema!Drop(i) \in todo
               /\ severed \/ Scoped
  /\ n = 21 => "correlation_id" \in db.cols \/ Schema!Add("correlation_id") \in todo
  /\ n = 22 => /\ "correlation_id" \in db.cols
               /\ "log_trace" \in db.idx \/ Schema!Create("log_trace") \in todo
  /\ n >= 23 => "trace" \in db.applied
  /\ n = 26 => "log_unique" \in db.idx \/ Schema!Create("log_unique") \in todo

\* Statement s is possible when its turn comes, if nobody else does any.
Doable(s, todo) ==
  /\ s.do = "add" => s.on \notin db.cols
  /\ s.do = "drop_column" => s.on \in db.cols
  /\ s.do = "drop" => Schema!NameOf(s.on) \in Schema!Names(db.idx)
  /\ s.do = "create" => /\ \/ s.on \notin Schema!Names(db.idx)
                           \/ s.on = "scope" /\ Schema!Drop("scope_other") \in todo
                        /\ Schema!ColumnsOf(s.on) \subseteq db.cols \/ Schema!Update("tables") \in todo
                        /\ s.on = "log_unique" => Schema!OneRow(db)
  /\ s = Schema!Update("pay_rate") => /\ "value" \in db.cols
                                      /\ "pay_rate" \in db.cols \/ Schema!Add("pay_rate") \in todo
  /\ s = Schema!Update("pay_type") => /\ "type" \in db.cols
                                      /\ "pay_type" \in db.cols \/ Schema!Add("pay_type") \in todo

\* Tables are made before anything is looked up of them.
TablesFirst(todo) ==
  Schema!Update("tables") \in todo =>
    /\ ~ db.present
    /\ \A s \in todo : s = Schema!Update("tables") \/ \E i \in Schema!ModelIndexes : s = Schema!Create(i)

Lone(n, todo) ==
  /\ n \in 2..11 => "bootstrap" \notin db.applied
  /\ n \in {10, 25} => \E k \in {1, 2} : \A r \in db.log :
       r.id = k \/ \E s \in todo : s.do = "delete_rows" /\ r.id \in s.on
  /\ TablesFirst(todo)
  /\ \A s \in todo : Doable(s, todo)

LoneInv(p) ==
  (\A q \in Procs \ {p} : ~ proc[q].up) /\ Lone(proc[p].next, proc[p].todo)

SchemaInv ==
  /\ SchemaTypes /\ RowsDiffer /\ DbInv /\ RecordedDone
  /\ \A p \in Procs : /\ InPart(p) /\ TodoInv(proc[p].todo)
                      /\ proc[p].up => Passed(proc[p].next, proc[p].todo)
                      /\ proc[p].up /\ proc[p].alone /\ proc[p].last = 26 => LoneInv(p)

-----------------------------------------------------------------------------
\* The program, instruction by instruction.
LEMMA BootstrapText ==
  /\ DOMAIN Schema!Bootstrap = 1..26 /\ Len(Schema!Bootstrap) = 26
  /\ Schema!Whole[1] = 1 /\ Schema!Whole[2] = 26 /\ Schema!SyncOnly[1] = 2 /\ Schema!SyncOnly[2] = 10
  /\ Schema!Bootstrap[1].op = "ask" /\ Schema!Bootstrap[1].at = "bootstrap"
  /\ Schema!Bootstrap[2].op = "look" /\ Schema!Bootstrap[2].at = "pay_rates"
  /\ Schema!Bootstrap[3].op = "look" /\ Schema!Bootstrap[3].at = "models"
  /\ Schema!Bootstrap[4].op = "look" /\ Schema!Bootstrap[4].at = "scope_columns"
  /\ Schema!Bootstrap[5].op = "look" /\ Schema!Bootstrap[5].at = "scope_index"
  /\ Schema!Bootstrap[6].op = "look" /\ Schema!Bootstrap[6].at = "history"
  /\ Schema!Bootstrap[7].op = "look" /\ Schema!Bootstrap[7].at = "trace_column"
  /\ Schema!Bootstrap[8].op = "look" /\ Schema!Bootstrap[8].at = "trace_index"
  /\ Schema!Bootstrap[9].op = "look" /\ Schema!Bootstrap[9].at = "dedupe"
  /\ Schema!Bootstrap[10].op = "look" /\ Schema!Bootstrap[10].at = "log_index"
  /\ Schema!Bootstrap[11].op = "record" /\ Schema!Bootstrap[11].at = "bootstrap"
  /\ Schema!Bootstrap[12].op = "ask" /\ Schema!Bootstrap[12].at = "payRates"
  /\ Schema!Bootstrap[13].op = "look" /\ Schema!Bootstrap[13].at = "pay_rates"
  /\ Schema!Bootstrap[14].op = "record" /\ Schema!Bootstrap[14].at = "payRates"
  /\ Schema!Bootstrap[15].op = "ask" /\ Schema!Bootstrap[15].at = "scope"
  /\ Schema!Bootstrap[16].op = "look" /\ Schema!Bootstrap[16].at = "scope_columns"
  /\ Schema!Bootstrap[17].op = "look" /\ Schema!Bootstrap[17].at = "scope_index"
  /\ Schema!Bootstrap[18].op = "record" /\ Schema!Bootstrap[18].at = "scope"
  /\ Schema!Bootstrap[19].op = "ask" /\ Schema!Bootstrap[19].at = "trace"
  /\ Schema!Bootstrap[20].op = "look" /\ Schema!Bootstrap[20].at = "trace_column"
  /\ Schema!Bootstrap[21].op = "look" /\ Schema!Bootstrap[21].at = "trace_index"
  /\ Schema!Bootstrap[22].op = "record" /\ Schema!Bootstrap[22].at = "trace"
  /\ Schema!Bootstrap[23].op = "ask" /\ Schema!Bootstrap[23].at = "idempotency"
  /\ Schema!Bootstrap[24].op = "look" /\ Schema!Bootstrap[24].at = "dedupe"
  /\ Schema!Bootstrap[25].op = "look" /\ Schema!Bootstrap[25].at = "log_index"
  /\ Schema!Bootstrap[26].op = "record" /\ Schema!Bootstrap[26].at = "idempotency"
<1>1. Len(Schema!Bootstrap) = 26
  BY DEF Schema!Bootstrap
<1>2. /\ DOMAIN Schema!Bootstrap = 1..26
      /\ Schema!Whole[1] = 1
      /\ Schema!Whole[2] = 26
      /\ Schema!SyncOnly[1] = 2
      /\ Schema!SyncOnly[2] = 10
  BY <1>1 DEF Schema!Bootstrap, Schema!Whole, Schema!SyncOnly
<1>3. /\ Schema!Bootstrap[1].op = "ask" /\ Schema!Bootstrap[1].at = "bootstrap"
      /\ Schema!Bootstrap[2].op = "look" /\ Schema!Bootstrap[2].at = "pay_rates"
      /\ Schema!Bootstrap[3].op = "look" /\ Schema!Bootstrap[3].at = "models"
      /\ Schema!Bootstrap[4].op = "look" /\ Schema!Bootstrap[4].at = "scope_columns"
  BY DEF Schema!Bootstrap, Schema!Asks, Schema!Look
<1>4. /\ Schema!Bootstrap[5].op = "look" /\ Schema!Bootstrap[5].at = "scope_index"
      /\ Schema!Bootstrap[6].op = "look" /\ Schema!Bootstrap[6].at = "history"
      /\ Schema!Bootstrap[7].op = "look" /\ Schema!Bootstrap[7].at = "trace_column"
      /\ Schema!Bootstrap[8].op = "look" /\ Schema!Bootstrap[8].at = "trace_index"
  BY DEF Schema!Bootstrap, Schema!Look
<1>5. /\ Schema!Bootstrap[9].op = "look" /\ Schema!Bootstrap[9].at = "dedupe"
      /\ Schema!Bootstrap[10].op = "look" /\ Schema!Bootstrap[10].at = "log_index"
      /\ Schema!Bootstrap[11].op = "record" /\ Schema!Bootstrap[11].at = "bootstrap"
      /\ Schema!Bootstrap[12].op = "ask" /\ Schema!Bootstrap[12].at = "payRates"
  BY DEF Schema!Bootstrap, Schema!Asks, Schema!Look, Schema!Records
<1>6. /\ Schema!Bootstrap[13].op = "look" /\ Schema!Bootstrap[13].at = "pay_rates"
      /\ Schema!Bootstrap[14].op = "record" /\ Schema!Bootstrap[14].at = "payRates"
      /\ Schema!Bootstrap[15].op = "ask" /\ Schema!Bootstrap[15].at = "scope"
      /\ Schema!Bootstrap[16].op = "look" /\ Schema!Bootstrap[16].at = "scope_columns"
  BY DEF Schema!Bootstrap, Schema!Asks, Schema!Look, Schema!Records
<1>7. /\ Schema!Bootstrap[17].op = "look" /\ Schema!Bootstrap[17].at = "scope_index"
      /\ Schema!Bootstrap[18].op = "record" /\ Schema!Bootstrap[18].at = "scope"
      /\ Schema!Bootstrap[19].op = "ask" /\ Schema!Bootstrap[19].at = "trace"
      /\ Schema!Bootstrap[20].op = "look" /\ Schema!Bootstrap[20].at = "trace_column"
  BY DEF Schema!Bootstrap, Schema!Asks, Schema!Look, Schema!Records
<1>8. /\ Schema!Bootstrap[21].op = "look" /\ Schema!Bootstrap[21].at = "trace_index"
      /\ Schema!Bootstrap[22].op = "record" /\ Schema!Bootstrap[22].at = "trace"
      /\ Schema!Bootstrap[23].op = "ask" /\ Schema!Bootstrap[23].at = "idempotency"
      /\ Schema!Bootstrap[24].op = "look" /\ Schema!Bootstrap[24].at = "dedupe"
  BY DEF Schema!Bootstrap, Schema!Asks, Schema!Look, Schema!Records
<1>9. /\ Schema!Bootstrap[25].op = "look" /\ Schema!Bootstrap[25].at = "log_index"
      /\ Schema!Bootstrap[26].op = "record" /\ Schema!Bootstrap[26].at = "idempotency"
  BY DEF Schema!Bootstrap, Schema!Look, Schema!Records
<1>. QED
  BY <1>1, <1>2, <1>3, <1>4, <1>5, <1>6, <1>7, <1>8, <1>9

LEMMA RecordsOne ==
  /\ Schema!Bootstrap[11] = Schema!Records("bootstrap")
  /\ Schema!Bootstrap[14] = Schema!Records("payRates")
  /\ Schema!Bootstrap[18] = Schema!Records("scope") /\ Schema!Bootstrap[22] = Schema!Records("trace")
  /\ Schema!Bootstrap[26] = Schema!Records("idempotency")
BY DEF Schema!Bootstrap

LEMMA Numbered ==
  ASSUME NEW n \in 1..26
  PROVE  /\ Schema!Bootstrap[n].op = "ask" =>
              \/ n = 1 /\ Schema!Bootstrap[n].at = "bootstrap"
              \/ n = 12 /\ Schema!Bootstrap[n].at = "payRates"
              \/ n = 15 /\ Schema!Bootstrap[n].at = "scope"
              \/ n = 19 /\ Schema!Bootstrap[n].at = "trace"
              \/ n = 23 /\ Schema!Bootstrap[n].at = "idempotency"
         /\ Schema!Bootstrap[n].op = "look" =>
              \/ n \in {2, 13} /\ Schema!Bootstrap[n].at = "pay_rates"
              \/ n = 3 /\ Schema!Bootstrap[n].at = "models"
              \/ n \in {4, 16} /\ Schema!Bootstrap[n].at = "scope_columns"
              \/ n \in {5, 17} /\ Schema!Bootstrap[n].at = "scope_index"
              \/ n = 6 /\ Schema!Bootstrap[n].at = "history"
              \/ n \in {7, 20} /\ Schema!Bootstrap[n].at = "trace_column"
              \/ n \in {8, 21} /\ Schema!Bootstrap[n].at = "trace_index"
              \/ n \in {9, 24} /\ Schema!Bootstrap[n].at = "dedupe"
              \/ n \in {10, 25} /\ Schema!Bootstrap[n].at = "log_index"
         /\ Schema!Bootstrap[n].op = "record" =>
              \/ n = 11 /\ Schema!Bootstrap[n].at = "bootstrap"
              \/ n = 14 /\ Schema!Bootstrap[n].at = "payRates"
              \/ n = 18 /\ Schema!Bootstrap[n].at = "scope"
              \/ n = 22 /\ Schema!Bootstrap[n].at = "trace"
              \/ n = 26 /\ Schema!Bootstrap[n].at = "idempotency"
<1>1. n \in 1..6 \/ n \in 7..11 \/ n \in 12..18 \/ n \in 19..26
  OBVIOUS
<1>2. CASE n \in 1..6
  <2>1. n = 1 \/ n = 2 \/ n = 3 \/ n = 4 \/ n = 5 \/ n = 6
    BY <1>2
  <2>2. /\ Schema!Bootstrap[1].op = "ask" /\ Schema!Bootstrap[1].at = "bootstrap"
        /\ Schema!Bootstrap[2].op = "look" /\ Schema!Bootstrap[2].at = "pay_rates"
        /\ Schema!Bootstrap[3].op = "look" /\ Schema!Bootstrap[3].at = "models"
        /\ Schema!Bootstrap[4].op = "look" /\ Schema!Bootstrap[4].at = "scope_columns"
        /\ Schema!Bootstrap[5].op = "look" /\ Schema!Bootstrap[5].at = "scope_index"
        /\ Schema!Bootstrap[6].op = "look" /\ Schema!Bootstrap[6].at = "history"
    BY BootstrapText
  <2>. QED
    BY ONLY <2>1, <2>2
<1>3. CASE n \in 7..11
  <2>1. n = 7 \/ n = 8 \/ n = 9 \/ n = 10 \/ n = 11
    BY <1>3
  <2>2. /\ Schema!Bootstrap[7].op = "look" /\ Schema!Bootstrap[7].at = "trace_column"
        /\ Schema!Bootstrap[8].op = "look" /\ Schema!Bootstrap[8].at = "trace_index"
        /\ Schema!Bootstrap[9].op = "look" /\ Schema!Bootstrap[9].at = "dedupe"
        /\ Schema!Bootstrap[10].op = "look" /\ Schema!Bootstrap[10].at = "log_index"
        /\ Schema!Bootstrap[11].op = "record" /\ Schema!Bootstrap[11].at = "bootstrap"
    BY BootstrapText
  <2>. QED
    BY ONLY <2>1, <2>2
<1>4. CASE n \in 12..18
  <2>1. n = 12 \/ n = 13 \/ n = 14 \/ n = 15 \/ n = 16 \/ n = 17 \/ n = 18
    BY <1>4
  <2>2. /\ Schema!Bootstrap[12].op = "ask" /\ Schema!Bootstrap[12].at = "payRates"
        /\ Schema!Bootstrap[13].op = "look" /\ Schema!Bootstrap[13].at = "pay_rates"
        /\ Schema!Bootstrap[14].op = "record" /\ Schema!Bootstrap[14].at = "payRates"
        /\ Schema!Bootstrap[15].op = "ask" /\ Schema!Bootstrap[15].at = "scope"
        /\ Schema!Bootstrap[16].op = "look" /\ Schema!Bootstrap[16].at = "scope_columns"
        /\ Schema!Bootstrap[17].op = "look" /\ Schema!Bootstrap[17].at = "scope_index"
        /\ Schema!Bootstrap[18].op = "record" /\ Schema!Bootstrap[18].at = "scope"
    BY BootstrapText
  <2>. QED
    BY ONLY <2>1, <2>2
<1>5. CASE n \in 19..26
  <2>1. n = 19 \/ n = 20 \/ n = 21 \/ n = 22 \/ n = 23 \/ n = 24 \/ n = 25 \/ n = 26
    BY <1>5
  <2>2. /\ Schema!Bootstrap[19].op = "ask" /\ Schema!Bootstrap[19].at = "trace"
        /\ Schema!Bootstrap[20].op = "look" /\ Schema!Bootstrap[20].at = "trace_column"
        /\ Schema!Bootstrap[21].op = "look" /\ Schema!Bootstrap[21].at = "trace_index"
        /\ Schema!Bootstrap[22].op = "record" /\ Schema!Bootstrap[22].at = "trace"
        /\ Schema!Bootstrap[23].op = "ask" /\ Schema!Bootstrap[23].at = "idempotency"
        /\ Schema!Bootstrap[24].op = "look" /\ Schema!Bootstrap[24].at = "dedupe"
        /\ Schema!Bootstrap[25].op = "look" /\ Schema!Bootstrap[25].at = "log_index"
        /\ Schema!Bootstrap[26].op = "record" /\ Schema!Bootstrap[26].at = "idempotency"
    BY BootstrapText
  <2>. QED
    BY ONLY <2>1, <2>2
<1>. QED
  BY ONLY <1>1, <1>2, <1>3, <1>4, <1>5

LEMMA PastRecordIs ==
  /\ Schema!PastRecord("bootstrap") = 12
  /\ Schema!PastRecord("payRates") = 15
  /\ Schema!PastRecord("scope") = 19
  /\ Schema!PastRecord("trace") = 23 /\ Schema!PastRecord("idempotency") = 27
<1>1. ASSUME NEW n \in 1..26, NEW m, Schema!Bootstrap[n] = Schema!Records(m)
      PROVE  \/ n = 11 /\ m = "bootstrap"
             \/ n = 14 /\ m = "payRates"
             \/ n = 18 /\ m = "scope"
             \/ n = 22 /\ m = "trace"
             \/ n = 26 /\ m = "idempotency"
  <2>1. Schema!Bootstrap[n].op = "record" /\ Schema!Bootstrap[n].at = m
    BY <1>1 DEF Schema!Records
  <2>. QED
    BY <2>1, Numbered
<1>2. \A m : Schema!PastRecord(m) = 1 + CHOOSE n \in 1..26 : Schema!Bootstrap[n] = Schema!Records(m)
  BY BootstrapText DEF Schema!PastRecord
<1>. QED
  BY ONLY <1>1, <1>2, RecordsOne

\* Where a process is when it meets an instruction of one kind.
LEMMA AskedAt ==
  ASSUME SchemaTypes, NEW p \in Procs, InPart(p), NEW i, Schema!Ready(p),
         i = Schema!Bootstrap[proc[p].next], i.op = "ask"
  PROVE  \/ proc[p].next = 1 /\ i.at = "bootstrap"
         \/ proc[p].next = 12 /\ i.at = "payRates"
         \/ proc[p].next = 15 /\ i.at = "scope"
         \/ proc[p].next = 19 /\ i.at = "trace"
         \/ proc[p].next = 23 /\ i.at = "idempotency"
<1>1. proc[p].next \in 0..27 /\ proc[p].last \in {0, 10, 26}
  BY DEF SchemaTypes, DbType
<1>2. proc[p].next \in 1..26 /\ i = Schema!Bootstrap[proc[p].next]
  BY <1>1 DEF Schema!Ready, InPart
<1>. QED
  BY <1>2, Numbered

LEMMA LookedAt ==
  ASSUME SchemaTypes, NEW p \in Procs, InPart(p), NEW i, Schema!Ready(p),
         i = Schema!Bootstrap[proc[p].next], i.op = "look"
  PROVE  \/ proc[p].next \in {2, 13} /\ i.at = "pay_rates"
         \/ proc[p].next = 3 /\ i.at = "models"
         \/ proc[p].next \in {4, 16} /\ i.at = "scope_columns"
         \/ proc[p].next \in {5, 17} /\ i.at = "scope_index"
         \/ proc[p].next = 6 /\ i.at = "history"
         \/ proc[p].next \in {7, 20} /\ i.at = "trace_column"
         \/ proc[p].next \in {8, 21} /\ i.at = "trace_index"
         \/ proc[p].next \in {9, 24} /\ i.at = "dedupe"
         \/ proc[p].next \in {10, 25} /\ i.at = "log_index"
<1>1. proc[p].next \in 0..27 /\ proc[p].last \in {0, 10, 26}
  BY DEF SchemaTypes, DbType
<1>2. proc[p].next \in 1..26 /\ i = Schema!Bootstrap[proc[p].next]
  BY <1>1 DEF Schema!Ready, InPart
<1>. QED
  BY <1>2, Numbered

LEMMA RecordsAt ==
  ASSUME SchemaTypes, NEW p \in Procs, InPart(p), NEW i, Schema!Ready(p),
         i = Schema!Bootstrap[proc[p].next], i.op = "record"
  PROVE  \/ proc[p].next = 11 /\ i.at = "bootstrap"
         \/ proc[p].next = 14 /\ i.at = "payRates"
         \/ proc[p].next = 18 /\ i.at = "scope"
         \/ proc[p].next = 22 /\ i.at = "trace"
         \/ proc[p].next = 26 /\ i.at = "idempotency"
<1>1. proc[p].next \in 0..27 /\ proc[p].last \in {0, 10, 26}
  BY DEF SchemaTypes, DbType
<1>2. proc[p].next \in 1..26 /\ i = Schema!Bootstrap[proc[p].next]
  BY <1>1 DEF Schema!Ready, InPart
<1>. QED
  BY <1>2, Numbered

\* What the order keeps apart.
LEMMA OrderKeeps ==
  /\ Schema!Before(Schema!Update("pay_rate"), Schema!DropColumn("value"))
  /\ Schema!Before(Schema!Update("pay_type"), Schema!DropColumn("type"))
  /\ Schema!Before(Schema!Add("pay_rate"), Schema!Update("pay_rate"))
  /\ Schema!Before(Schema!Add("pay_type"), Schema!Update("pay_type"))
  /\ Schema!Before(Schema!Drop("scope_other"), Schema!Create("scope"))
  /\ \A x \in Schema!ModelIndexes : Schema!Before(Schema!Update("tables"), Schema!Create(x))
<1>1. /\ DOMAIN Schema!Order = 1..19
      /\ Schema!Order[1] = Schema!Update("tables")
      /\ Schema!Order[3] = Schema!Add("pay_rate")
      /\ Schema!Order[4] = Schema!Add("pay_type")
      /\ Schema!Order[7] = Schema!Update("pay_rate") /\ Schema!Order[8] = Schema!Update("pay_type")
      /\ Schema!Order[10] = Schema!DropColumn("value") /\ Schema!Order[11] = Schema!DropColumn("type")
      /\ Schema!Order[12] = Schema!Drop("scope_other")
      /\ Schema!Order[16] = Schema!Create("history_by_model")
      /\ Schema!Order[17] = Schema!Create("scope")
      /\ Schema!Order[18] = Schema!Create("log_trace_by_model")
  BY DEF Schema!Order
<1>2. ASSUME NEW m \in 1..19, NEW n \in 1..19, m < n PROVE Schema!Before(Schema!Order[m], Schema!Order[n])
  BY <1>1, <1>2 DEF Schema!Before
<1>4. /\ Schema!Before(Schema!Order[7], Schema!Order[10])
      /\ Schema!Before(Schema!Order[8], Schema!Order[11])
      /\ Schema!Before(Schema!Order[3], Schema!Order[7])
      /\ Schema!Before(Schema!Order[4], Schema!Order[8])
      /\ Schema!Before(Schema!Order[12], Schema!Order[17])
      /\ Schema!Before(Schema!Order[1], Schema!Order[16])
      /\ Schema!Before(Schema!Order[1], Schema!Order[17])
      /\ Schema!Before(Schema!Order[1], Schema!Order[18])
  BY <1>2
<1>3. \A x \in Schema!ModelIndexes : x = "history_by_model" \/ x = "scope" \/ x = "log_trace_by_model"
  BY DEF Schema!ModelIndexes
<1>. QED
  BY ONLY <1>1, <1>4, <1>3

\* A log of two rows.
LEMMA WrittenIs ==
  ASSUME NEW a, NEW b
  PROVE  Schema!Written(<<a, b>>) = {Schema!Row(1, a, 1), Schema!Row(2, b, 2)}
<1>1. DOMAIN <<a, b>> = {1, 2}
  OBVIOUS
<1>. QED
  BY <1>1 DEF Schema!Written

LEMMA TwoRows ==
  ASSUME NEW s \in {"SUCCESS", "PENDING", "FAILED"}, NEW t \in {"SUCCESS", "PENDING", "FAILED"},
         db.log = {Schema!Row(1, s, 1), Schema!Row(2, t, 2)}, writes = 0
  PROVE  RowsDiffer /\ db.log \subseteq Logged
<1>1. Schema!Row(1, s, 1) \in Logged /\ Schema!Row(2, t, 2) \in Logged
  BY DEF Schema!Row, Logged
<1>2. PICK a, b : a = Schema!Row(1, s, 1) /\ b = Schema!Row(2, t, 2)
  OBVIOUS
<1>3. a.id = 1 /\ a.at = 1 /\ b.id = 2 /\ b.at = 2
  BY <1>2 DEF Schema!Row
<1>4. db.log = {a, b} /\ writes = 0
  BY <1>2
<1>5. \A q, r \in db.log : q.id = r.id \/ q.at = r.at => q = r
  BY ONLY <1>3, <1>4
<1>6. \A r \in db.log : r.at < 3 + writes
  BY ONLY <1>3, <1>4
<1>. QED
  BY <1>1, <1>5, <1>6 DEF RowsDiffer

LEMMA InitSchema ==
  ASSUME SchemaAssumption, Schema!Init
  PROVE  SchemaInv
<1>1. PICK o \in {"fresh", "earlier", "partial", "scripted"} : db = Schema!Databases[o]
  BY DEF SchemaAssumption, Schema!Init, Schema!Databases
<1>2. /\ \A p \in Procs : proc[p] = Schema!Away
      /\ proc \in [Procs -> {Schema!Away}]
      /\ writes = 0 /\ severed = FALSE /\ rewritten = FALSE
  BY DEF Schema!Init
<1>3. /\ db \in DbType
      /\ RowsDiffer /\ DbInv /\ RecordedDone
  <2>1. CASE o = "fresh"
    <3>1. db = Schema!Blank
      BY <1>1, <2>1 DEF Schema!Databases
    <3>. QED
      BY <1>2, <3>1 DEF DbType, Schema!Blank, RowsDiffer, DbInv, RecordedDone, Schema!OneRow
  <2>2. CASE o = "earlier"
    <3>1. /\ db = [present |-> TRUE, cols |-> Schema!LegacyColumns, idx |-> {"scope_legacy", "employee_unique"},
                   rate |-> "none", kind |-> "none", unscoped |-> FALSE,
                   log |-> {Schema!Row(1, "FAILED", 1), Schema!Row(2, "PENDING", 2)}, applied |-> {"bootstrap"}]
      BY <1>1, <2>2, WrittenIs DEF Schema!Databases, Schema!Blank
    <3>2. /\ db.present = TRUE
          /\ db.cols = Schema!LegacyColumns
          /\ db.idx = {"scope_legacy", "employee_unique"}
          /\ db.rate = "none" /\ db.kind = "none" /\ db.unscoped = FALSE
          /\ db.applied = {"bootstrap"} /\ writes = 0
      BY ONLY <1>2, <3>1
    <3>7. RowsDiffer /\ db.log \subseteq Logged
      BY <1>2, <3>1, TwoRows
    <3>3. db \in DbType
      BY ONLY <3>1, <3>2, <3>7 DEF DbType, Indexes, Migrations, Schema!Full, Schema!ModelIndexes
    <3>4. "log_unique" \notin db.idx /\ "scope" \notin db.idx
      BY ONLY <3>2
    <3>13. ~ (writes > 0)
      BY <1>2
    <3>11. db.present
      BY ONLY <3>2, Zenon
    <3>8. "value" \in db.cols \/ ("pay_rate" \in db.cols /\ db.rate = "kept")
      BY ONLY <3>2 DEF Schema!LegacyColumns, Schema!RateColumns, Schema!ScopeColumns, Schema!Full
    <3>9. "type" \in db.cols \/ ("pay_type" \in db.cols /\ db.kind = "kept")
      BY ONLY <3>2 DEF Schema!LegacyColumns, Schema!RateColumns, Schema!ScopeColumns, Schema!Full
    <3>10. "bootstrap" \in db.applied \/ Schema!Full \subseteq db.cols
      BY ONLY <3>2
    <3>5. DbInv
      BY ONLY <3>4, <3>8, <3>9, <3>10, <3>11, <3>13 DEF DbInv
    <3>6. RecordedDone
      BY <3>2
         DEF RecordedDone, PayRatesDone, Schema!LegacyColumns, Schema!RateColumns,
             Schema!ScopeColumns
    <3>. QED
      BY <3>3, <3>7, <3>5, <3>6
  <2>3. CASE o = "partial"
    <3>1. /\ db = [present |-> TRUE, cols |-> Schema!RateColumns \cup Schema!ScopeColumns,
                   idx |-> {"scope_other", "history_by_model"},
                   rate |-> "kept", kind |-> "kept", unscoped |-> TRUE,
                   log |-> {Schema!Row(1, "SUCCESS", 1), Schema!Row(2, "FAILED", 2)},
                   applied |-> {"bootstrap", "payRates"}]
      BY <1>1, <2>3, WrittenIs DEF Schema!Databases, Schema!Blank
    <3>2. /\ db.present = TRUE
          /\ db.cols = Schema!RateColumns \cup Schema!ScopeColumns
          /\ db.idx = {"scope_other", "history_by_model"}
          /\ db.rate = "kept" /\ db.kind = "kept" /\ db.unscoped = TRUE
          /\ db.applied = {"bootstrap", "payRates"} /\ writes = 0
      BY ONLY <1>2, <3>1
    <3>7. RowsDiffer /\ db.log \subseteq Logged
      BY <1>2, <3>1, TwoRows
    <3>3. db \in DbType
      BY ONLY <3>1, <3>2, <3>7 DEF DbType, Indexes, Migrations, Schema!Full, Schema!ModelIndexes
    <3>4. "log_unique" \notin db.idx /\ "scope" \notin db.idx
      BY ONLY <3>2
    <3>13. ~ (writes > 0)
      BY <1>2
    <3>11. db.present
      BY ONLY <3>2, Zenon
    <3>8. "value" \in db.cols \/ ("pay_rate" \in db.cols /\ db.rate = "kept")
      BY ONLY <3>2 DEF Schema!LegacyColumns, Schema!RateColumns, Schema!ScopeColumns, Schema!Full
    <3>9. "type" \in db.cols \/ ("pay_type" \in db.cols /\ db.kind = "kept")
      BY ONLY <3>2 DEF Schema!LegacyColumns, Schema!RateColumns, Schema!ScopeColumns, Schema!Full
    <3>10. "bootstrap" \in db.applied \/ Schema!Full \subseteq db.cols
      BY ONLY <3>2
    <3>5. DbInv
      BY ONLY <3>4, <3>8, <3>9, <3>10, <3>11, <3>13 DEF DbInv
    <3>6. RecordedDone
      BY <3>2
         DEF RecordedDone, PayRatesDone, Schema!LegacyColumns, Schema!RateColumns,
             Schema!ScopeColumns
    <3>. QED
      BY <3>3, <3>7, <3>5, <3>6
  <2>4. CASE o = "scripted"
    <3>1. /\ db = [present |-> TRUE, cols |-> Schema!Full \cup {"value"},
                   idx |-> {"scope_legacy", "history_by_model", "log_trace_by_model",
                            "employee_unique"},
                   rate |-> "zero", kind |-> "kept", unscoped |-> FALSE,
                   log |-> {Schema!Row(1, "FAILED", 1), Schema!Row(2, "FAILED", 2)}, applied |-> {}]
      BY <1>1, <2>4, WrittenIs DEF Schema!Databases, Schema!Blank
    <3>2. /\ db.present = TRUE
          /\ db.cols = Schema!Full \cup {"value"}
          /\ db.idx = {"scope_legacy", "history_by_model", "log_trace_by_model",
                          "employee_unique"}
          /\ db.rate = "zero" /\ db.kind = "kept" /\ db.unscoped = FALSE
          /\ db.applied = {} /\ writes = 0
      BY ONLY <1>2, <3>1
    <3>7. RowsDiffer /\ db.log \subseteq Logged
      BY <1>2, <3>1, TwoRows
    <3>12. /\ Schema!Full \cup {"value"} \subseteq Schema!Full \cup Schema!LegacyColumns
           /\ {"scope_legacy", "history_by_model", "log_trace_by_model", "employee_unique"}
                \subseteq Indexes
      BY DEF Indexes, Schema!LegacyColumns, Schema!ModelIndexes
    <3>3. db \in DbType
      BY ONLY <3>1, <3>7, <3>12 DEF DbType, Migrations
    <3>4. "log_unique" \notin db.idx /\ "scope" \notin db.idx
      BY ONLY <3>2
    <3>13. ~ (writes > 0)
      BY <1>2
    <3>11. db.present
      BY ONLY <3>2, Zenon
    <3>8. "value" \in db.cols \/ ("pay_rate" \in db.cols /\ db.rate = "kept")
      BY ONLY <3>2 DEF Schema!LegacyColumns, Schema!RateColumns, Schema!ScopeColumns, Schema!Full
    <3>9. "type" \in db.cols \/ ("pay_type" \in db.cols /\ db.kind = "kept")
      BY ONLY <3>2 DEF Schema!LegacyColumns, Schema!RateColumns, Schema!ScopeColumns, Schema!Full
    <3>10. "bootstrap" \in db.applied \/ Schema!Full \subseteq db.cols
      BY ONLY <3>2
    <3>5. DbInv
      BY ONLY <3>4, <3>8, <3>9, <3>10, <3>11, <3>13 DEF DbInv
    <3>6. RecordedDone
      BY <3>2
         DEF RecordedDone, PayRatesDone, Schema!LegacyColumns, Schema!RateColumns,
             Schema!ScopeColumns
    <3>. QED
      BY <3>3, <3>7, <3>5, <3>6
  <2>. QED
    BY <1>1, <2>1, <2>2, <2>3, <2>4
<1>4. SchemaTypes
  <2>1. Schema!Away \in [up : BOOLEAN, alone : BOOLEAN, next : 0..27, last : {0, 10, 26},
                  todo : SUBSET AllStatements]
    BY DEF Schema!Away
  <2>2. proc \in [Procs -> [up : BOOLEAN, alone : BOOLEAN, next : 0..27, last : {0, 10, 26},
                            todo : SUBSET AllStatements]]
    BY ONLY <1>2, <2>1
  <2>. QED
    BY <1>2, <1>3, <2>2 DEF SchemaTypes, DbType
<1>5. \A p \in Procs : InPart(p) /\ TodoInv(proc[p].todo) /\ ~ proc[p].up
  <2>1. \A p \in Procs : proc[p].up = FALSE /\ proc[p].todo = {}
    <3>1. Schema!Away.up = FALSE /\ Schema!Away.todo = {}
      BY DEF Schema!Away
    <3>. QED
      BY ONLY <1>2, <3>1
  <2>. QED
    BY <2>1 DEF InPart, TodoInv
<1>. QED
  BY <1>3, <1>4, <1>5 DEF SchemaInv

\* What no step of anybody takes away.
Gains ==
  /\ db.present => db'.present
  /\ \A c \in Schema!Full : c \in db.cols => c \in db'.cols
  /\ \A c \in Schema!LegacyColumns : c \notin db.cols => c \notin db'.cols
  /\ "pay_rate" \in db.cols /\ db.rate = "kept" => db'.rate = "kept"
  /\ "pay_type" \in db.cols /\ db.kind = "kept" => db'.kind = "kept"
  /\ ~ db.unscoped => ~ db'.unscoped
  /\ \A i \in Stale : i \notin db.idx => i \notin db'.idx
  /\ \A i \in {"log_trace", "log_unique"} : i \in db.idx => i \in db'.idx
  /\ db.applied \subseteq db'.applied

LEMMA Persist ==
  ASSUME NEW q \in Procs, TodoInv(proc[q].todo), proc[q].up => Passed(proc[q].next, proc[q].todo), Gains,
         proc'[q].todo = proc[q].todo, proc'[q].next = proc[q].next, proc'[q].up = proc[q].up,
         ~ rewritten' =>
           \A s \in proc[q].todo : s.do = "delete_rows" => BestStays(s.on)',
         proc[q].up /\ (severed \/ Scoped) => (severed \/ Scoped)'
  PROVE  TodoInv(proc[q].todo)' /\ (proc'[q].up => Passed(proc[q].next, proc[q].todo)')
<1>1. TodoInv(proc[q].todo)'
  <2>1. "pay_rate" \in Schema!Full /\ "pay_type" \in Schema!Full
    BY DEF Schema!Full, Schema!RateColumns
  <2>. QED
    BY <2>1 DEF TodoInv, Gains
<1>2. ASSUME proc[q].up PROVE Passed(proc[q].next, proc[q].todo)'
  <2>. DEFINE n == proc[q].next
              todo == proc[q].todo
  <2>1. /\ \A c \in Schema!RateColumns \cup Schema!ScopeColumns \cup {"correlation_id"} : c \in Schema!Full
    BY DEF Schema!Full
  <2>2. Passed(proc[q].next, proc[q].todo)
    BY <1>2
  <2>3. /\ n >= 4 => db'.present \/ Schema!Update("tables") \in todo
        /\ n = 14 => /\ \A c \in Schema!RateColumns : c \in db'.cols \/ Schema!Add(c) \in todo
                     /\ \A c \in Schema!LegacyColumns : c \notin db'.cols \/ Schema!DropColumn(c) \in todo
    BY <2>1, <2>2 DEF Passed, Gains
  <2>4. /\ n = 17 => /\ \A c \in Schema!ScopeColumns : c \in db'.cols \/ Schema!Add(c) \in todo
                     /\ ~ db'.unscoped \/ Schema!Update("scope") \in todo
        /\ n = 18 => /\ ScopeColumnsDone'
                     /\ \A i \in Stale : i \notin db'.idx \/ Schema!Drop(i) \in todo
    BY <2>1, <2>2 DEF Passed, Gains, ScopeColumnsDone
  <2>5. n = 18 => (severed \/ Scoped)'
    BY <1>2, <2>2 DEF Passed
  <2>6. /\ n = 21 => "correlation_id" \in db'.cols \/ Schema!Add("correlation_id") \in todo
        /\ n = 22 => /\ "correlation_id" \in db'.cols
                     /\ "log_trace" \in db'.idx \/ Schema!Create("log_trace") \in todo
        /\ n >= 23 => "trace" \in db'.applied
        /\ n = 26 => "log_unique" \in db'.idx \/ Schema!Create("log_unique") \in todo
    BY <2>1, <2>2 DEF Passed, Gains
  <2>. QED
    BY <2>3, <2>4, <2>5, <2>6 DEF Passed
<1>. QED
  BY <1>1, <1>2

LEMMA RecordedPersists ==
  ASSUME RecordedDone, Gains, db'.applied = db.applied,
         "scope" \in db.applied /\ (severed \/ Scoped) => (severed \/ Scoped)'
  PROVE  RecordedDone'
<1>1. /\ \A c \in Schema!RateColumns \cup Schema!ScopeColumns \cup {"correlation_id"} : c \in Schema!Full
  BY DEF Schema!Full
<1>2. PayRatesDone => PayRatesDone'
  BY <1>1 DEF PayRatesDone, Gains
<1>3. ScopeColumnsDone => ScopeColumnsDone'
  BY <1>1 DEF ScopeColumnsDone, Gains
<1>4. "scope" \in db.applied /\ ScopeDone => ScopeDone'
  BY <1>3 DEF ScopeDone, Gains
<1>5. TraceDone => TraceDone'
  BY <1>1 DEF TraceDone, Gains
<1>. QED
  BY <1>2, <1>4, <1>5 DEF RecordedDone, Gains

LEMMA Assemble ==
  ASSUME SchemaInv, NEW p \in Procs, Gains,
         SchemaTypes', RowsDiffer', DbInv', RecordedDone',
         \A q \in Procs \ {p} :
           /\ proc'[q].todo = proc[q].todo /\ proc'[q].next = proc[q].next
           /\ proc'[q].up = proc[q].up /\ proc'[q].last = proc[q].last
           /\ ~ (proc'[q].up /\ proc'[q].alone /\ proc'[q].last = 26)
           /\ ~ rewritten' => \A s \in proc[q].todo : s.do = "delete_rows" => BestStays(s.on)'
           /\ proc[q].up /\ (severed \/ Scoped) => (severed \/ Scoped)',
         InPart(p)', TodoInv(proc[p].todo)', proc'[p].up => Passed(proc[p].next, proc[p].todo)',
         proc'[p].up /\ proc'[p].alone /\ proc'[p].last = 26 => LoneInv(p)'
  PROVE  SchemaInv'
<1>1. ASSUME NEW q \in Procs \ {p}
      PROVE  /\ InPart(q)' /\ TodoInv(proc[q].todo)' /\ (proc'[q].up => Passed(proc[q].next, proc[q].todo)')
             /\ ~ (proc'[q].up /\ proc'[q].alone /\ proc'[q].last = 26)
  <2>1. InPart(q) /\ TodoInv(proc[q].todo) /\ (proc[q].up => Passed(proc[q].next, proc[q].todo))
    BY DEF SchemaInv
  <2>2. InPart(q)'
    BY <2>1 DEF InPart
  <2>. QED
    BY <2>1, <2>2, Persist
<1>. QED
  BY <1>1 DEF SchemaInv

\* A start that nobody is beside is the only one that is up.
LEMMA OthersBeside ==
  ASSUME SchemaInv, NEW p \in Procs, proc[p].up
  PROVE  \A q \in Procs \ {p} : ~ (proc[q].up /\ proc[q].alone /\ proc[q].last = 26)
BY DEF SchemaInv, LoneInv

\* A step of p that leaves the database as it is.
LEMMA Moved ==
  ASSUME SchemaInv, NEW p \in Procs, proc[p].up, db' = db, writes' = writes, rewritten' = rewritten,
         NEW r \in [up : BOOLEAN, alone : BOOLEAN, next : 0..27, last : {0, 10, 26},
                    todo : SUBSET AllStatements],
         proc' = [proc EXCEPT ![p] = r],
         severed' \in BOOLEAN, severed => severed',
         Schema!Create("scope") \in proc[p].todo /\
             ("scope" \in db.applied \/ \E q \in Procs \ {p} : proc[q].up)
           => severed' \/ (r.up /\ Schema!Create("scope") \in r.todo),
         InPart(p)', TodoInv(proc[p].todo)', r.up => Passed(proc[p].next, proc[p].todo)',
         r.up /\ r.alone /\ r.last = 26 => LoneInv(p)'
  PROVE  SchemaInv'
<1>1. proc'[p] = r /\ \A q \in Procs \ {p} : proc'[q] = proc[q]
  BY DEF SchemaInv, SchemaTypes, DbType
<1>2. SchemaTypes'
  BY DEF SchemaInv, SchemaTypes, DbType
<1>3. Gains
  BY DEF Gains
<1>4. RowsDiffer' /\ DbInv'
  BY DEF SchemaInv, RowsDiffer, DbInv, Schema!OneRow
<1>5. ASSUME severed \/ Scoped, "scope" \in db.applied \/ \E q \in Procs \ {p} : proc[q].up
      PROVE  (severed \/ Scoped)'
  <2>1. CASE "scope" \in db.idx
    BY <2>1 DEF Scoped
  <2>2. ASSUME NEW q \in Procs, proc[q].up, Schema!Create("scope") \in proc[q].todo PROVE (severed \/ Scoped)'
    <3>1. CASE q = p
      <4>1. severed' \/ (proc'[p].up /\ Schema!Create("scope") \in proc'[p].todo)
        BY <1>1, <1>5, <2>2, <3>1
      <4>. QED
        BY <4>1 DEF Scoped
    <3>2. CASE q # p
      <4>1. proc'[q] = proc[q]
        BY <1>1, <3>2
      <4>. QED
        BY <2>2, <4>1 DEF Scoped
    <3>. QED
      BY <3>1, <3>2
  <2>. QED
    BY <1>5, <2>1, <2>2 DEF Scoped
<1>6. RecordedDone'
  BY <1>3, <1>5, RecordedPersists DEF SchemaInv
<1>7. \A S : BestStays(S)' = BestStays(S)
  BY DEF BestStays
<1>8. \A q \in Procs \ {p} : ~ (proc[q].up /\ proc[q].alone /\ proc[q].last = 26)
  BY OthersBeside
<1>9. ASSUME NEW q \in Procs \ {p}
      PROVE  /\ ~ rewritten' => \A s \in proc[q].todo : s.do = "delete_rows" => BestStays(s.on)'
             /\ proc[q].up /\ (severed \/ Scoped) => (severed \/ Scoped)'
  BY <1>5, <1>7 DEF SchemaInv, TodoInv
<1>. QED
  BY <1>1, <1>2, <1>3, <1>4, <1>6, <1>8, <1>9, Assemble

LEMMA FinishKeeps ==
  ASSUME SchemaInv, NEW p \in Procs, Schema!Finish(p)
  PROVE  SchemaInv'
<1>1. Schema!Away \in [up : BOOLEAN, alone : BOOLEAN, next : 0..27, last : {0, 10, 26},
                todo : SUBSET AllStatements]
  BY DEF Schema!Away
<1>2. ~ Schema!Away.up /\ Schema!Away.todo = {}
  BY DEF Schema!Away
<1>3. proc'[p] = Schema!Away
  BY DEF SchemaInv, SchemaTypes, DbType, Schema!Finish
<1>4. InPart(p)' /\ TodoInv(proc[p].todo)'
  BY <1>2, <1>3 DEF InPart, TodoInv
<1>5. severed' = severed /\ severed \in BOOLEAN
  BY DEF SchemaInv, SchemaTypes, DbType, Schema!Finish
<1>6. /\ db' = db /\ writes' = writes /\ rewritten' = rewritten /\ proc[p].up /\ proc[p].todo = {}
      /\ proc' = [proc EXCEPT ![p] = Schema!Away]
  BY DEF Schema!Finish
<1>. QED
  BY <1>1, <1>2, <1>4, <1>5, <1>6, Moved

LEMMA LeavesKeeps ==
  ASSUME SchemaInv, NEW p \in Procs, proc[p].up, Schema!Leaves(p),
         UNCHANGED <<db, writes, rewritten>>
  PROVE  SchemaInv'
<1>1. Schema!Away \in [up : BOOLEAN, alone : BOOLEAN, next : 0..27, last : {0, 10, 26},
                todo : SUBSET AllStatements]
  BY DEF Schema!Away
<1>2. ~ Schema!Away.up /\ Schema!Away.todo = {}
  BY DEF Schema!Away
<1>3. proc'[p] = Schema!Away
  BY DEF SchemaInv, SchemaTypes, DbType, Schema!Leaves
<1>4. InPart(p)' /\ TodoInv(proc[p].todo)'
  BY <1>2, <1>3 DEF InPart, TodoInv
<1>5. severed' \in BOOLEAN /\ (severed => severed')
  BY DEF SchemaInv, SchemaTypes, DbType, Schema!Leaves
<1>. QED
  BY <1>1, <1>2, <1>4, <1>5, Moved DEF Schema!Leaves

LEMMA AskKeeps ==
  ASSUME SchemaInv, NEW p \in Procs, Schema!Ask(p)
  PROVE  SchemaInv'
<1>1. PICK i :
        /\ Schema!Ready(p) /\ i = Schema!Bootstrap[proc[p].next] /\ i.op = "ask"
        /\ proc' = [proc EXCEPT ![p].next = IF i.at \in db.applied THEN Schema!PastRecord(i.at) ELSE @ + 1]
  BY DEF Schema!Ask
<1>2. SchemaTypes /\ InPart(p) /\ TodoInv(proc[p].todo) /\ Passed(proc[p].next, proc[p].todo) /\ DbInv
  BY <1>1 DEF SchemaInv, Schema!Ready
<1>3. /\ proc[p].up /\ proc[p].todo = {} /\ proc[p].last = 26 /\ severed \in BOOLEAN
      /\ proc[p] \in [up : BOOLEAN, alone : BOOLEAN, next : 0..27, last : {0, 10, 26},
                      todo : SUBSET AllStatements]
  BY <1>1, <1>2, AskedAt DEF Schema!Ready, InPart, SchemaTypes, DbType
<1>. DEFINE r == [proc[p] EXCEPT !.next = IF i.at \in db.applied THEN Schema!PastRecord(i.at) ELSE @ + 1]
<1>4. /\ proc' = [proc EXCEPT ![p] = r] /\ proc'[p] = r
      /\ r.up /\ r.todo = {} /\ r.last = 26 /\ r.alone = proc[p].alone
      /\ r.next = IF i.at \in db.applied THEN Schema!PastRecord(i.at) ELSE proc[p].next + 1
  BY <1>1, <1>2, <1>3 DEF SchemaTypes, DbType
<1>5. \/ r.next = 2 /\ "bootstrap" \notin db.applied
      \/ r.next = 12 /\ "bootstrap" \in db.applied
      \/ proc[p].next >= 4 /\ r.next \in {13, 15, 16, 19, 20}
      \/ r.next = 23 /\ "trace" \in db.applied
      \/ proc[p].next >= 4 /\ r.next = 24 /\ "trace" \in db.applied
      \/ proc[p].next >= 4 /\ r.next = 27 /\ "trace" \in db.applied
  <2>1. 23 >= 23 /\ 12 >= 4 /\ 15 >= 4 /\ 19 >= 4 /\ 23 >= 4
    OBVIOUS
  <2>2. proc[p].next >= 23 => "trace" \in db.applied
    BY <1>2 DEF Passed
  <2>. QED
    BY <1>1, <1>2, <1>4, <2>1, <2>2, AskedAt, PastRecordIs
<1>. HIDE DEF r
<1>6. db' = db /\ severed' = severed /\ rewritten' = rewritten /\ writes' = writes
  BY DEF Schema!Ask
<1>7. TodoInv(proc[p].todo)'
  BY <1>4 DEF TodoInv
<1>8. r.next \in {2, 12, 13, 15, 16, 19, 20, 23, 24, 27} /\ InPart(p)'
  BY <1>4, <1>5 DEF InPart
<1>9. r \in [up : BOOLEAN, alone : BOOLEAN, next : 0..27, last : {0, 10, 26}, todo : SUBSET AllStatements]
  BY <1>3, <1>8 DEF r
<1>10. Passed(proc[p].next, proc[p].todo)'
  <2>1. r.next > 2 => db.present
    <3>1. CASE proc[p].next >= 4
      BY <1>2, <1>3, <3>1 DEF Passed
    <3>2. CASE db.applied # {}
      BY <1>2, <3>2 DEF DbInv
    <3>. QED
      BY <1>5, <3>1, <3>2
  <2>2. r.next >= 23 => "trace" \in db.applied
    BY <1>5
  <2>3. /\ r.next \notin {14, 17, 18, 21, 22, 26} /\ (r.next >= 4 => r.next > 2)
    BY ONLY <1>8
  <2>4. proc'[p].next = r.next
    BY <1>4
  <2>. QED
    BY <1>6, <2>1, <2>2, <2>3, <2>4 DEF Passed
<1>11. r.alone => LoneInv(p)'
  <2>1. r.alone => \A q \in Procs \ {p} : ~ proc[q].up
    BY <1>3, <1>4 DEF SchemaInv, LoneInv
  <2>2. \A q \in Procs \ {p} : proc'[q] = proc[q]
    BY <1>4, <1>2 DEF SchemaTypes, DbType
  <2>3. r.next \in 2..11 => "bootstrap" \notin db.applied
    BY <1>5, <1>8
  <2>4. proc'[p].next = r.next /\ proc'[p].todo = {} /\ r.next \notin {10, 25}
    BY <1>4, <1>8
  <2>. QED
    BY <1>6, <2>1, <2>2, <2>3, <2>4 DEF LoneInv, Lone, TablesFirst
<1>. QED
  BY <1>3, <1>4, <1>6, <1>7, <1>8, <1>9, <1>10, <1>11, Moved

LEMMA StartKeeps ==
  ASSUME SchemaInv, NEW p \in Procs, NEW span \in {Schema!Whole, Schema!SyncOnly}, Schema!Start(p, span)
  PROVE  SchemaInv'
<1>1. /\ ~ proc[p].up
      /\ db' = db /\ writes' = writes /\ severed' = severed /\ rewritten' = rewritten
      /\ proc' = [q \in Procs |->
           IF q # p THEN [proc[q] EXCEPT !.alone = FALSE]
           ELSE [up |-> TRUE, alone |-> \A r \in Procs : ~ proc[r].up,
                 next |-> span[1], last |-> span[2], todo |-> {}]]
  BY DEF Schema!Start
<1>2. \/ span[1] = 1 /\ span[2] = 26
      \/ span[1] = 2 /\ span[2] = 10
  BY BootstrapText
<1>3. proc'[p] = [up |-> TRUE, alone |-> \A r \in Procs : ~ proc[r].up,
                  next |-> span[1], last |-> span[2], todo |-> {}]
  BY <1>1
<1>4. /\ proc'[p].next = span[1] /\ proc'[p].last = span[2] /\ proc'[p].todo = {}
      /\ proc'[p].up /\ (proc'[p].alone => \A r \in Procs : ~ proc[r].up)
  BY ONLY <1>3
<1>5. ASSUME NEW q \in Procs \ {p}
      PROVE  /\ proc'[q].todo = proc[q].todo /\ proc'[q].next = proc[q].next
             /\ proc'[q].up = proc[q].up /\ proc'[q].last = proc[q].last
             /\ ~ proc'[q].alone
             /\ proc'[q] \in [up : BOOLEAN, alone : BOOLEAN, next : 0..27, last : {0, 10, 26},
                              todo : SUBSET AllStatements]
  <2>1. proc[q] \in [up : BOOLEAN, alone : BOOLEAN, next : 0..27, last : {0, 10, 26},
                     todo : SUBSET AllStatements]
    BY DEF SchemaInv, SchemaTypes, DbType
  <2>2. proc'[q] = [proc[q] EXCEPT !.alone = FALSE]
    BY <1>1
  <2>. QED
    BY ONLY <2>1, <2>2
<1>6. proc'[p] \in [up : BOOLEAN, alone : BOOLEAN, next : 0..27, last : {0, 10, 26},
                    todo : SUBSET AllStatements]
  <2>1. (\A r \in Procs : ~ proc[r].up) \in BOOLEAN
    OBVIOUS
  <2>. QED
    BY ONLY <1>2, <1>3, <2>1
<1>7. SchemaTypes'
  <2>1. \A q \in Procs : proc'[q] \in [up : BOOLEAN, alone : BOOLEAN, next : 0..27, last : {0, 10, 26},
                                       todo : SUBSET AllStatements]
    BY <1>5, <1>6
  <2>2. proc' \in [Procs -> [up : BOOLEAN, alone : BOOLEAN, next : 0..27, last : {0, 10, 26},
                             todo : SUBSET AllStatements]]
    BY ONLY <1>1, <2>1
  <2>. QED
    BY <1>1, <2>2 DEF SchemaInv, SchemaTypes, DbType
<1>8. Gains /\ RowsDiffer' /\ DbInv'
  BY <1>1 DEF SchemaInv, Gains, RowsDiffer, DbInv, Schema!OneRow
<1>9. severed \/ Scoped => (severed \/ Scoped)'
  <2>1. \A q \in Procs : proc[q].up => proc'[q].up /\ proc'[q].todo = proc[q].todo
    BY <1>1, <1>5
  <2>. QED
    BY <1>1, <2>1 DEF Scoped
<1>10. RecordedDone'
  BY <1>1, <1>8, <1>9, RecordedPersists DEF SchemaInv
<1>11. \A S : BestStays(S)' = BestStays(S)
  BY <1>1 DEF BestStays
<1>12. ~ rewritten' => \A q \in Procs : \A s \in proc[q].todo : s.do = "delete_rows" => BestStays(s.on)'
  BY <1>1, <1>11 DEF SchemaInv, TodoInv
<1>13. InPart(p)' /\ TodoInv(proc[p].todo)' /\ Passed(proc[p].next, proc[p].todo)'
  <2>1. proc'[p].next \in {1, 2} /\ (proc'[p].last = 10 => proc'[p].next = 2)
    BY <1>2, <1>4
  <2>2. InPart(p)' /\ TodoInv(proc[p].todo)'
    BY <1>2, <1>4, <2>1 DEF InPart, TodoInv
  <2>. DEFINE n == proc'[p].next
  <2>3. ~ (n >= 4) /\ n # 14 /\ n # 17 /\ n # 18 /\ n # 21 /\ n # 22 /\ ~ (n >= 23) /\ n # 26
    BY <2>1
  <2>4. Passed(proc[p].next, proc[p].todo)'
    BY <2>3 DEF Passed
  <2>. QED
    BY <2>2, <2>4
<1>14. proc'[p].alone /\ proc'[p].last = 26 => LoneInv(p)'
  BY <1>2, <1>4, <1>5 DEF LoneInv, Lone, TablesFirst
<1>. QED
  BY <1>5, <1>7, <1>8, <1>9, <1>10, <1>12, <1>13, <1>14, Assemble

LEMMA RecordKeeps ==
  ASSUME SchemaInv, NEW p \in Procs, Schema!Record(p)
  PROVE  SchemaInv'
<1>1. PICK i :
        /\ Schema!Ready(p) /\ i = Schema!Bootstrap[proc[p].next] /\ i.op = "record"
        /\ db' = [db EXCEPT !.applied = @ \cup {i.at}]
  BY DEF Schema!Record
<1>2. SchemaTypes /\ InPart(p) /\ Passed(proc[p].next, proc[p].todo) /\ DbInv /\ RecordedDone
  BY <1>1 DEF SchemaInv, Schema!Ready
<1>3. /\ proc[p].up /\ proc[p].todo = {}
      /\ severed' = severed /\ rewritten' = rewritten /\ writes' = writes
      /\ proc' = [proc EXCEPT ![p].next = @ + 1]
      /\ proc[p] \in [up : BOOLEAN, alone : BOOLEAN, next : 0..27, last : {0, 10, 26},
                      todo : SUBSET AllStatements]
  BY <1>1, <1>2 DEF Schema!Ready, SchemaTypes, DbType, Schema!Record
<1>4. \/ proc[p].next = 11 /\ i.at = "bootstrap"
      \/ proc[p].next = 14 /\ i.at = "payRates"
      \/ proc[p].next = 18 /\ i.at = "scope"
      \/ proc[p].next = 22 /\ i.at = "trace"
      \/ proc[p].next = 26 /\ i.at = "idempotency"
  BY <1>1, <1>2, RecordsAt
<1>5. /\ proc[p].last = 26
      /\ \A q \in Procs \ {p} : proc'[q] = proc[q]
      /\ proc'[p].up /\ proc'[p].todo = {} /\ proc'[p].last = 26
      /\ proc'[p].alone = proc[p].alone /\ proc'[p].next = proc[p].next + 1
  <2>1. proc[p].last = 26
    BY <1>1, <1>2, <1>3, <1>4 DEF Schema!Ready, InPart
  <2>. QED
    BY <1>2, <1>3, <2>1 DEF SchemaTypes, DbType
<1>6. /\ db'.present = db.present /\ db'.cols = db.cols /\ db'.idx = db.idx
      /\ db'.rate = db.rate /\ db'.kind = db.kind /\ db'.unscoped = db.unscoped
      /\ db'.log = db.log /\ db'.applied = db.applied \cup {i.at}
      /\ db' \in DbType
  <2>1. db \in DbType
    BY <1>2 DEF SchemaTypes, DbType
  <2>2. i.at \in Migrations
    BY <1>4 DEF Migrations
  <2>. QED
    BY ONLY <1>1, <2>1, <2>2 DEF DbType
<1>7. SchemaTypes'
  <2>1. proc' \in [Procs -> [up : BOOLEAN, alone : BOOLEAN, next : 0..27, last : {0, 10, 26},
                             todo : SUBSET AllStatements]]
    <3>1. proc[p].next + 1 \in 0..27
      BY <1>4
    <3>2. proc'[p] \in [up : BOOLEAN, alone : BOOLEAN, next : 0..27, last : {0, 10, 26},
                        todo : SUBSET AllStatements]
      BY <1>2, <1>3, <3>1 DEF SchemaTypes, DbType
    <3>. QED
      BY <1>2, <1>3, <3>2 DEF SchemaTypes, DbType
  <2>. QED
    BY <1>2, <1>3, <1>6, <2>1 DEF SchemaTypes, DbType
<1>8. db.present
  <2>1. proc[p].next >= 4
    BY <1>4
  <2>. QED
    BY <1>2, <1>3, <2>1 DEF Passed
<1>9. Gains /\ RowsDiffer' /\ DbInv'
  <2>1. RowsDiffer
    BY DEF SchemaInv
  <2>2. Gains /\ RowsDiffer'
    BY <1>3, <1>6, <2>1 DEF Gains, RowsDiffer
  <2>3. Schema!OneRow(db)' = Schema!OneRow(db)
    BY <1>6 DEF Schema!OneRow
  <2>. QED
    BY <1>2, <1>3, <1>6, <1>8, <2>2, <2>3 DEF DbInv
<1>10. severed \/ Scoped => (severed \/ Scoped)'
  <2>1. \A q \in Procs : proc'[q].up = proc[q].up /\ proc'[q].todo = proc[q].todo
    BY <1>3, <1>5
  <2>. QED
    BY <1>3, <1>6, <2>1 DEF Scoped
<1>11. RecordedDone'
  <2>1. PayRatesDone' = PayRatesDone /\ ScopeColumnsDone' = ScopeColumnsDone /\ TraceDone' = TraceDone
    BY <1>6 DEF PayRatesDone, ScopeColumnsDone, TraceDone
  <2>2. ScopeDone => ScopeDone'
    BY <1>6, <1>10, <2>1 DEF ScopeDone
  <2>3. /\ proc[p].next = 14 => PayRatesDone
        /\ proc[p].next = 18 => ScopeDone
        /\ proc[p].next = 22 => TraceDone
        /\ proc[p].next = 26 => "log_unique" \in db.idx
    <3>1. Passed(proc[p].next, {})
      BY <1>2, <1>3
    <3>. QED
      BY ONLY <3>1 DEF Passed, PayRatesDone, ScopeDone, ScopeColumnsDone, TraceDone
  <2>. QED
    BY ONLY <1>2, <1>4, <1>6, <2>1, <2>2, <2>3 DEF RecordedDone
<1>12. \A S : BestStays(S)' = BestStays(S)
  BY <1>6 DEF BestStays
<1>13. ~ rewritten' => \A q \in Procs : \A s \in proc[q].todo : s.do = "delete_rows" => BestStays(s.on)'
  BY <1>3, <1>12 DEF SchemaInv, TodoInv
<1>14. InPart(p)' /\ TodoInv(proc[p].todo)' /\ Passed(proc[p].next, proc[p].todo)'
  <2>1. proc'[p].next \in {12, 15, 19, 23, 27}
    BY <1>4, <1>5
  <2>2. InPart(p)' /\ TodoInv(proc[p].todo)'
    BY <1>5, <2>1 DEF InPart, TodoInv
  <2>3. proc'[p].next >= 23 => "trace" \in db'.applied
    <3>1. proc[p].next = 22 \/ proc[p].next = 26 \/ ~ (proc'[p].next >= 23)
      BY <1>4, <1>5
    <3>2. proc[p].next = 26 => "trace" \in db.applied
      <4>1. proc[p].next = 26 => proc[p].next >= 23
        OBVIOUS
      <4>. QED
        BY <1>2, <4>1 DEF Passed
    <3>. QED
      BY <1>4, <1>6, <3>1, <3>2
  <2>. DEFINE n == proc'[p].next
  <2>4. n # 14 /\ n # 17 /\ n # 18 /\ n # 21 /\ n # 22 /\ n # 26
    BY <2>1
  <2>5. db'.present
    BY <1>6, <1>8
  <2>6. Passed(proc[p].next, proc[p].todo)'
    BY <2>3, <2>4, <2>5 DEF Passed
  <2>. QED
    BY <2>2, <2>6
<1>15. proc'[p].alone => LoneInv(p)'
  <2>1. proc[p].alone => \A q \in Procs \ {p} : ~ proc[q].up
    BY <1>3, <1>5 DEF SchemaInv, LoneInv
  <2>2. proc'[p].next \notin 2..11 /\ proc'[p].next \notin {10, 25}
    BY <1>4, <1>5
  <2>. QED
    BY <1>5, <2>1, <2>2 DEF LoneInv, Lone, TablesFirst
<1>16. \A q \in Procs \ {p} : ~ (proc[q].up /\ proc[q].alone /\ proc[q].last = 26)
  BY <1>3, OthersBeside
<1>. QED
  BY <1>5, <1>7, <1>9, <1>10, <1>11, <1>13, <1>14, <1>15, <1>16, Assemble

LEMMA DieKeeps ==
  ASSUME SchemaInv, NEW p \in Procs, Schema!Die(p)
  PROVE  SchemaInv'
BY LeavesKeeps DEF Schema!Die

LEMMA WriteKeeps ==
  ASSUME SchemaInv, NEW r \in db.log, Schema!WriteLog(r)
  PROVE  SchemaInv'
<1>. DEFINE w == Schema!Row(r.id, "SUCCESS", 3 + writes)
<1>1. /\ SchemaTypes /\ RowsDiffer /\ DbInv /\ RecordedDone
      /\ db' = [db EXCEPT !.log = (@ \ {r}) \cup {w}]
      /\ writes' = writes + 1 /\ proc' = proc /\ severed' = severed
      /\ rewritten' = (rewritten \/ \E p \in Procs : \E s \in proc[p].todo : s.do = "delete_rows")
  BY DEF SchemaInv, Schema!WriteLog
<1>2. /\ db \in DbType
      /\ writes \in Nat /\ severed \in BOOLEAN /\ rewritten \in BOOLEAN
  BY <1>1 DEF SchemaTypes, DbType
<1>3. w.id = r.id /\ w.at = 3 + writes /\ w.status = "SUCCESS" /\ w \in Logged
  <2>1. r \in Logged
    BY <1>2 DEF DbType
  <2>2. r.id \in {1, 2} /\ 3 + writes \in Nat
    BY <1>2, <2>1 DEF Logged
  <2>. QED
    BY <2>2 DEF Schema!Row, Logged
<1>. HIDE DEF w
<1>4. /\ db'.present = db.present /\ db'.cols = db.cols /\ db'.idx = db.idx
      /\ db'.rate = db.rate /\ db'.kind = db.kind /\ db'.unscoped = db.unscoped
      /\ db'.log = (db.log \ {r}) \cup {w} /\ db'.applied = db.applied
      /\ db' \in DbType
  BY ONLY <1>1, <1>2, <1>3 DEF DbType
<1>5. SchemaTypes'
  <2>1. rewritten' \in BOOLEAN /\ writes' \in Nat
    <3>. DEFINE pending == \E p \in Procs : \E s \in proc[p].todo : s.do = "delete_rows"
    <3>1. rewritten' = (rewritten \/ pending)
      BY ONLY <1>1
    <3>2. (rewritten \/ pending) \in BOOLEAN
      OBVIOUS
    <3>3. rewritten' \in BOOLEAN
      BY ONLY <3>1, <3>2
    <3>4. writes' = writes + 1 /\ writes \in Nat
      BY <1>2 DEF Schema!WriteLog
    <3>5. writes' \in Nat
      BY ONLY <3>4
    <3>. QED
      BY ONLY <3>3, <3>5
  <2>. QED
    BY <1>1, <1>2, <1>4, <2>1 DEF SchemaTypes, DbType
<1>6. RowsDiffer'
  <2>1. ASSUME NEW q \in db.log
        PROVE  q.at \in Nat /\ q.at < 3 + writes /\ q.at # 3 + writes /\ q.at < 3 + (writes + 1)
    <3>1. q \in Logged
      BY <1>2 DEF DbType
    <3>2. q.at \in Nat /\ q.at < 3 + writes
      BY <1>1, <3>1 DEF RowsDiffer, Logged
    <3>. QED
      BY <1>2, <3>2
  <2>2. \A q, s \in db.log : q.id = s.id \/ q.at = s.at => q = s
    BY <1>1 DEF RowsDiffer
  <2>3. \A q, s \in db'.log : q.id = s.id \/ q.at = s.at => q = s
    BY ONLY <1>3, <1>4, <2>1, <2>2, r \in db.log
  <2>4. \A q \in db'.log : q.at < 3 + writes'
    <3>1. 3 + writes < 3 + (writes + 1)
      BY <1>2
    <3>. QED
      BY ONLY <1>1, <1>3, <1>4, <2>1, <3>1
  <2>. QED
    BY <2>3, <2>4 DEF RowsDiffer
<1>7. Schema!OneRow(db) => Schema!OneRow(db)'
  BY <1>4 DEF Schema!OneRow
<1>8. DbInv'
  <2>1. w \in db'.log /\ w.status = "SUCCESS"
    BY <1>3, <1>4
  <2>. QED
    BY <1>1, <1>4, <1>7, <2>1 DEF DbInv
<1>9. Gains
  BY <1>4 DEF Gains
<1>10. (severed \/ Scoped) => (severed \/ Scoped)'
  BY <1>1, <1>4 DEF Scoped
<1>11. RecordedDone'
  BY <1>1, <1>4, <1>9, <1>10, RecordedPersists
<1>12. ASSUME NEW q \in Procs
       PROVE  /\ InPart(q)' /\ TodoInv(proc[q].todo)'
              /\ proc'[q].up => Passed(proc[q].next, proc[q].todo)'
              /\ proc'[q].up /\ proc'[q].alone /\ proc'[q].last = 26 => LoneInv(q)'
  <2>1. /\ InPart(q) /\ TodoInv(proc[q].todo)
        /\ proc[q].up => Passed(proc[q].next, proc[q].todo)
        /\ proc[q].up /\ proc[q].alone /\ proc[q].last = 26 => LoneInv(q)
    BY DEF SchemaInv
  <2>2. InPart(q)'
    BY <1>1, <2>1 DEF InPart
  <2>3. ~ rewritten' => \A s \in proc[q].todo : s.do = "delete_rows" => BestStays(s.on)'
    BY <1>1
  <2>4. TodoInv(proc[q].todo)' /\ (proc'[q].up => Passed(proc[q].next, proc[q].todo)')
    BY <1>1, <1>9, <1>10, <2>1, <2>3, Persist
  <2>5. LoneInv(q) => LoneInv(q)'
    <3>1. ASSUME NEW s, NEW todo, Doable(s, todo) PROVE Doable(s, todo)'
      <4>1. db'.cols = db.cols /\ Schema!Names(db'.idx) = Schema!Names(db.idx)
        BY <1>4
      <4>2. Doable(s, todo)
        BY <3>1
      <4>. QED
        BY ONLY <1>7, <4>1, <4>2 DEF Doable
    <3>2. ASSUME NEW todo,
                 \E k \in {1, 2} : \A x \in db.log :
                    x.id = k \/ \E s \in todo : s.do = "delete_rows" /\ x.id \in s.on
          PROVE  \E k \in {1, 2} : \A x \in db'.log :
                    x.id = k \/ \E s \in todo : s.do = "delete_rows" /\ x.id \in s.on
      BY <1>3, <1>4, <3>2
    <3>3. \A n, todo : Lone(n, todo) => Lone(n, todo)'
      BY <1>4, <3>1, <3>2 DEF Lone, TablesFirst
    <3>. QED
      BY <1>1, <3>3 DEF LoneInv
  <2>. QED
    BY <1>1, <2>1, <2>2, <2>4, <2>5
<1>. QED
  BY <1>5, <1>6, <1>8, <1>11, <1>12 DEF SchemaInv

-----------------------------------------------------------------------------
\* What each step makes of what it reads.
Sound(todo) == todo \in SUBSET AllStatements /\ TodoInv(todo) /\ TablesFirst(todo)

LEMMA Kinds ==
  /\ \A x : Schema!Add(x).do = "add" /\ Schema!Add(x).on = x
  /\ \A x : Schema!DropColumn(x).do = "drop_column" /\ Schema!DropColumn(x).on = x
  /\ \A x : Schema!Create(x).do = "create" /\ Schema!Create(x).on = x
  /\ \A x : Schema!Drop(x).do = "drop" /\ Schema!Drop(x).on = x
  /\ \A x : Schema!Update(x).do = "update" /\ Schema!Update(x).on = x
BY DEF Schema!Add, Schema!DropColumn, Schema!Create, Schema!Drop, Schema!Update

LEMMA KindsTyped ==
  /\ \A c \in Schema!Full : Schema!Add(c) \in AllStatements
  /\ \A c \in Schema!LegacyColumns : Schema!DropColumn(c) \in AllStatements
  /\ \A i \in Schema!ModelIndexes \cup {"history", "log_trace", "log_unique"} : Schema!Create(i) \in AllStatements
  /\ \A i \in Stale \cup {"employee_unique", "history_by_model"} : Schema!Drop(i) \in AllStatements
  /\ \A x \in {"tables", "pay_rate", "pay_type", "scope"} : Schema!Update(x) \in AllStatements
  /\ \A S \in SUBSET {1, 2} : [do |-> "delete_rows", on |-> S] \in AllStatements
<1>1. \A c \in Schema!Full : Schema!Add(c) \in AllStatements
  BY DEF AllStatements, Schema!Add
<1>2. \A c \in Schema!LegacyColumns : Schema!DropColumn(c) \in AllStatements
  BY DEF AllStatements, Schema!DropColumn
<1>3. \A i \in Schema!ModelIndexes \cup {"history", "log_trace", "log_unique"} : Schema!Create(i) \in AllStatements
  BY DEF AllStatements, Schema!Create
<1>4. \A i \in Stale \cup {"employee_unique", "history_by_model"} : Schema!Drop(i) \in AllStatements
  BY DEF AllStatements, Schema!Drop
<1>5. \A x \in {"tables", "pay_rate", "pay_type", "scope"} : Schema!Update(x) \in AllStatements
  BY DEF AllStatements, Schema!Update
<1>6. \A S \in SUBSET {1, 2} : [do |-> "delete_rows", on |-> S] \in AllStatements
  BY DEF AllStatements
<1>. QED
  BY <1>1, <1>2, <1>3, <1>4, <1>5, <1>6

\* What can be done of each kind.
LEMMA CanDo ==
  ASSUME NEW T, NEW x
  PROVE  /\ x \notin db.cols => Doable(Schema!Add(x), T)
         /\ x \in db.cols => Doable(Schema!DropColumn(x), T)
         /\ x \in db.idx => Doable(Schema!Drop(x), T)
         /\ x \notin {"pay_rate", "pay_type"} => Doable(Schema!Update(x), T)
         /\ /\ \/ x \notin Schema!Names(db.idx)
               \/ x = "scope" /\ Schema!Drop("scope_other") \in T
            /\ Schema!ColumnsOf(x) \subseteq db.cols \/ Schema!Update("tables") \in T
            /\ x = "log_unique" => Schema!OneRow(db)
            => Doable(Schema!Create(x), T)
         /\ \A S : Doable([do |-> "delete_rows", on |-> S], T)
<1>0. \A s : s.do # "update" => s # Schema!Update("pay_rate") /\ s # Schema!Update("pay_type")
  BY Kinds
<1>1. x \notin db.cols => Doable(Schema!Add(x), T)
  BY <1>0, Kinds DEF Doable
<1>2. x \in db.cols => Doable(Schema!DropColumn(x), T)
  BY <1>0, Kinds DEF Doable
<1>3. x \in db.idx => Schema!NameOf(x) \in Schema!Names(db.idx)
  BY DEF Schema!Names
<1>4. x \in db.idx => Doable(Schema!Drop(x), T)
  BY <1>0, <1>3, Kinds DEF Doable
<1>5. x \notin {"pay_rate", "pay_type"} => Doable(Schema!Update(x), T)
  <2>1. ASSUME NEW y, Schema!Update(x) = Schema!Update(y) PROVE x = y
    <3>1. Schema!Update(x).on = x /\ Schema!Update(y).on = y
      BY Kinds
    <3>. QED
      BY <2>1, <3>1
  <2>. QED
    BY <2>1, Kinds DEF Doable
<1>6. ASSUME x \notin Schema!Names(db.idx) \/ (x = "scope" /\ Schema!Drop("scope_other") \in T),
             Schema!ColumnsOf(x) \subseteq db.cols \/ Schema!Update("tables") \in T,
             x = "log_unique" => Schema!OneRow(db)
      PROVE  Doable(Schema!Create(x), T)
  BY <1>0, <1>6, Kinds DEF Doable
<1>7. \A S : Doable([do |-> "delete_rows", on |-> S], T)
  BY <1>0 DEF Doable
<1>. QED
  BY <1>1, <1>2, <1>4, <1>5, <1>6, <1>7

LEMMA LooksPayRates ==
  ASSUME SchemaTypes, NEW T, T = Schema!PayRateStatements(db)
  PROVE  /\ Sound(T) /\ \A s \in T : Doable(s, T)
         /\ \A c \in Schema!RateColumns : c \in db.cols \/ Schema!Add(c) \in T
         /\ \A c \in Schema!LegacyColumns : c \notin db.cols \/ Schema!DropColumn(c) \in T
<1>1. ASSUME NEW s \in T
      PROVE  \/ \E c \in Schema!RateColumns : s = Schema!Add(c) /\ c \notin db.cols
             \/ s = Schema!Update("pay_rate") /\ "value" \in db.cols
             \/ s = Schema!Update("pay_type") /\ "type" \in db.cols
             \/ \E c \in Schema!LegacyColumns : s = Schema!DropColumn(c) /\ c \in db.cols
  BY <1>1 DEF Schema!PayRateStatements
<1>2. /\ \A c \in Schema!RateColumns : c \in db.cols \/ Schema!Add(c) \in T
      /\ \A c \in Schema!LegacyColumns : c \notin db.cols \/ Schema!DropColumn(c) \in T
      /\ "value" \in db.cols => Schema!Update("pay_rate") \in T
      /\ "type" \in db.cols => Schema!Update("pay_type") \in T
  BY DEF Schema!PayRateStatements
<1>3. /\ "pay_rate" \in Schema!RateColumns
      /\ "pay_type" \in Schema!RateColumns
      /\ Schema!RateColumns \subseteq Schema!Full
  BY DEF Schema!RateColumns, Schema!Full
<1>4. ASSUME NEW s \in T PROVE s \in AllStatements
  BY <1>1, <1>3, KindsTyped
<1>5. ASSUME NEW s \in T PROVE Doable(s, T)
  <2>1. CASE \E c \in Schema!RateColumns : s = Schema!Add(c) /\ c \notin db.cols
    BY <2>1, CanDo
  <2>2. CASE s = Schema!Update("pay_rate") /\ "value" \in db.cols
    BY <1>2, <1>3, <2>2 DEF Doable, Schema!Update
  <2>3. CASE s = Schema!Update("pay_type") /\ "type" \in db.cols
    BY <1>2, <1>3, <2>3 DEF Doable, Schema!Update
  <2>4. CASE \E c \in Schema!LegacyColumns : s = Schema!DropColumn(c) /\ c \in db.cols
    BY <2>4, CanDo
  <2>. QED
    BY <1>1, <2>1, <2>2, <2>3, <2>4
<1>6. TodoInv(T)
  <2>1. Schema!DropColumn("value") \in T => "value" \in db.cols
    BY <1>1 DEF Schema!Add, Schema!Update, Schema!DropColumn
  <2>2. Schema!DropColumn("type") \in T => "type" \in db.cols
    BY <1>1 DEF Schema!Add, Schema!Update, Schema!DropColumn
  <2>3. Schema!Drop("scope_other") \notin T
    BY <1>1 DEF Schema!Add, Schema!Update, Schema!DropColumn, Schema!Drop
  <2>4. \A s \in T : s.do # "delete_rows"
    BY <1>1, Kinds
  <2>. QED
    BY <1>2, <2>1, <2>2, <2>3, <2>4 DEF TodoInv
<1>9. TablesFirst(T)
  <2>1. /\ Schema!Update("pay_rate") # Schema!Update("tables")
        /\ Schema!Update("pay_type") # Schema!Update("tables")
    <3>1. /\ Schema!Update("pay_rate").on = "pay_rate"
          /\ Schema!Update("pay_type").on = "pay_type"
          /\ Schema!Update("tables").on = "tables"
      BY Kinds
    <3>. QED
      BY <3>1
  <2>2. \A s \in T : s # Schema!Update("tables")
    BY <1>1, <2>1, Kinds
  <2>. QED
    BY <2>2 DEF TablesFirst
<1>. QED
  BY <1>2, <1>4, <1>5, <1>6, <1>9 DEF Sound

\* Steps that neither drop nor delete leave nothing to lose.
LEMMA Harmless ==
  ASSUME NEW T, \A s \in T : s.do \in {"add", "update", "create"}
  PROVE  TodoInv(T)
<1>1. /\ Schema!DropColumn("value") \notin T /\ Schema!DropColumn("type") \notin T
      /\ Schema!Drop("scope_other") \notin T
  BY DEF Schema!DropColumn, Schema!Drop
<1>2. \A s \in T : s.do # "delete_rows"
  OBVIOUS
<1>. QED
  BY <1>1, <1>2 DEF TodoInv

LEMMA NamesAre ==
  ASSUME NEW idx, NEW i, i # "scope"
  PROVE  i # "scope_other" => (i \in Schema!Names(idx) <=> i \in idx)
BY DEF Schema!Names, Schema!NameOf

LEMMA ScopeName ==
  ASSUME NEW idx
  PROVE  "scope" \in Schema!Names(idx) <=> "scope" \in idx \/ "scope_other" \in idx
BY DEF Schema!Names, Schema!NameOf

LEMMA LooksModels ==
  ASSUME SchemaTypes, NEW T, T = Schema!ModelStatements(db)
  PROVE  /\ Sound(T) /\ (db.present \/ Schema!Update("tables") \in T)
         /\ (db.present => Schema!Full \subseteq db.cols) => \A s \in T : Doable(s, T)
<1>1. /\ \A s \in T : \/ s = Schema!Update("tables")
                      \/ \E i \in Schema!ModelIndexes : s = Schema!Create(i) /\ i \notin Schema!Names(db.idx)
      /\ db.present \/ Schema!Update("tables") \in T
  BY DEF Schema!ModelStatements
<1>2. \A s \in T : s \in AllStatements /\ s.do \in {"add", "update", "create"}
  <2>1. \A s \in T : s \in AllStatements
    BY <1>1, KindsTyped
  <2>2. ASSUME NEW s \in T PROVE s.do \in {"add", "update", "create"}
    <3>1. s = Schema!Update("tables") \/ \E i \in Schema!ModelIndexes : s = Schema!Create(i)
      BY <1>1
    <3>2. s.do = "update" \/ s.do = "create"
      BY <3>1, Kinds
    <3>. QED
      BY <3>2
  <2>. QED
    BY <2>1, <2>2
<1>3. ASSUME db.present => Schema!Full \subseteq db.cols, NEW s \in T PROVE Doable(s, T)
  <2>1. CASE s = Schema!Update("tables")
    BY <2>1, CanDo
  <2>2. ASSUME NEW i \in Schema!ModelIndexes, s = Schema!Create(i), i \notin Schema!Names(db.idx) PROVE Doable(s, T)
    <3>1. Schema!ColumnsOf(i) \subseteq Schema!Full
      BY DEF Schema!ColumnsOf, Schema!Full, Schema!RateColumns, Schema!ScopeColumns
    <3>2. i # "log_unique"
      BY DEF Schema!ModelIndexes
    <3>. QED
      BY <1>1, <1>3, <2>2, <3>1, <3>2, CanDo
  <2>. QED
    BY <1>1, <2>1, <2>2
<1>9. TablesFirst(T)
  <2>1. db.present => \A s \in T : s.do = "create"
    BY Kinds DEF Schema!ModelStatements
  <2>. QED
    BY <1>1, <2>1, Kinds DEF TablesFirst
<1>. QED
  BY <1>1, <1>2, <1>3, <1>9, Harmless DEF Sound

LEMMA LooksScopeColumns ==
  ASSUME SchemaTypes, NEW T, T = Schema!ScopeColumnStatements(db)
  PROVE  /\ Sound(T) /\ \A s \in T : Doable(s, T)
         /\ \A c \in Schema!ScopeColumns : c \in db.cols \/ Schema!Add(c) \in T
         /\ Schema!Update("scope") \in T
<1>1. /\ \A s \in T : \/ s = Schema!Update("scope")
                      \/ \E c \in Schema!ScopeColumns : s = Schema!Add(c) /\ c \notin db.cols
      /\ \A c \in Schema!ScopeColumns : c \in db.cols \/ Schema!Add(c) \in T
      /\ Schema!Update("scope") \in T
  BY DEF Schema!ScopeColumnStatements
<1>2. Schema!ScopeColumns \subseteq Schema!Full
  BY DEF Schema!Full
<1>3. \A s \in T : s \in AllStatements /\ s.do \in {"add", "update", "create"}
  <2>1. \A s \in T : s \in AllStatements
    BY <1>1, <1>2, KindsTyped
  <2>2. ASSUME NEW s \in T PROVE s.do \in {"add", "update", "create"}
    <3>1. s = Schema!Update("scope") \/ \E c \in Schema!ScopeColumns : s = Schema!Add(c)
      BY <1>1
    <3>2. s.do = "update" \/ s.do = "add"
      BY <3>1, Kinds
    <3>. QED
      BY <3>2
  <2>. QED
    BY <2>1, <2>2
<1>4. \A s \in T : Doable(s, T)
  BY <1>1, CanDo
<1>9. TablesFirst(T)
  <2>1. Schema!Update("scope") # Schema!Update("tables")
    <3>1. Schema!Update("scope").on = "scope" /\ Schema!Update("tables").on = "tables"
      BY Kinds
    <3>. QED
      BY <3>1
  <2>2. \A s \in T : s # Schema!Update("tables")
    BY <1>1, <2>1, Kinds
  <2>. QED
    BY <2>2 DEF TablesFirst
<1>. QED
  BY <1>1, <1>3, <1>4, <1>9, Harmless DEF Sound

LEMMA LooksScopeIndex ==
  ASSUME SchemaTypes, DbInv, NEW T, T = Schema!ScopeIndexStatements(db)
  PROVE  /\ Sound(T) /\ (Schema!ScopeColumns \subseteq db.cols => \A s \in T : Doable(s, T))
         /\ \A i \in Stale : i \notin db.idx \/ Schema!Drop(i) \in T
         /\ "scope" \in db.idx \/ Schema!Create("scope") \in T
<1>1. /\ \A s \in T : \/ s = Schema!Create("scope") /\ "scope" \notin db.idx
                      \/ \E i \in Stale : s = Schema!Drop(i) /\ i \in db.idx
      /\ \A i \in Stale : i \notin db.idx \/ Schema!Drop(i) \in T
      /\ "scope" \in db.idx \/ Schema!Create("scope") \in T
  BY DEF Schema!ScopeIndexStatements, Stale
<1>2. \A s \in T : s \in AllStatements
  BY <1>1, KindsTyped DEF Schema!ModelIndexes
<1>3. TodoInv(T)
  <2>1. Schema!DropColumn("value") \notin T /\ Schema!DropColumn("type") \notin T
    BY <1>1 DEF Schema!DropColumn, Schema!Drop, Schema!Create
  <2>2. \A s \in T : s.do # "delete_rows"
    BY <1>1, Kinds
  <2>3. Schema!Drop("scope_other") \in T => "scope_other" \in db.idx
    <3>1. ASSUME NEW i, Schema!Drop("scope_other") = Schema!Drop(i) PROVE i = "scope_other"
      <4>1. Schema!Drop("scope_other").on = "scope_other" /\ Schema!Drop(i).on = i
        BY Kinds
      <4>. QED
        BY <3>1, <4>1
    <3>2. Schema!Drop("scope_other") # Schema!Create("scope")
      BY Kinds
    <3>. QED
      BY <1>1, <3>1, <3>2
  <2>4. Schema!Drop("scope_other") \in T => Schema!Create("scope") \in T
    BY <1>1, <2>3 DEF DbInv
  <2>. QED
    BY <2>1, <2>2, <2>4 DEF TodoInv
<1>4. ASSUME Schema!ScopeColumns \subseteq db.cols, NEW s \in T PROVE Doable(s, T)
  <2>1. CASE s = Schema!Create("scope") /\ "scope" \notin db.idx
    <3>1. "scope_other" \notin db.idx \/ Schema!Drop("scope_other") \in T
      BY <1>1 DEF Stale
    <3>2. Schema!ColumnsOf("scope") = Schema!ScopeColumns
      BY DEF Schema!ColumnsOf
    <3>. QED
      BY <1>4, <2>1, <3>1, <3>2, ScopeName, CanDo
  <2>2. CASE \E i \in Stale : s = Schema!Drop(i) /\ i \in db.idx
    BY <2>2, CanDo
  <2>. QED
    BY <1>1, <2>1, <2>2
<1>9. TablesFirst(T)
  <2>1. \A s \in T : s.do # "update"
    BY <1>1, Kinds
  <2>. QED
    BY <2>1, Kinds DEF TablesFirst
<1>. QED
  BY <1>1, <1>2, <1>3, <1>4, <1>9 DEF Sound

LEMMA LooksHistory ==
  ASSUME SchemaTypes, NEW T, T = Schema!HistoryStatements(db)
  PROVE  Sound(T) /\ ("employee_id" \in db.cols => \A s \in T : Doable(s, T))
<1>1. ASSUME NEW s \in T
      PROVE  \/ \E i \in {"employee_unique", "history_by_model"} : s = Schema!Drop(i) /\ i \in db.idx
             \/ s = Schema!Create("history") /\ "history" \notin db.idx
  BY <1>1 DEF Schema!HistoryStatements
<1>2. \A s \in T : s \in AllStatements
  BY <1>1, KindsTyped
<1>3. TodoInv(T)
  <2>1. /\ Schema!DropColumn("value") \notin T /\ Schema!DropColumn("type") \notin T
        /\ Schema!Drop("scope_other") \notin T
    BY <1>1 DEF Schema!DropColumn, Schema!Drop, Schema!Create
  <2>2. \A s \in T : s.do # "delete_rows"
    BY <1>1, Kinds
  <2>. QED
    BY <2>1, <2>2 DEF TodoInv
<1>4. ASSUME "employee_id" \in db.cols, NEW s \in T PROVE Doable(s, T)
  <2>1. CASE s = Schema!Create("history") /\ "history" \notin db.idx
    <3>1. Schema!ColumnsOf("history") = {"employee_id"} /\ "history" \notin Schema!Names(db.idx)
      BY <2>1, NamesAre DEF Schema!ColumnsOf
    <3>. QED
      BY <1>4, <2>1, <3>1, CanDo
  <2>2. CASE \E i \in {"employee_unique", "history_by_model"} : s = Schema!Drop(i) /\ i \in db.idx
    BY <2>2, CanDo
  <2>. QED
    BY <1>1, <2>1, <2>2
<1>9. TablesFirst(T)
  <2>1. \A s \in T : s.do # "update"
    BY <1>1, Kinds
  <2>. QED
    BY <2>1, Kinds DEF TablesFirst
<1>. QED
  BY <1>2, <1>3, <1>4, <1>9 DEF Sound

LEMMA LooksTraceColumn ==
  ASSUME SchemaTypes, NEW T, T = Schema!TraceColumnStatements(db)
  PROVE  /\ Sound(T) /\ \A s \in T : Doable(s, T)
         /\ "correlation_id" \in db.cols \/ Schema!Add("correlation_id") \in T
<1>1. /\ \A s \in T : s = Schema!Add("correlation_id") /\ "correlation_id" \notin db.cols
      /\ "correlation_id" \in db.cols \/ Schema!Add("correlation_id") \in T
  BY DEF Schema!TraceColumnStatements
<1>2. "correlation_id" \in Schema!Full
  BY DEF Schema!Full
<1>3. \A s \in T : s \in AllStatements /\ s.do \in {"add", "update", "create"}
  <2>1. \A s \in T : s \in AllStatements
    BY <1>1, <1>2, KindsTyped
  <2>2. \A s \in T : s.do \in {"add", "update", "create"}
    BY <1>1, Kinds
  <2>. QED
    BY <2>1, <2>2
<1>4. \A s \in T : Doable(s, T)
  BY <1>1, CanDo
<1>9. TablesFirst(T)
  <2>1. \A s \in T : s.do # "update"
    BY <1>1, Kinds
  <2>. QED
    BY <2>1, Kinds DEF TablesFirst
<1>. QED
  BY <1>1, <1>3, <1>4, <1>9, Harmless DEF Sound

LEMMA LooksTraceIndex ==
  ASSUME SchemaTypes, NEW T, T = Schema!TraceIndexStatements(db)
  PROVE  /\ Sound(T) /\ ("correlation_id" \in db.cols => \A s \in T : Doable(s, T))
         /\ "log_trace" \in db.idx \/ Schema!Create("log_trace") \in T
<1>1. /\ \A s \in T : s = Schema!Create("log_trace") /\ "log_trace" \notin db.idx
      /\ "log_trace" \in db.idx \/ Schema!Create("log_trace") \in T
  BY DEF Schema!TraceIndexStatements
<1>2. \A s \in T : s \in AllStatements /\ s.do \in {"add", "update", "create"}
  <2>1. \A s \in T : s \in AllStatements
    BY <1>1, KindsTyped
  <2>2. \A s \in T : s.do \in {"add", "update", "create"}
    BY <1>1, Kinds
  <2>. QED
    BY <2>1, <2>2
<1>3. ASSUME "correlation_id" \in db.cols, NEW s \in T PROVE Doable(s, T)
  <2>1. Schema!ColumnsOf("log_trace") = {"correlation_id"} /\ "log_trace" \notin Schema!Names(db.idx)
    BY <1>1, <1>3, NamesAre DEF Schema!ColumnsOf
  <2>. QED
    BY <1>1, <1>3, <2>1, CanDo
<1>9. TablesFirst(T)
  <2>1. \A s \in T : s.do # "update"
    BY <1>1, Kinds
  <2>. QED
    BY <2>1, Kinds DEF TablesFirst
<1>. QED
  BY <1>1, <1>2, <1>3, <1>9, Harmless DEF Sound

LEMMA LooksLogIndex ==
  ASSUME SchemaTypes, NEW T, T = Schema!LogIndexStatements(db)
  PROVE  /\ Sound(T)
         /\ "correlation_id" \in db.cols /\ Schema!OneRow(db) => \A s \in T : Doable(s, T)
         /\ "log_unique" \in db.idx \/ Schema!Create("log_unique") \in T
<1>1. /\ \A s \in T : s = Schema!Create("log_unique") /\ "log_unique" \notin db.idx
      /\ "log_unique" \in db.idx \/ Schema!Create("log_unique") \in T
  BY DEF Schema!LogIndexStatements
<1>2. \A s \in T : s \in AllStatements /\ s.do \in {"add", "update", "create"}
  <2>1. \A s \in T : s \in AllStatements
    BY <1>1, KindsTyped
  <2>2. \A s \in T : s.do \in {"add", "update", "create"}
    BY <1>1, Kinds
  <2>. QED
    BY <2>1, <2>2
<1>3. ASSUME "correlation_id" \in db.cols, Schema!OneRow(db), NEW s \in T PROVE Doable(s, T)
  <2>1. Schema!ColumnsOf("log_unique") = {"correlation_id"} /\ "log_unique" \notin Schema!Names(db.idx)
    BY <1>1, <1>3, NamesAre DEF Schema!ColumnsOf
  <2>. QED
    BY <1>1, <1>3, <2>1, CanDo
<1>9. TablesFirst(T)
  <2>1. \A s \in T : s.do # "update"
    BY <1>1, Kinds
  <2>. QED
    BY <2>1, Kinds DEF TablesFirst
<1>. QED
  BY <1>1, <1>2, <1>3, <1>9, Harmless DEF Sound

\* Of two rows one outranks the other.
LEMMA Ranked ==
  ASSUME SchemaTypes, RowsDiffer, NEW a \in db.log, NEW c \in db.log
  PROVE  /\ a # c => Schema!Outranks(a, c) \/ Schema!Outranks(c, a)
         /\ Schema!Outranks(a, c) => ~ Schema!Outranks(c, a) /\ a # c
<1>1. a \in Logged /\ c \in Logged
  BY DEF SchemaTypes, DbType
<1>2. a.at \in Nat /\ c.at \in Nat /\ (a.at = c.at => a = c)
  BY <1>1 DEF Logged, RowsDiffer
<1>3. \A s : Schema!Weight(s) \in {1, 2, 3}
  BY DEF Schema!Weight
<1>4. PICK wa \in {1, 2, 3}, wc \in {1, 2, 3} :
        wa = Schema!Weight(a.status) /\ wc = Schema!Weight(c.status)
  BY <1>3
<1>5. /\ Schema!Outranks(a, c) <=> wa > wc \/ (wa = wc /\ a.at > c.at)
      /\ Schema!Outranks(c, a) <=> wc > wa \/ (wc = wa /\ c.at > a.at)
  BY <1>4 DEF Schema!Outranks
<1>6. ASSUME a # c PROVE Schema!Outranks(a, c) \/ Schema!Outranks(c, a)
  <2>1. a.at > c.at \/ c.at > a.at
    BY <1>2, <1>6
  <2>2. wa > wc \/ wc > wa \/ wa = wc
    BY <1>4
  <2>. QED
    BY <1>5, <2>1, <2>2
<1>7. ASSUME Schema!Outranks(a, c) PROVE ~ Schema!Outranks(c, a) /\ a # c
  BY ONLY <1>2, <1>4, <1>5, <1>7
<1>. QED
  BY <1>6, <1>7

LEMMA BestRow ==
  ASSUME SchemaTypes, RowsDiffer, db.log # {}
  PROVE  \E b \in db.log : \A r \in db.log : r = b \/ Schema!Outranks(b, r)
<1>1. PICK a \in db.log : TRUE
  OBVIOUS
<1>2. CASE \A r \in db.log : r = a
  BY <1>2
<1>3. ASSUME NEW c \in db.log, c # a
      PROVE  \E b \in db.log : \A r \in db.log : r = b \/ Schema!Outranks(b, r)
  <2>1. \A r \in db.log : r.id \in {1, 2}
    BY DEF SchemaTypes, DbType, Logged
  <2>2. \A r \in db.log : r = a \/ r = c
    <3>1. \A q, r \in db.log : q.id = r.id => q = r
      BY DEF RowsDiffer
    <3>. QED
      BY <1>3, <2>1, <3>1
  <2>3. Schema!Outranks(a, c) \/ Schema!Outranks(c, a)
    BY <1>3, Ranked
  <2>. QED
    BY <2>2, <2>3
<1>. QED
  BY <1>2, <1>3

LEMMA LooksDedupe ==
  ASSUME SchemaTypes, RowsDiffer, NEW T, T = Schema!DedupeStatements(db)
  PROVE  /\ Sound(T) /\ \A s \in T : Doable(s, T)
         /\ "correlation_id" \in db.cols =>
              \E k \in {1, 2} : \A r \in db.log :
                 r.id = k \/ \E s \in T : s.do = "delete_rows" /\ r.id \in s.on
<1>. DEFINE beaten == {r \in db.log : \E q \in db.log : Schema!Outranks(q, r)}
            S      == {r.id : r \in beaten}
            d      == [do |-> "delete_rows", on |-> S]
<1>1. T = (IF "correlation_id" \in db.cols /\ beaten # {} THEN {d} ELSE {})
  BY DEF Schema!DedupeStatements
<1>2. \A r \in db.log : r.id \in {1, 2}
  BY DEF SchemaTypes, DbType, Logged
<1>3. S \in SUBSET {1, 2}
  BY <1>2
<1>4. d \in AllStatements /\ d.do = "delete_rows" /\ d.on = S /\ Doable(d, T)
  BY <1>3, KindsTyped, CanDo
<1>5. \A q, r \in db.log : q.id = r.id => q = r
  BY DEF RowsDiffer
<1>6. ASSUME NEW b \in db.log, \A r \in db.log : r = b \/ Schema!Outranks(b, r)
      PROVE  b.id \notin S /\ \A r \in db.log : r = b \/ r.id \in S
  <2>1. \A q \in db.log : ~ Schema!Outranks(q, b)
    BY <1>6, Ranked
  <2>2. b \notin beaten /\ \A r \in db.log : r = b \/ r \in beaten
    BY <1>6, <2>1
  <2>. QED
    BY <1>5, <2>2
<1>7. BestStays(S)
  BY <1>6, BestRow DEF BestStays
<1>8. "correlation_id" \in db.cols => \E k \in {1, 2} : \A r \in db.log : r.id = k \/ r.id \in S
  <2>1. CASE db.log = {}
    BY <2>1
  <2>2. ASSUME NEW b \in db.log, \A r \in db.log : r = b \/ Schema!Outranks(b, r)
        PROVE  \E k \in {1, 2} : \A r \in db.log : r.id = k \/ r.id \in S
    BY <1>2, <1>6, <2>2
  <2>. QED
    BY <2>1, <2>2, BestRow
<1>9. beaten = {} => S = {}
  OBVIOUS
<1>. HIDE DEF beaten, S, d
<1>10. TodoInv(T)
  <2>1. \A s \in T : s = d
    BY <1>1
  <2>2. \A s \in T : s.do = "delete_rows" /\ s.on = S
    BY <1>4, <2>1
  <2>3. /\ Schema!DropColumn("value") \notin T
        /\ Schema!DropColumn("type") \notin T
        /\ Schema!Drop("scope_other") \notin T
    BY <2>2, Kinds
  <2>. QED
    BY <1>7, <2>2, <2>3 DEF TodoInv
<1>11. \A s \in T : s \in AllStatements /\ Doable(s, T)
  BY <1>1, <1>4
<1>12. ASSUME "correlation_id" \in db.cols
       PROVE  \E k \in {1, 2} : \A r \in db.log :
                 r.id = k \/ \E s \in T : s.do = "delete_rows" /\ r.id \in s.on
  <2>1. PICK k \in {1, 2} : \A r \in db.log : r.id = k \/ r.id \in S
    BY <1>8, <1>12
  <2>2. S = {} \/ d \in T
    BY <1>1, <1>9, <1>12
  <2>. QED
    BY <1>4, <2>1, <2>2
<1>13. TablesFirst(T)
  <2>1. \A s \in T : s.do # "update"
    BY <1>1, <1>4
  <2>. QED
    BY <2>1, Kinds DEF TablesFirst
<1>. QED
  BY <1>10, <1>11, <1>12, <1>13 DEF Sound

\* Where a step leaves the start that looked at the database.
PassedBy(n, todo) ==
  /\ n # 18 => Passed(n, todo)
  /\ n = 18 => /\ db.present /\ ScopeColumnsDone
               /\ \A i \in Stale : i \notin db.idx \/ Schema!Drop(i) \in todo
               /\ "scope" \in db.idx \/ Schema!Create("scope") \in todo

\* The instruction n looks up a step and leads to m.
LooksAt(n, m, step) ==
  \/ ((n = 2 /\ m = 3) \/ (n = 13 /\ m = 14)) /\ step = "pay_rates"
  \/ (n = 3 /\ m = 4) /\ step = "models"
  \/ ((n = 4 /\ m = 5) \/ (n = 16 /\ m = 17)) /\ step = "scope_columns"
  \/ ((n = 5 /\ m = 6) \/ (n = 17 /\ m = 18)) /\ step = "scope_index"
  \/ (n = 6 /\ m = 7) /\ step = "history"
  \/ ((n = 7 /\ m = 8) \/ (n = 20 /\ m = 21)) /\ step = "trace_column"
  \/ ((n = 8 /\ m = 9) \/ (n = 21 /\ m = 22)) /\ step = "trace_index"
  \/ ((n = 9 /\ m = 10) \/ (n = 24 /\ m = 25)) /\ step = "dedupe"
  \/ ((n = 10 /\ m = 11) \/ (n = 25 /\ m = 26)) /\ step = "log_index"

LEMMA LookedTo ==
  ASSUME SchemaTypes, RowsDiffer, DbInv, RecordedDone, NEW n, NEW m, NEW step,
         LooksAt(n, m, step),
         Passed(n, {}), NEW T, T = Schema!Statements(step, db)
  PROVE  Sound(T) /\ PassedBy(m, T) /\ (Lone(n, {}) => Lone(m, T))
<1>1. n >= 4 => db.present
  BY DEF Passed
<1>2. Lone(n, {}) /\ n \in 2..11 /\ db.present => Schema!Full \subseteq db.cols
  BY DEF Lone, DbInv
<1>3. /\ Schema!ScopeColumns \subseteq Schema!Full
      /\ "employee_id" \in Schema!Full
      /\ "correlation_id" \in Schema!Full
  BY DEF Schema!Full, Schema!RateColumns
<1>4. n >= 23 => "trace" \in db.applied /\ "correlation_id" \in db.cols
  BY DEF Passed, RecordedDone, TraceDone
<1>5. CASE ((n = 2 /\ m = 3) \/ (n = 13 /\ m = 14)) /\ step = "pay_rates"
  <2>1. T = (IF db.present THEN Schema!PayRateStatements(db) ELSE {})
    BY <1>5 DEF Schema!Statements
  <2>2. /\ Sound(T) /\ \A s \in T : Doable(s, T)
        /\ db.present => /\ \A c \in Schema!RateColumns : c \in db.cols \/ Schema!Add(c) \in T
                         /\ \A c \in Schema!LegacyColumns : c \notin db.cols \/ Schema!DropColumn(c) \in T
    BY <2>1, LooksPayRates, Harmless DEF Sound, TablesFirst
  <2>3. m = 3 \/ (m = 14 /\ db.present)
    BY <1>1, <1>5
  <2>4. PassedBy(m, T)
    BY <2>2, <2>3 DEF PassedBy, Passed
  <2>5. Lone(n, {}) => Lone(m, T)
    BY <1>5, <2>2 DEF Lone, Sound
  <2>. QED
    BY <2>2, <2>4, <2>5
<1>6. CASE (n = 3 /\ m = 4) /\ step = "models"
  <2>1. T = Schema!ModelStatements(db)
    BY <1>6 DEF Schema!Statements
  <2>2. PassedBy(m, T)
    BY <1>6, <2>1, LooksModels DEF PassedBy, Passed
  <2>3. Lone(n, {}) => Lone(m, T)
    BY <1>2, <1>6, <2>1, LooksModels DEF Lone, Sound
  <2>. QED
    BY <2>1, <2>2, <2>3, LooksModels
<1>7. CASE ((n = 4 /\ m = 5) \/ (n = 16 /\ m = 17)) /\ step = "scope_columns"
  <2>1. db.present /\ T = Schema!ScopeColumnStatements(db)
    BY <1>1, <1>7 DEF Schema!Statements
  <2>2. PassedBy(m, T)
    BY <1>7, <2>1, LooksScopeColumns DEF PassedBy, Passed
  <2>3. Lone(n, {}) => Lone(m, T)
    BY <1>7, <2>1, LooksScopeColumns DEF Lone, Sound
  <2>. QED
    BY <2>1, <2>2, <2>3, LooksScopeColumns
<1>8. CASE ((n = 5 /\ m = 6) \/ (n = 17 /\ m = 18)) /\ step = "scope_index"
  <2>1. db.present /\ T = Schema!ScopeIndexStatements(db)
    BY <1>1, <1>8 DEF Schema!Statements
  <2>2. n = 17 => ScopeColumnsDone
    BY DEF Passed, ScopeColumnsDone
  <2>3. PassedBy(m, T)
    BY <1>8, <2>1, <2>2, LooksScopeIndex DEF PassedBy, Passed
  <2>4. Lone(n, {}) => Schema!ScopeColumns \subseteq db.cols
    BY <1>2, <1>3, <1>8, <2>1, <2>2 DEF ScopeColumnsDone
  <2>5. Lone(n, {}) => Lone(m, T)
    BY <1>8, <2>1, <2>4, LooksScopeIndex DEF Lone, Sound
  <2>. QED
    BY <2>1, <2>3, <2>5, LooksScopeIndex
<1>9. CASE (n = 6 /\ m = 7) /\ step = "history"
  <2>1. db.present /\ T = Schema!HistoryStatements(db)
    BY <1>1, <1>9 DEF Schema!Statements
  <2>2. PassedBy(m, T)
    BY <1>9, <2>1 DEF PassedBy, Passed
  <2>3. Lone(n, {}) => Lone(m, T)
    BY <1>2, <1>3, <1>9, <2>1, LooksHistory DEF Lone, Sound
  <2>. QED
    BY <2>1, <2>2, <2>3, LooksHistory
<1>10. CASE ((n = 7 /\ m = 8) \/ (n = 20 /\ m = 21)) /\ step = "trace_column"
  <2>1. db.present /\ T = Schema!TraceColumnStatements(db)
    BY <1>1, <1>10 DEF Schema!Statements
  <2>2. PassedBy(m, T)
    BY <1>10, <2>1, LooksTraceColumn DEF PassedBy, Passed
  <2>3. Lone(n, {}) => Lone(m, T)
    BY <1>10, <2>1, LooksTraceColumn DEF Lone, Sound
  <2>. QED
    BY <2>1, <2>2, <2>3, LooksTraceColumn
<1>11. CASE ((n = 8 /\ m = 9) \/ (n = 21 /\ m = 22)) /\ step = "trace_index"
  <2>1. db.present /\ T = Schema!TraceIndexStatements(db)
    BY <1>1, <1>11 DEF Schema!Statements
  <2>2. n = 21 => "correlation_id" \in db.cols
    BY DEF Passed
  <2>3. PassedBy(m, T)
    BY <1>11, <2>1, <2>2, LooksTraceIndex DEF PassedBy, Passed
  <2>4. Lone(n, {}) => Lone(m, T)
    BY <1>2, <1>3, <1>11, <2>1, <2>2, LooksTraceIndex DEF Lone, Sound
  <2>. QED
    BY <2>1, <2>3, <2>4, LooksTraceIndex
<1>12. CASE ((n = 9 /\ m = 10) \/ (n = 24 /\ m = 25)) /\ step = "dedupe"
  <2>1. db.present /\ T = Schema!DedupeStatements(db)
    BY <1>1, <1>12 DEF Schema!Statements
  <2>2. PassedBy(m, T)
    BY <1>4, <1>12, <2>1 DEF PassedBy, Passed
  <2>3. Lone(n, {}) => "correlation_id" \in db.cols
    BY <1>2, <1>3, <1>4, <1>12, <2>1
  <2>4. Lone(n, {}) => Lone(m, T)
    BY <1>12, <2>1, <2>3, LooksDedupe DEF Lone, Sound
  <2>. QED
    BY <2>1, <2>2, <2>4, LooksDedupe
<1>13. CASE ((n = 10 /\ m = 11) \/ (n = 25 /\ m = 26)) /\ step = "log_index"
  <2>1. db.present /\ T = Schema!LogIndexStatements(db)
    BY <1>1, <1>13 DEF Schema!Statements
  <2>2. PassedBy(m, T)
    BY <1>4, <1>13, <2>1, LooksLogIndex DEF PassedBy, Passed
  <2>3. Lone(n, {}) => "correlation_id" \in db.cols /\ Schema!OneRow(db)
    <3>1. Lone(n, {}) => \E k \in {1, 2} : \A r \in db.log : r.id = k
      BY <1>13 DEF Lone
    <3>2. Lone(n, {}) => Schema!OneRow(db)
      BY <3>1 DEF Schema!OneRow, RowsDiffer
    <3>. QED
      BY <1>2, <1>3, <1>4, <1>13, <2>1, <3>2
  <2>4. Lone(n, {}) => Lone(m, T)
    BY <1>13, <2>1, <2>3, LooksLogIndex DEF Lone, Sound
  <2>. QED
    BY <2>1, <2>2, <2>4, LooksLogIndex
<1>. QED
  BY <1>5, <1>6, <1>7, <1>8, <1>9, <1>10, <1>11, <1>12, <1>13 DEF LooksAt

LEMMA LookKeeps ==
  ASSUME SchemaInv, NEW p \in Procs, Schema!LookUp(p)
  PROVE  SchemaInv'
<1>1. PICK i :
        /\ Schema!Ready(p) /\ i = Schema!Bootstrap[proc[p].next] /\ i.op = "look"
        /\ proc' = [proc EXCEPT ![p].next = @ + 1, ![p].todo = Schema!Statements(i.at, db)]
  BY DEF Schema!LookUp
<1>2. /\ SchemaTypes
      /\ RowsDiffer
      /\ InPart(p)
      /\ Passed(proc[p].next, proc[p].todo)
      /\ DbInv
      /\ RecordedDone
  BY <1>1 DEF SchemaInv, Schema!Ready
<1>3. /\ proc[p].up /\ proc[p].todo = {} /\ severed \in BOOLEAN
      /\ proc[p] \in [up : BOOLEAN, alone : BOOLEAN, next : 0..27, last : {0, 10, 26},
                      todo : SUBSET AllStatements]
      /\ proc[p].next <= proc[p].last
      /\ proc[p].last = 10 => proc[p].next \in 2..10
  BY <1>1, <1>2 DEF Schema!Ready, InPart, SchemaTypes, DbType
<1>0. PICK T : T = Schema!Statements(i.at, db)
  OBVIOUS
<1>. DEFINE r == [proc[p] EXCEPT !.next = @ + 1, !.todo = T]
            n == proc[p].next
<1>4. PICK m \in 3..26 : /\ m = proc[p].next + 1 /\ m - 1 \in 2..25
                         /\ Sound(T) /\ PassedBy(m, T) /\ (Lone(proc[p].next, {}) => Lone(m, T))
  <2>. DEFINE step == i.at
              m    == n + 1
  <2>1. \/ n \in {2, 13} /\ step = "pay_rates"
        \/ n = 3 /\ step = "models"
        \/ n \in {4, 16} /\ step = "scope_columns"
        \/ n \in {5, 17} /\ step = "scope_index"
        \/ n = 6 /\ step = "history"
        \/ n \in {7, 20} /\ step = "trace_column"
        \/ n \in {8, 21} /\ step = "trace_index"
        \/ n \in {9, 24} /\ step = "dedupe"
        \/ n \in {10, 25} /\ step = "log_index"
    BY <1>1, <1>2, LookedAt
  <2>2. Passed(n, {}) /\ T = Schema!Statements(step, db)
    BY <1>0, <1>2, <1>3
  <2>. HIDE DEF n, step
  <2>3. n \in 2..25
    BY ONLY <2>1
  <2>4. LooksAt(n, m, step)
    BY ONLY <2>1 DEF LooksAt
  <2>. HIDE DEF m
  <2>5. Sound(T) /\ PassedBy(m, T) /\ (Lone(n, {}) => Lone(m, T))
    BY <1>2, <2>2, <2>4, LookedTo
  <2>6. m \in 3..26 /\ m = n + 1 /\ m - 1 \in 2..25
    BY ONLY <2>3 DEF m
  <2>. QED
    BY <2>5, <2>6 DEF n
<1>5. /\ proc' = [proc EXCEPT ![p] = r] /\ proc'[p] = r
      /\ r.up /\ r.todo = T /\ r.last = proc[p].last /\ r.alone = proc[p].alone
      /\ r.next = m
  BY <1>0, <1>1, <1>2, <1>3, <1>4 DEF SchemaTypes, DbType
<1>6. /\ db' = db /\ severed' = severed /\ rewritten' = rewritten /\ writes' = writes
  BY DEF Schema!LookUp
<1>7. T \in SUBSET AllStatements /\ TodoInv(T)
  BY <1>4 DEF Sound
<1>8. r \in [up : BOOLEAN, alone : BOOLEAN, next : 0..27, last : {0, 10, 26}, todo : SUBSET AllStatements]
  <2>1. m \in 0..27
    OBVIOUS
  <2>2. r = [proc[p] EXCEPT !.next = m, !.todo = T]
    BY <1>3, <1>4
  <2>. QED
    BY ONLY <1>3, <1>7, <2>1, <2>2
<1>. HIDE DEF r
<1>9. InPart(p)'
  <2>1. r.last \in {10, 26} /\ r.next > 0 /\ (r.last = 10 => r.next \in 2..11)
    BY <1>2, <1>3, <1>4, <1>5 DEF InPart
  <2>. QED
    BY <1>5, <2>1 DEF InPart
<1>10. \A S : BestStays(S)' = BestStays(S)
  BY <1>6 DEF BestStays
<1>11. TodoInv(proc[p].todo)'
  BY <1>5, <1>6, <1>7, <1>10 DEF TodoInv
<1>12. Passed(proc[p].next, proc[p].todo)'
  <2>1. CASE m # 18
    <3>1. Passed(m, T)
      BY <1>4, <2>1 DEF PassedBy
    <3>2. Passed(m, T)'
      BY ONLY <1>6, <2>1, <3>1 DEF Passed
    <3>. QED
      BY <1>5, <3>2
  <2>2. CASE m = 18
    <3>1. /\ db.present /\ ScopeColumnsDone
          /\ \A i_1 \in Stale : i_1 \notin db.idx \/ Schema!Drop(i_1) \in T
          /\ "scope" \in db.idx \/ Schema!Create("scope") \in T
      BY <1>4, <2>2 DEF PassedBy
    <3>2. Scoped'
      BY <1>5, <1>6, <3>1 DEF Scoped
    <3>3. ScopeColumnsDone'
      BY <1>6, <3>1 DEF ScopeColumnsDone
    <3>4. Passed(18, T)'
      BY <1>6, <3>1, <3>2, <3>3 DEF Passed
    <3>. QED
      BY <1>5, <2>2, <3>4
  <2>. QED
    BY <2>1, <2>2
<1>13. r.alone /\ r.last = 26 => LoneInv(p)'
  <2>1. proc[p].alone /\ proc[p].last = 26 => Lone(proc[p].next, {}) /\ \A q \in Procs \ {p} : ~ proc[q].up
    BY <1>3 DEF SchemaInv, LoneInv
  <2>2. \A q \in Procs \ {p} : proc'[q] = proc[q]
    BY <1>2, <1>5 DEF SchemaTypes, DbType
  <2>3. Lone(m, T) => Lone(m, T)'
    <3>1. \A s, todo : Doable(s, todo)' <=> Doable(s, todo)
      BY <1>6 DEF Doable, Schema!OneRow
    <3>. QED
      BY <1>6, <3>1 DEF Lone, TablesFirst
  <2>. QED
    BY <1>4, <1>5, <2>1, <2>2, <2>3 DEF LoneInv
<1>14. Schema!Create("scope") \notin proc[p].todo
  BY <1>3
<1>. QED
  BY <1>3, <1>5, <1>6, <1>8, <1>9, <1>11, <1>12, <1>13, <1>14, Moved

-----------------------------------------------------------------------------
\* What a statement that succeeds changes, and nothing else.
MakesTables(s) == s = Schema!Update("tables") /\ ~ db.present

Did(s) ==
  /\ db' \in DbType /\ db'.applied = db.applied
  /\ db'.log = IF s.do = "delete_rows" THEN {r \in db.log : r.id \notin s.on} ELSE db.log
  /\ \A c : c \in db'.cols /\ c \notin db.cols => s = Schema!Add(c) \/ MakesTables(s)
  /\ \A c : c \in db.cols /\ c \notin db'.cols => s = Schema!DropColumn(c) \/ MakesTables(s)
  /\ \A i : i \in db'.idx /\ i \notin db.idx => s = Schema!Create(i)
  /\ \A i : i \in db.idx /\ i \notin db'.idx => s.do = "drop" /\ Schema!NameOf(s.on) = Schema!NameOf(i)
  /\ s.do = "drop" => \A i \in db'.idx : Schema!NameOf(i) # Schema!NameOf(s.on)
  /\ s.do = "create" => s.on \in db'.idx
  /\ s.do = "add" => s.on \in db'.cols
  /\ s.do = "drop_column" => s.on \notin db'.cols
  /\ db.present => db'.present
  /\ db'.present => db.present \/ s = Schema!Update("tables")
  /\ s = Schema!Update("tables") => db'.present
  /\ MakesTables(s) => db'.cols = Schema!Full /\ db'.rate = "kept" /\ db'.kind = "kept"
  /\ s = Schema!Update("pay_rate") => db'.rate = "kept"
  /\ s = Schema!Update("pay_type") => db'.kind = "kept"
  /\ s = Schema!Update("scope") => ~ db'.unscoped
  /\ "pay_rate" \in db.cols /\ db.rate = "kept" => db'.rate = "kept"
  /\ "pay_type" \in db.cols /\ db.kind = "kept" => db'.kind = "kept"
  /\ ~ db.unscoped => ~ db'.unscoped

\* Statements of different kinds differ.
LEMMA Apart ==
  \A s, x : s.do # "update" => s # Schema!Update(x)
BY Kinds

LEMMA DidAdd ==
  ASSUME db \in DbType, NEW c \in Schema!Full, Schema!Possible(Schema!Add(c), db), db' = Schema!After(Schema!Add(c), db)
  PROVE  Did(Schema!Add(c))
<1>1. PICK s : s = Schema!Add(c)
  OBVIOUS
<1>2. s.do = "add" /\ s.on = c
  BY <1>1, Kinds
<1>3. c \notin db.cols
  BY <1>1, <1>2 DEF Schema!Possible
<1>4. db' = [db EXCEPT !.cols = @ \cup {c},
                       !.rate = IF c = "pay_rate" THEN "zero" ELSE @,
                       !.kind = IF c = "pay_type" THEN "default" ELSE @]
  BY <1>1, <1>2 DEF Schema!After, Schema!Added
<1>5. /\ db'.present = db.present /\ db'.cols = db.cols \cup {c} /\ db'.idx = db.idx
      /\ db'.rate = (IF c = "pay_rate" THEN "zero" ELSE db.rate)
      /\ db'.kind = (IF c = "pay_type" THEN "default" ELSE db.kind)
      /\ db'.unscoped = db.unscoped /\ db'.log = db.log /\ db'.applied = db.applied
      /\ db' \in DbType
  <2>1. PICK rate \in {"none", "zero", "kept"}, kind \in {"none", "default", "kept"} :
          /\ rate = (IF c = "pay_rate" THEN "zero" ELSE db.rate)
          /\ kind = (IF c = "pay_type" THEN "default" ELSE db.kind)
    BY DEF DbType
  <2>2. db' = [db EXCEPT !.cols = @ \cup {c}, !.rate = rate, !.kind = kind]
    BY <1>4, <2>1
  <2>3. /\ db'.present = db.present /\ db'.cols = db.cols \cup {c} /\ db'.idx = db.idx
        /\ db'.rate = rate /\ db'.kind = kind
        /\ db'.unscoped = db.unscoped /\ db'.log = db.log /\ db'.applied = db.applied
    BY <2>2 DEF DbType
  <2>4. db' \in DbType
    <3>1. db.cols \cup {c} \in SUBSET (Schema!Full \cup Schema!LegacyColumns)
      BY DEF DbType
    <3>. QED
      BY ONLY <2>1, <2>2, <3>1, db \in DbType DEF DbType
  <2>. QED
    BY <2>1, <2>3, <2>4
<1>6. \A x : s # Schema!Update(x)
  BY <1>2, Apart
<1>7. Did(s)
  BY ONLY <1>1, <1>2, <1>3, <1>5, <1>6 DEF Did, MakesTables
<1>. QED
  BY <1>1, <1>7

LEMMA DidDropColumn ==
  ASSUME db \in DbType, NEW c \in Schema!LegacyColumns, db' = Schema!After(Schema!DropColumn(c), db)
  PROVE  Did(Schema!DropColumn(c))
<1>1. PICK s : s = Schema!DropColumn(c)
  OBVIOUS
<1>2. s.do = "drop_column" /\ s.on = c
  BY <1>1, Kinds
<1>4. db' = [db EXCEPT !.cols = @ \ {c}]
  BY <1>1, <1>2 DEF Schema!After
<1>5. /\ db'.present = db.present /\ db'.cols = db.cols \ {c} /\ db'.idx = db.idx
      /\ db'.rate = db.rate /\ db'.kind = db.kind
      /\ db'.unscoped = db.unscoped /\ db'.log = db.log /\ db'.applied = db.applied
      /\ db' \in DbType
  BY <1>4 DEF DbType
<1>6. \A x : s # Schema!Update(x)
  BY <1>2, Apart
<1>7. Did(s)
  BY ONLY <1>1, <1>2, <1>5, <1>6 DEF Did, MakesTables
<1>. QED
  BY <1>1, <1>7

LEMMA DidDrop ==
  ASSUME db \in DbType, NEW j, db' = Schema!After(Schema!Drop(j), db)
  PROVE  Did(Schema!Drop(j))
<1>1. PICK s : s = Schema!Drop(j)
  OBVIOUS
<1>2. s.do = "drop" /\ s.on = j
  BY <1>1, Kinds
<1>4. db' = [db EXCEPT !.idx = {i \in @ : Schema!NameOf(i) # Schema!NameOf(j)}]
  BY <1>1, <1>2 DEF Schema!After
<1>5. /\ db'.present = db.present /\ db'.cols = db.cols
      /\ db'.idx = {i \in db.idx : Schema!NameOf(i) # Schema!NameOf(j)}
      /\ db'.rate = db.rate /\ db'.kind = db.kind
      /\ db'.unscoped = db.unscoped /\ db'.log = db.log /\ db'.applied = db.applied
      /\ db' \in DbType
  BY <1>4 DEF DbType
<1>6. \A x : s # Schema!Update(x)
  BY <1>2, Apart
<1>7. Did(s)
  BY ONLY <1>1, <1>2, <1>5, <1>6 DEF Did, MakesTables
<1>. QED
  BY <1>1, <1>7

LEMMA DidCreate ==
  ASSUME db \in DbType, NEW j \in Indexes, db' = Schema!After(Schema!Create(j), db)
  PROVE  Did(Schema!Create(j))
<1>1. PICK s : s = Schema!Create(j)
  OBVIOUS
<1>2. s.do = "create" /\ s.on = j
  BY <1>1, Kinds
<1>4. db' = [db EXCEPT !.idx = @ \cup {j}]
  BY <1>1, <1>2 DEF Schema!After
<1>5. /\ db'.present = db.present /\ db'.cols = db.cols /\ db'.idx = db.idx \cup {j}
      /\ db'.rate = db.rate /\ db'.kind = db.kind
      /\ db'.unscoped = db.unscoped /\ db'.log = db.log /\ db'.applied = db.applied
      /\ db' \in DbType
  BY <1>4 DEF DbType
<1>6. \A x : s # Schema!Update(x)
  BY <1>2, Apart
<1>7. Did(s)
  BY ONLY <1>1, <1>2, <1>5, <1>6 DEF Did, MakesTables
<1>. QED
  BY <1>1, <1>7

LEMMA DidDelete ==
  ASSUME db \in DbType, NEW s, s.do = "delete_rows", db' = Schema!After(s, db)
  PROVE  Did(s)
<1>4. db' = [db EXCEPT !.log = {r \in @ : r.id \notin s.on}]
  BY DEF Schema!After
<1>5. /\ db'.present = db.present /\ db'.cols = db.cols /\ db'.idx = db.idx
      /\ db'.rate = db.rate /\ db'.kind = db.kind
      /\ db'.unscoped = db.unscoped /\ db'.log = {r \in db.log : r.id \notin s.on}
      /\ db'.applied = db.applied
      /\ db' \in DbType
  BY <1>4 DEF DbType
<1>6. \A x : s # Schema!Update(x)
  BY Apart
<1>. QED
  BY <1>5, <1>6 DEF Did, MakesTables

LEMMA DidUpdate ==
  ASSUME db \in DbType, NEW x \in {"tables", "pay_rate", "pay_type", "scope"},
         db' = Schema!After(Schema!Update(x), db)
  PROVE  Did(Schema!Update(x))
<1>1. PICK s : s = Schema!Update(x)
  OBVIOUS
<1>2. s.do = "update" /\ s.on = x /\ \A y : s = Schema!Update(y) => x = y
  <2>1. \A y : Schema!Update(y).on = y
    BY Kinds
  <2>2. ASSUME NEW y, s = Schema!Update(y) PROVE x = y
    <3>1. s.on = x /\ Schema!Update(y).on = y
      BY <1>1, <2>1
    <3>. QED
      BY <2>2, <3>1
  <2>. QED
    BY <1>1, <2>2, Kinds
<1>3. \A y : s # Schema!Add(y) /\ s # Schema!DropColumn(y) /\ s # Schema!Create(y)
  BY <1>2, Kinds
<1>4. db' = Schema!Updated(x, db)
  BY <1>1, <1>2 DEF Schema!After
<1>5. CASE x = "tables" /\ db.present
  <2>1. db' = db
    BY <1>4, <1>5 DEF Schema!Updated
  <2>2. Did(s)
    BY <1>2, <1>5, <2>1 DEF Did, MakesTables
  <2>. QED
    BY <1>1, <2>2
<1>6. CASE x = "tables" /\ ~ db.present
  <2>1. db' = [db EXCEPT !.present = TRUE, !.cols = Schema!Full, !.rate = "kept", !.kind = "kept"]
    BY <1>4, <1>6 DEF Schema!Updated
  <2>2. /\ db'.present = TRUE /\ db'.cols = Schema!Full /\ db'.idx = db.idx
        /\ db'.rate = "kept" /\ db'.kind = "kept"
        /\ db'.unscoped = db.unscoped /\ db'.log = db.log /\ db'.applied = db.applied
        /\ db' \in DbType
    BY <2>1 DEF DbType
  <2>3. db'.present
    BY ONLY <2>2, Zenon
  <2>4. Did(s)
    BY <1>1, <1>2, <1>3, <1>6, <2>2, <2>3 DEF Did, MakesTables
  <2>. QED
    BY <1>1, <2>4
<1>7. CASE x = "pay_rate"
  <2>1. db' = [db EXCEPT !.rate = "kept"]
    BY <1>4, <1>7 DEF Schema!Updated
  <2>2. /\ db'.present = db.present /\ db'.cols = db.cols /\ db'.idx = db.idx
        /\ db'.rate = "kept" /\ db'.kind = db.kind
        /\ db'.unscoped = db.unscoped /\ db'.log = db.log /\ db'.applied = db.applied
        /\ db' \in DbType
    BY <2>1 DEF DbType
  <2>3. Did(s)
    BY ONLY <1>1, <1>2, <1>3, <1>7, <2>2 DEF Did, MakesTables
  <2>. QED
    BY <1>1, <2>3
<1>8. CASE x = "pay_type"
  <2>1. db' = [db EXCEPT !.kind = "kept"]
    BY <1>4, <1>8 DEF Schema!Updated
  <2>2. /\ db'.present = db.present /\ db'.cols = db.cols /\ db'.idx = db.idx
        /\ db'.rate = db.rate /\ db'.kind = "kept"
        /\ db'.unscoped = db.unscoped /\ db'.log = db.log /\ db'.applied = db.applied
        /\ db' \in DbType
    BY <2>1 DEF DbType
  <2>3. Did(s)
    BY ONLY <1>1, <1>2, <1>3, <1>8, <2>2 DEF Did, MakesTables
  <2>. QED
    BY <1>1, <2>3
<1>9. CASE x = "scope"
  <2>1. db' = [db EXCEPT !.unscoped = FALSE]
    BY <1>4, <1>9 DEF Schema!Updated
  <2>2. /\ db'.present = db.present /\ db'.cols = db.cols /\ db'.idx = db.idx
        /\ db'.rate = db.rate /\ db'.kind = db.kind
        /\ db'.unscoped = FALSE /\ db'.log = db.log /\ db'.applied = db.applied
        /\ db' \in DbType
    BY <2>1 DEF DbType
  <2>3. ~ db'.unscoped
    BY ONLY <2>2, Zenon
  <2>4. Did(s)
    BY <1>1, <1>2, <1>3, <1>9, <2>2, <2>3 DEF Did, MakesTables
  <2>. QED
    BY <1>1, <2>4
<1>. QED
  BY <1>5, <1>6, <1>7, <1>8, <1>9

LEMMA KindOf ==
  ASSUME NEW s \in AllStatements
  PROVE  \/ \E c \in Schema!Full : s = Schema!Add(c)
         \/ \E c \in Schema!LegacyColumns : s = Schema!DropColumn(c)
         \/ \E i \in Stale \cup {"employee_unique", "history_by_model"} : s = Schema!Drop(i)
         \/ \E i \in Schema!ModelIndexes \cup {"history", "log_trace", "log_unique"} : s = Schema!Create(i)
         \/ \E x \in {"tables", "pay_rate", "pay_type", "scope"} : s = Schema!Update(x)
         \/ s.do = "delete_rows" /\ s.on \in SUBSET {1, 2}
<1>1. CASE s \in [do : {"add"}, on : Schema!Full]
  BY <1>1 DEF Schema!Add
<1>2. CASE s \in [do : {"drop_column"}, on : Schema!LegacyColumns]
  BY <1>2 DEF Schema!DropColumn
<1>3. CASE s \in [do : {"update"}, on : {"tables", "pay_rate", "pay_type", "scope"}]
  BY <1>3 DEF Schema!Update
<1>4. CASE s \in [do : {"drop"}, on : Stale \cup {"employee_unique", "history_by_model"}]
  BY <1>4 DEF Schema!Drop
<1>5. CASE s \in [do : {"create"}, on : Schema!ModelIndexes \cup {"history", "log_trace", "log_unique"}]
  BY <1>5 DEF Schema!Create
<1>6. CASE s \in [do : {"delete_rows"}, on : SUBSET {1, 2}]
  BY <1>6
<1>. QED
  BY <1>1, <1>2, <1>3, <1>4, <1>5, <1>6 DEF AllStatements

LEMMA Does ==
  ASSUME db \in DbType, NEW s \in AllStatements, Schema!Possible(s, db), db' = Schema!After(s, db)
  PROVE  Did(s)
<1>1. Schema!ModelIndexes \cup {"history", "log_trace", "log_unique"} \subseteq Indexes
  BY DEF Indexes
<1>. QED
  BY <1>1, KindOf, DidAdd, DidDropColumn, DidDrop, DidCreate, DidUpdate, DidDelete

LEMMA OfKind ==
  ASSUME NEW s \in AllStatements
  PROVE  /\ s.do = "add" => s.on \in Schema!Full /\ s = Schema!Add(s.on)
         /\ s.do = "drop_column" => s.on \in Schema!LegacyColumns /\ s = Schema!DropColumn(s.on)
         /\ s.do = "drop" =>
              s.on \in Stale \cup {"employee_unique", "history_by_model"} /\ s = Schema!Drop(s.on)
         /\ s.do = "create" =>
              s.on \in Schema!ModelIndexes \cup {"history", "log_trace", "log_unique"} /\ s = Schema!Create(s.on)
         /\ s.do = "update" =>
              s.on \in {"tables", "pay_rate", "pay_type", "scope"} /\ s = Schema!Update(s.on)
         /\ s.do \in {"add", "drop_column", "drop", "create", "update", "delete_rows"}
BY KindOf, Kinds

LEMMA DidGains ==
  ASSUME NEW s \in AllStatements, Did(s)
  PROVE  Gains
<1>1. ASSUME NEW c \in Schema!Full, c \in db.cols PROVE c \in db'.cols
  <2>1. s # Schema!DropColumn(c)
    BY OfKind, Kinds DEF Schema!Full, Schema!LegacyColumns, Schema!RateColumns, Schema!ScopeColumns
  <2>. QED
    BY <1>1, <2>1 DEF Did
<1>2. ASSUME NEW c \in Schema!LegacyColumns, c \notin db.cols PROVE c \notin db'.cols
  <2>1. c \notin Schema!Full
    BY DEF Schema!Full, Schema!LegacyColumns, Schema!RateColumns, Schema!ScopeColumns
  <2>2. s # Schema!Add(c)
    BY <2>1, OfKind, Kinds
  <2>. QED
    BY <1>2, <2>1, <2>2 DEF Did
<1>3. ASSUME NEW i \in Stale, i \notin db.idx PROVE i \notin db'.idx
  <2>1. s # Schema!Create(i)
    BY OfKind, Kinds DEF Stale, Schema!ModelIndexes
  <2>. QED
    BY <1>3, <2>1 DEF Did
<1>4. ASSUME NEW i \in {"log_trace", "log_unique"}, i \in db.idx PROVE i \in db'.idx
  <2>1. s.do = "drop" => Schema!NameOf(s.on) # Schema!NameOf(i)
    BY OfKind DEF Stale, Schema!NameOf
  <2>. QED
    BY <1>4, <2>1 DEF Did
<1>. QED
  BY <1>1, <1>2, <1>3, <1>4 DEF Gains, Did

LEMMA LogShrinks ==
  ASSUME NEW s, Did(s)
  PROVE  /\ db'.log \subseteq db.log
         /\ s.do # "delete_rows" => db'.log = db.log
         /\ s.do = "delete_rows" => \A r \in db.log : r \in db'.log <=> r.id \notin s.on
BY DEF Did

\* The best row outlives the deletion of others.
LEMMA BestOutlives ==
  ASSUME SchemaTypes, RowsDiffer, NEW s, Did(s), s.do = "delete_rows" => BestStays(s.on),
         NEW S, BestStays(S)
  PROVE  BestStays(S)'
<1>1. CASE s.do # "delete_rows"
  <2>1. db'.log = db.log
    BY <1>1, LogShrinks
  <2>. QED
    BY <2>1 DEF BestStays
<1>2. CASE s.do = "delete_rows" /\ db.log # {}
  <2>1. PICK b \in db.log : b.id \notin S /\ \A r \in db.log : r = b \/ Schema!Outranks(b, r)
    BY <1>2 DEF BestStays
  <2>2. PICK c \in db.log : c.id \notin s.on /\ \A r \in db.log : r = c \/ Schema!Outranks(c, r)
    BY <1>2 DEF BestStays
  <2>3. b = c
    BY <2>1, <2>2, Ranked
  <2>4. b \in db'.log /\ db'.log \subseteq db.log
    BY <1>2, <2>2, <2>3, LogShrinks
  <2>. QED
    BY <2>1, <2>4 DEF BestStays
<1>3. CASE db.log = {}
  BY <1>3, LogShrinks DEF BestStays
<1>. QED
  BY <1>1, <1>2, <1>3

LEMMA DidTodo ==
  ASSUME SchemaTypes, RowsDiffer, NEW todo \in SUBSET AllStatements, NEW s \in todo,
         Did(s), Schema!Possible(s, db), \A t \in todo : ~ Schema!Before(t, s), TodoInv(todo),
         rewritten' = rewritten
  PROVE  TodoInv(todo \ {s})'
<1>1. Gains
  BY DidGains
<1>2. "pay_rate" \in Schema!Full /\ "pay_type" \in Schema!Full
  BY DEF Schema!Full, Schema!RateColumns
<1>3. ASSUME Schema!DropColumn("value") \in todo
      PROVE  Schema!Update("pay_rate") \in todo \ {s} \/ ("pay_rate" \in db'.cols /\ db'.rate = "kept")
  <2>1. CASE s = Schema!Update("pay_rate")
    <3>1. "pay_rate" \in db.cols
      BY <2>1, Kinds DEF Schema!Possible
    <3>. QED
      BY <1>1, <1>2, <2>1, <3>1 DEF Gains, Did
  <2>2. CASE s # Schema!Update("pay_rate")
    BY <1>1, <1>2, <1>3, <2>2 DEF Gains, TodoInv
  <2>. QED
    BY <2>1, <2>2
<1>4. ASSUME Schema!DropColumn("type") \in todo
      PROVE  Schema!Update("pay_type") \in todo \ {s} \/ ("pay_type" \in db'.cols /\ db'.kind = "kept")
  <2>1. CASE s = Schema!Update("pay_type")
    <3>1. Schema!Update("pay_type") # Schema!Update("pay_rate")
      <4>1. Schema!Update("pay_type").on = "pay_type" /\ Schema!Update("pay_rate").on = "pay_rate"
        BY Kinds
      <4>. QED
        BY <4>1
    <3>2. "pay_type" \in db.cols
      BY <2>1, Kinds DEF Schema!Possible
    <3>. QED
      BY <1>1, <1>2, <2>1, <3>2 DEF Gains, Did
  <2>2. CASE s # Schema!Update("pay_type")
    BY <1>1, <1>2, <1>4, <2>2 DEF Gains, TodoInv
  <2>. QED
    BY <2>1, <2>2
<1>5. ASSUME Schema!Drop("scope_other") \in todo PROVE Schema!Create("scope") \in todo \ {s}
  BY <1>5, OrderKeeps DEF TodoInv
<1>6. ASSUME ~ rewritten', NEW t \in todo, t.do = "delete_rows" PROVE BestStays(t.on)'
  <2>1. ~ rewritten
    BY <1>6
  <2>2. BestStays(t.on) /\ (s.do = "delete_rows" => BestStays(s.on))
    BY <1>6, <2>1 DEF TodoInv
  <2>. QED
    BY <2>2, BestOutlives
<1>. QED
  BY <1>3, <1>4, <1>5, <1>6 DEF TodoInv

LEMMA DidPassed ==
  ASSUME NEW todo \in SUBSET AllStatements, NEW s \in todo, Did(s), NEW n, Passed(n, todo),
         severed \/ Scoped => (severed \/ Scoped)'
  PROVE  Passed(n, todo \ {s})'
<1>1. Gains
  BY DidGains
<1>2. /\ \A c : s = Schema!Add(c) => c \in db'.cols
      /\ \A c : s = Schema!DropColumn(c) => c \notin db'.cols
      /\ \A i : s = Schema!Create(i) => i \in db'.idx
      /\ \A i : s = Schema!Drop(i) => i \notin db'.idx
      /\ s = Schema!Update("tables") => db'.present
      /\ s = Schema!Update("scope") => ~ db'.unscoped
  BY Kinds DEF Did
<1>3. /\ Schema!RateColumns \subseteq Schema!Full
      /\ Schema!ScopeColumns \subseteq Schema!Full
      /\ "correlation_id" \in Schema!Full
  BY DEF Schema!Full
<1>4. /\ n >= 4 => db'.present \/ Schema!Update("tables") \in todo \ {s}
      /\ n = 14 => /\ \A c \in Schema!RateColumns : c \in db'.cols \/ Schema!Add(c) \in todo \ {s}
                   /\ \A c \in Schema!LegacyColumns : c \notin db'.cols \/ Schema!DropColumn(c) \in todo \ {s}
  BY <1>1, <1>2, <1>3 DEF Passed, Gains
<1>5. /\ n = 17 => /\ \A c \in Schema!ScopeColumns : c \in db'.cols \/ Schema!Add(c) \in todo \ {s}
                   /\ ~ db'.unscoped \/ Schema!Update("scope") \in todo \ {s}
      /\ n = 18 => /\ ScopeColumnsDone'
                   /\ \A i \in Stale : i \notin db'.idx \/ Schema!Drop(i) \in todo \ {s}
                   /\ (severed \/ Scoped)'
  BY <1>1, <1>2, <1>3 DEF Passed, Gains, ScopeColumnsDone
<1>6. /\ n = 21 => "correlation_id" \in db'.cols \/ Schema!Add("correlation_id") \in todo \ {s}
      /\ n = 22 => /\ "correlation_id" \in db'.cols
                   /\ "log_trace" \in db'.idx \/ Schema!Create("log_trace") \in todo \ {s}
      /\ n >= 23 => "trace" \in db'.applied
      /\ n = 26 => "log_unique" \in db'.idx \/ Schema!Create("log_unique") \in todo \ {s}
  BY <1>1, <1>2, <1>3 DEF Passed, Gains
<1>. QED
  BY <1>4, <1>5, <1>6 DEF Passed

LEMMA DidDb ==
  ASSUME SchemaTypes, RowsDiffer, DbInv, NEW todo \in SUBSET AllStatements, NEW s \in todo,
         Did(s), Schema!Possible(s, db), \A t \in todo : ~ Schema!Before(t, s), TodoInv(todo),
         rewritten' = rewritten, writes' = writes
  PROVE  RowsDiffer' /\ DbInv'
<1>1. Gains
  BY DidGains
<1>2. "pay_rate" \in Schema!Full /\ "pay_type" \in Schema!Full
  BY DEF Schema!Full, Schema!RateColumns
<1>3. db'.log \subseteq db.log
  BY LogShrinks
<1>4. RowsDiffer'
  BY <1>3 DEF RowsDiffer
<1>5. ~ db.present /\ db'.present => MakesTables(s)
  BY DEF Did, MakesTables
<1>6. MakesTables(s) => db'.cols = Schema!Full /\ db'.rate = "kept" /\ db'.kind = "kept"
  BY DEF Did
<1>7. ASSUME db'.present PROVE ("pay_rate" \in db'.cols /\ db'.rate = "kept") \/ "value" \in db'.cols
  <2>1. CASE MakesTables(s)
    BY <1>2, <1>6, <2>1
  <2>2. CASE ~ MakesTables(s) /\ "pay_rate" \in db.cols /\ db.rate = "kept"
    BY <1>1, <1>2, <2>2 DEF Gains
  <2>3. CASE ~ MakesTables(s) /\ ~ ("pay_rate" \in db.cols /\ db.rate = "kept")
    <3>1. "value" \in db.cols
      BY <1>5, <1>7, <2>3 DEF DbInv
    <3>2. s # Schema!DropColumn("value")
      BY <2>3, OrderKeeps DEF TodoInv
    <3>. QED
      BY <2>3, <3>1, <3>2 DEF Did
  <2>. QED
    BY <2>1, <2>2, <2>3
<1>8. ASSUME db'.present PROVE ("pay_type" \in db'.cols /\ db'.kind = "kept") \/ "type" \in db'.cols
  <2>1. CASE MakesTables(s)
    BY <1>2, <1>6, <2>1
  <2>2. CASE ~ MakesTables(s) /\ "pay_type" \in db.cols /\ db.kind = "kept"
    BY <1>1, <1>2, <2>2 DEF Gains
  <2>3. CASE ~ MakesTables(s) /\ ~ ("pay_type" \in db.cols /\ db.kind = "kept")
    <3>1. "type" \in db.cols
      BY <1>5, <1>8, <2>3 DEF DbInv
    <3>2. s # Schema!DropColumn("type")
      BY <2>3, OrderKeeps DEF TodoInv
    <3>. QED
      BY <2>3, <3>1, <3>2 DEF Did
  <2>. QED
    BY <2>1, <2>2, <2>3
<1>9. ASSUME db'.present, "bootstrap" \notin db'.applied PROVE Schema!Full \subseteq db'.cols
  <2>1. CASE MakesTables(s)
    BY <1>6, <2>1
  <2>2. CASE db.present
    <3>1. Schema!Full \subseteq db.cols
      BY <1>9, <2>2 DEF DbInv, Did
    <3>. QED
      BY <1>1, <3>1 DEF Gains
  <2>. QED
    BY <1>5, <1>9, <2>1, <2>2
<1>10. ~ ("scope" \in db'.idx /\ "scope_other" \in db'.idx)
  <2>1. "scope_other" \notin db.idx => "scope_other" \notin db'.idx
    BY <1>1 DEF Gains, Stale
  <2>2. "scope" \in db'.idx => "scope" \in db.idx \/ s = Schema!Create("scope")
    BY DEF Did
  <2>3. s = Schema!Create("scope") => "scope_other" \notin db.idx
    <3>1. ASSUME s = Schema!Create("scope") PROVE "scope" \notin Schema!Names(db.idx)
      <4>1. s.do = "create" /\ s.on = "scope"
        BY <3>1, Kinds
      <4>. QED
        BY <4>1 DEF Schema!Possible
    <3>. QED
      BY <3>1, ScopeName
  <2>. QED
    BY <2>1, <2>2, <2>3 DEF DbInv, Did
<1>11. ASSUME "log_unique" \in db'.idx PROVE Schema!OneRow(db)'
  <2>1. "log_unique" \in db.idx \/ s = Schema!Create("log_unique")
    BY <1>11 DEF Did
  <2>2. s = Schema!Create("log_unique") => Schema!OneRow(db)
    BY Kinds DEF Schema!Possible
  <2>. QED
    BY <1>3, <2>1, <2>2 DEF DbInv, Schema!OneRow
<1>12. ASSUME ~ rewritten', writes' > 0 PROVE \E r \in db'.log : r.status = "SUCCESS"
  <2>1. PICK c \in db.log : c.status = "SUCCESS"
    BY <1>12 DEF DbInv
  <2>2. CASE s.do # "delete_rows"
    BY <2>1, <2>2, LogShrinks
  <2>3. CASE s.do = "delete_rows"
    <3>1. BestStays(s.on)
      BY <1>12, <2>3 DEF TodoInv
    <3>2. PICK b \in db.log : b.id \notin s.on /\ \A r \in db.log : r = b \/ Schema!Outranks(b, r)
      BY <2>1, <3>1 DEF BestStays
    <3>3. b \in Logged /\ c \in Logged
      BY DEF SchemaTypes, DbType
    <3>4. b.status = "SUCCESS"
      <4>1. b.status \in {"SUCCESS", "PENDING", "FAILED"}
        BY <3>3 DEF Logged
      <4>2. Schema!Weight("SUCCESS") = 3 /\ Schema!Weight("PENDING") = 2 /\ Schema!Weight("FAILED") = 1
        BY DEF Schema!Weight
      <4>3. b = c \/ Schema!Outranks(b, c)
        BY <3>2
      <4>. QED
        BY ONLY <2>1, <4>1, <4>2, <4>3 DEF Schema!Outranks
    <3>. QED
      BY <2>3, <3>2, <3>4, LogShrinks
  <2>. QED
    BY <2>2, <2>3
<1>13. db'.applied # {} => db'.present
  BY <1>1 DEF DbInv, Did, Gains
<1>. QED
  BY <1>4, <1>7, <1>8, <1>9, <1>10, <1>11, <1>12, <1>13 DEF DbInv

LEMMA StaysDoable ==
  ASSUME SchemaTypes, NEW todo \in SUBSET AllStatements, NEW s \in todo, Did(s),
         \A t \in todo : ~ Schema!Before(t, s), TablesFirst(todo), NEW t \in todo, t # s,
         Doable(t, todo)
  PROVE  Doable(t, todo \ {s})'
<1>1. Gains /\ (MakesTables(s) => t.do = "create")
  BY DidGains, Kinds DEF TablesFirst, MakesTables
<1>2. ASSUME t.do = "add" PROVE t.on \notin db'.cols
  <2>1. t = Schema!Add(t.on) /\ t.on \notin db.cols /\ ~ MakesTables(s)
    BY <1>1, <1>2, OfKind DEF Doable
  <2>. QED
    BY <2>1 DEF Did
<1>3. ASSUME t.do = "drop_column" PROVE t.on \in db'.cols
  <2>1. t = Schema!DropColumn(t.on) /\ t.on \in db.cols /\ ~ MakesTables(s)
    BY <1>1, <1>3, OfKind DEF Doable
  <2>. QED
    BY <2>1 DEF Did
<1>4. ASSUME t.do = "drop" PROVE Schema!NameOf(t.on) \in Schema!Names(db'.idx)
  <2>1. PICK i \in db.idx : Schema!NameOf(i) = Schema!NameOf(t.on)
    BY <1>4 DEF Doable, Schema!Names
  <2>2. ASSUME i \notin db'.idx PROVE FALSE
    <3>1. s.do = "drop" /\ Schema!NameOf(s.on) = Schema!NameOf(t.on)
      BY <2>1, <2>2 DEF Did
    <3>2. /\ t.on \in {"scope_other", "scope_legacy", "employee_unique", "history_by_model"}
          /\ s.on \in {"scope_other", "scope_legacy", "employee_unique", "history_by_model"}
          /\ t = Schema!Drop(t.on) /\ s = Schema!Drop(s.on)
      BY <1>4, <3>1, OfKind DEF Stale
    <3>3. t.on = s.on
      BY ONLY <3>1, <3>2 DEF Schema!NameOf
    <3>. QED
      BY <3>2, <3>3
  <2>. QED
    BY <2>1, <2>2 DEF Schema!Names
<1>5. ASSUME t.do = "create"
      PROVE  /\ \/ t.on \notin Schema!Names(db'.idx)
                \/ t.on = "scope" /\ Schema!Drop("scope_other") \in todo \ {s}
             /\ Schema!ColumnsOf(t.on) \subseteq db'.cols \/ Schema!Update("tables") \in todo \ {s}
             /\ t.on = "log_unique" => Schema!OneRow(db)'
  <2>1. /\ t.on \in Schema!ModelIndexes \cup {"history", "log_trace", "log_unique"}
        /\ t = Schema!Create(t.on)
    BY <1>5, OfKind
  <2>2. /\ \/ t.on \notin Schema!Names(db.idx)
           \/ t.on = "scope" /\ Schema!Drop("scope_other") \in todo
        /\ Schema!ColumnsOf(t.on) \subseteq db.cols \/ Schema!Update("tables") \in todo
        /\ t.on = "log_unique" => Schema!OneRow(db)
    BY <1>5 DEF Doable
  <2>3. ASSUME s = Schema!Drop("scope_other") /\ t.on = "scope" PROVE t.on \notin Schema!Names(db'.idx)
    <3>1. s.do = "drop" /\ Schema!NameOf(s.on) = "scope"
      BY <2>3, Kinds DEF Schema!NameOf
    <3>2. \A i \in db'.idx : Schema!NameOf(i) # "scope"
      BY <3>1 DEF Did
    <3>3. "scope" \notin Schema!Names(db'.idx)
      BY <3>2 DEF Schema!Names
    <3>. QED
      BY <2>3, <3>3
  <2>4. ASSUME t.on \notin Schema!Names(db.idx) PROVE t.on \notin Schema!Names(db'.idx)
    <3>1. ASSUME NEW i \in db'.idx, Schema!NameOf(i) = t.on PROVE FALSE
      <4>1. i \notin db.idx
        BY <2>4, <3>1 DEF Schema!Names
      <4>2. s = Schema!Create(i)
        BY <3>1, <4>1 DEF Did
      <4>3. i \in Schema!ModelIndexes \cup {"history", "log_trace", "log_unique"}
        BY <4>2, OfKind, Kinds
      <4>4. Schema!NameOf(i) = i
        BY <4>3 DEF Schema!NameOf, Schema!ModelIndexes
      <4>. QED
        BY <2>1, <3>1, <4>2, <4>4
    <3>2. \A i \in db'.idx : Schema!NameOf(i) # t.on
      BY <3>1
    <3>3. t.on \notin Schema!Names(db'.idx)
      BY ONLY <3>2 DEF Schema!Names
    <3>. QED
      BY <3>3
  <2>5. t.on \notin Schema!Names(db'.idx) \/ (t.on = "scope" /\ Schema!Drop("scope_other") \in todo \ {s})
    BY <2>2, <2>3, <2>4
  <2>6. Schema!ColumnsOf(t.on) \subseteq db'.cols \/ Schema!Update("tables") \in todo \ {s}
    <3>1. Schema!ColumnsOf(t.on) \subseteq Schema!Full
      BY DEF Schema!ColumnsOf, Schema!Full, Schema!RateColumns, Schema!ScopeColumns
    <3>2. CASE Schema!ColumnsOf(t.on) \subseteq db.cols
      BY <1>1, <3>1, <3>2 DEF Gains
    <3>3. CASE s = Schema!Update("tables")
      <4>1. MakesTables(s)
        BY <3>3 DEF TablesFirst, MakesTables
      <4>. QED
        BY <3>1, <4>1 DEF Did
    <3>. QED
      BY <2>2, <3>2, <3>3
  <2>7. t.on = "log_unique" => Schema!OneRow(db)'
    BY <2>2, LogShrinks DEF Schema!OneRow
  <2>. QED
    BY <2>5, <2>6, <2>7
<1>6. ASSUME NEW x, t = Schema!Update(x), x # "tables" PROVE ~ MakesTables(s)
  <2>1. t.do = "update"
    BY <1>6, Kinds
  <2>. QED
    BY <1>1, <2>1
<1>7. "pay_rate" \in Schema!Full /\ "pay_type" \in Schema!Full
  BY DEF Schema!Full, Schema!RateColumns
<1>8. /\ \A c : s = Schema!Add(c) => c \in db'.cols
  BY Kinds DEF Did
<1>9. ASSUME t = Schema!Update("pay_rate")
      PROVE  "value" \in db'.cols /\ ("pay_rate" \in db'.cols \/ Schema!Add("pay_rate") \in todo \ {s})
  <2>1. ~ MakesTables(s) /\ s # Schema!DropColumn("value")
    BY <1>6, <1>9, OrderKeeps
  <2>2. "value" \in db.cols /\ ("pay_rate" \in db.cols \/ Schema!Add("pay_rate") \in todo)
    BY <1>9 DEF Doable
  <2>3. "value" \in db'.cols
    BY <2>1, <2>2 DEF Did
  <2>. QED
    BY <1>1, <1>7, <1>8, <2>2, <2>3 DEF Gains
<1>10. ASSUME t = Schema!Update("pay_type")
       PROVE  "type" \in db'.cols /\ ("pay_type" \in db'.cols \/ Schema!Add("pay_type") \in todo \ {s})
  <2>1. ~ MakesTables(s) /\ s # Schema!DropColumn("type")
    BY <1>6, <1>10, OrderKeeps
  <2>2. "type" \in db.cols /\ ("pay_type" \in db.cols \/ Schema!Add("pay_type") \in todo)
    BY <1>10 DEF Doable
  <2>3. "type" \in db'.cols
    BY <2>1, <2>2 DEF Did
  <2>. QED
    BY <1>1, <1>7, <1>8, <2>2, <2>3 DEF Gains
<1>. QED
  BY <1>2, <1>3, <1>4, <1>5, <1>9, <1>10 DEF Doable

LEMMA DidLone ==
  ASSUME SchemaTypes, NEW todo \in SUBSET AllStatements, NEW s \in todo, Did(s),
         \A t \in todo : ~ Schema!Before(t, s), NEW n, Lone(n, todo)
  PROVE  Lone(n, todo \ {s})'
<1>2. TablesFirst(todo \ {s})'
  <2>1. Schema!Update("tables") \in todo \ {s} =>
          /\ ~ db'.present
          /\ \A t \in todo \ {s} : t = Schema!Update("tables") \/ \E i \in Schema!ModelIndexes : t = Schema!Create(i)
    BY DEF Lone, TablesFirst, Did
  <2>. QED
    BY <2>1 DEF TablesFirst
<1>3. \A t \in todo \ {s} : Doable(t, todo \ {s})'
  BY StaysDoable DEF Lone
<1>4. n \in {10, 25} => \E k \in {1, 2} : \A r \in db'.log :
        r.id = k \/ \E t \in todo \ {s} : t.do = "delete_rows" /\ r.id \in t.on
  <2>1. ASSUME NEW k \in {1, 2},
               \A r \in db.log : r.id = k \/ \E t \in todo : t.do = "delete_rows" /\ r.id \in t.on,
               NEW r \in db'.log, r.id # k
        PROVE  \E t \in todo \ {s} : t.do = "delete_rows" /\ r.id \in t.on
    <3>1. r \in db.log /\ (s.do = "delete_rows" => r.id \notin s.on)
      BY LogShrinks
    <3>2. PICK t \in todo : t.do = "delete_rows" /\ r.id \in t.on
      BY <2>1, <3>1
    <3>. QED
      BY <3>1, <3>2
  <2>. QED
    BY <2>1 DEF Lone
<1>5. n \in 2..11 => "bootstrap" \notin db'.applied
  BY DEF Lone, Did
<1>. QED
  BY <1>2, <1>3, <1>4, <1>5 DEF Lone

LEMMA ExecuteKeeps ==
  ASSUME SchemaInv, NEW p \in Procs, Schema!Execute(p)
  PROVE  SchemaInv'
<1>1. PICK s \in proc[p].todo :
        /\ Schema!Due(p, s)
        /\ IF Schema!Possible(s, db)
           THEN /\ db' = Schema!After(s, db)
                /\ proc' = [proc EXCEPT ![p].todo = @ \ {s}]
                /\ UNCHANGED severed
           ELSE Schema!Leaves(p) /\ UNCHANGED db
  BY DEF Schema!Execute
<1>2. proc[p].up /\ UNCHANGED <<schemaStarts, writes, rewritten>>
  BY DEF Schema!Execute
<1>3. CASE ~ Schema!Possible(s, db)
  BY <1>1, <1>2, <1>3, LeavesKeeps
<1>4. CASE Schema!Possible(s, db)
  <2>1. /\ db' = Schema!After(s, db) /\ proc' = [proc EXCEPT ![p].todo = @ \ {s}]
        /\ severed' = severed /\ writes' = writes /\ rewritten' = rewritten
        /\ \A t \in proc[p].todo : ~ Schema!Before(t, s)
    BY <1>1, <1>2, <1>4 DEF Schema!Due
  <2>2. /\ SchemaTypes /\ RowsDiffer /\ DbInv /\ RecordedDone
        /\ InPart(p) /\ TodoInv(proc[p].todo) /\ Passed(proc[p].next, proc[p].todo)
    BY <1>2 DEF SchemaInv
  <2>3. db \in DbType /\ proc[p].todo \in SUBSET AllStatements /\ s \in AllStatements
    BY <2>2 DEF SchemaTypes, DbType
  <2>4. Did(s)
    BY <1>4, <2>1, <2>3, Does
  <2>5. /\ \A q \in Procs \ {p} : proc'[q] = proc[q]
        /\ proc'[p] = [proc[p] EXCEPT !.todo = @ \ {s}]
        /\ proc'[p].todo = proc[p].todo \ {s} /\ proc'[p].next = proc[p].next
        /\ proc'[p].up = proc[p].up /\ proc'[p].last = proc[p].last
        /\ proc'[p].alone = proc[p].alone
    BY <2>1, <2>2 DEF SchemaTypes, DbType
  <2>6. SchemaTypes'
    <3>1. proc[p] \in [up : BOOLEAN, alone : BOOLEAN, next : 0..27, last : {0, 10, 26},
                       todo : SUBSET AllStatements]
      BY <2>2 DEF SchemaTypes, DbType
    <3>2. proc'[p] \in [up : BOOLEAN, alone : BOOLEAN, next : 0..27, last : {0, 10, 26},
                        todo : SUBSET AllStatements]
      BY ONLY <2>5, <3>1
    <3>3. proc' \in [Procs -> [up : BOOLEAN, alone : BOOLEAN, next : 0..27, last : {0, 10, 26},
                               todo : SUBSET AllStatements]]
      BY <2>1, <2>2, <3>2 DEF SchemaTypes, DbType
    <3>4. db' \in DbType
      BY <2>4 DEF Did
    <3>. QED
      BY <2>1, <2>2, <3>3, <3>4 DEF SchemaTypes, DbType
  <2>7. Gains /\ RowsDiffer' /\ DbInv'
    BY <1>4, <2>1, <2>2, <2>3, <2>4, DidGains, DidDb
  <2>8. Scoped => Scoped'
    <3>1. CASE "scope" \in db'.idx
      BY <3>1 DEF Scoped
    <3>2. CASE "scope" \in db.idx /\ "scope" \notin db'.idx
      <4>1. s.do = "drop" /\ Schema!NameOf(s.on) = "scope"
        BY <2>4, <3>2 DEF Did, Schema!NameOf
      <4>2. s = Schema!Drop("scope_other")
        BY <2>3, <4>1, OfKind DEF Schema!NameOf, Stale
      <4>3. Schema!Create("scope") \in proc'[p].todo
        BY <2>2, <2>5, <4>1, <4>2, Kinds DEF TodoInv
      <4>. QED
        BY <1>2, <2>5, <4>3 DEF Scoped
    <3>3. ASSUME NEW q \in Procs, proc[q].up, Schema!Create("scope") \in proc[q].todo PROVE Scoped'
      <4>1. CASE q = p /\ s = Schema!Create("scope")
        BY <2>4, <4>1, Kinds DEF Did, Scoped
      <4>2. CASE q = p /\ s # Schema!Create("scope")
        BY <2>5, <3>3, <4>2 DEF Scoped
      <4>3. CASE q # p
        <5>1. proc'[q] = proc[q]
          BY <2>5, <4>3
        <5>. QED
          BY <3>3, <5>1 DEF Scoped
      <4>. QED
        BY <4>1, <4>2, <4>3
    <3>. QED
      BY <3>1, <3>2, <3>3 DEF Scoped
  <2>9. (severed \/ Scoped) => (severed \/ Scoped)'
    BY <2>1, <2>8
  <2>10. RecordedDone'
    <3>1. db'.applied = db.applied
      BY <2>4 DEF Did
    <3>. QED
      BY <2>2, <2>7, <2>9, <3>1, RecordedPersists
  <2>11. ASSUME NEW q \in Procs \ {p}
         PROVE  ~ rewritten' => \A t \in proc[q].todo : t.do = "delete_rows" => BestStays(t.on)'
    <3>1. TodoInv(proc[q].todo)
      BY DEF SchemaInv
    <3>2. ASSUME ~ rewritten', NEW t \in proc[q].todo, t.do = "delete_rows" PROVE BestStays(t.on)'
      <4>1. BestStays(t.on) /\ (s.do = "delete_rows" => BestStays(s.on))
        BY <2>1, <2>2, <3>1, <3>2 DEF TodoInv
      <4>. QED
        BY <2>2, <2>4, <4>1, BestOutlives
    <3>. QED
      BY <3>2
  <2>12. InPart(p)'
    BY <1>2, <2>2, <2>5 DEF InPart
  <2>. DEFINE todo == proc[p].todo \ {s}
              n    == proc[p].next
  <2>13. TodoInv(proc[p].todo)'
    <3>1. PICK T : T = proc[p].todo
      OBVIOUS
    <3>2. TodoInv(T \ {s})'
      BY <1>4, <2>1, <2>2, <2>3, <2>4, <3>1, DidTodo
    <3>. QED
      BY <2>5, <3>1, <3>2
  <2>14. Passed(proc[p].next, proc[p].todo)'
    <3>1. PICK T, m : T = proc[p].todo /\ m = proc[p].next
      OBVIOUS
    <3>2. Passed(m, T \ {s})'
      BY <2>2, <2>3, <2>4, <2>9, <3>1, DidPassed
    <3>. QED
      BY <2>5, <3>1, <3>2
  <2>15. ASSUME proc'[p].alone, proc'[p].last = 26 PROVE LoneInv(p)'
    <3>1. PICK T, m : T = proc[p].todo /\ m = proc[p].next
      OBVIOUS
    <3>2. Lone(m, T) /\ \A q \in Procs \ {p} : ~ proc[q].up
      BY <1>2, <2>5, <2>15, <3>1 DEF SchemaInv, LoneInv
    <3>3. Lone(m, T \ {s})'
      BY <2>1, <2>2, <2>3, <2>4, <3>1, <3>2, DidLone
    <3>. QED
      BY <2>5, <3>1, <3>2, <3>3 DEF LoneInv
  <2>16. \A q \in Procs \ {p} : ~ (proc[q].up /\ proc[q].alone /\ proc[q].last = 26)
    BY <1>2, OthersBeside
  <2>. QED
    BY <2>5, <2>6, <2>7, <2>9, <2>10, <2>11, <2>12, <2>13, <2>14, <2>15, <2>16, Assemble
<1>. QED
  BY <1>3, <1>4

LEMMA NextSchema ==
  ASSUME SchemaInv, [Schema!Next]_schemaVars
  PROVE  SchemaInv'
<1>1. CASE UNCHANGED schemaVars
  <2>1. /\ db' = db /\ proc' = proc /\ writes' = writes /\ severed' = severed
        /\ rewritten' = rewritten
    BY <1>1 DEF schemaVars
  <2>2. /\ SchemaTypes' /\ RowsDiffer' /\ DbInv' /\ RecordedDone'
    BY <2>1
       DEF SchemaInv, SchemaTypes, DbType, RowsDiffer, DbInv, Schema!OneRow, RecordedDone, PayRatesDone,
                ScopeDone, ScopeColumnsDone, Scoped, TraceDone
  <2>3. ASSUME NEW q \in Procs
        PROVE  /\ InPart(q)' = InPart(q)
               /\ TodoInv(proc[q].todo)' <=> TodoInv(proc[q].todo)
    BY <2>1 DEF InPart, TodoInv, BestStays
  <2>4. ASSUME NEW q \in Procs
        PROVE  Passed(proc[q].next, proc[q].todo)' <=> Passed(proc[q].next, proc[q].todo)
    BY <2>1 DEF Passed, Scoped, ScopeColumnsDone
  <2>5. ASSUME NEW q \in Procs PROVE LoneInv(q)' <=> LoneInv(q)
    BY <2>1 DEF LoneInv, Lone, TablesFirst, Doable, Schema!OneRow
  <2>. QED
    BY <2>1, <2>2, <2>3, <2>4, <2>5 DEF SchemaInv
<1>2. ASSUME NEW p \in Procs, Schema!Start(p, Schema!Whole) \/ Schema!Start(p, Schema!SyncOnly) PROVE SchemaInv'
  BY <1>2, StartKeeps
<1>3. ASSUME NEW p \in Procs,
             Schema!Ask(p) \/ Schema!LookUp(p) \/ Schema!Record(p) \/ Schema!Execute(p) \/ Schema!Finish(p) \/ Schema!Die(p)
      PROVE  SchemaInv'
  BY <1>3, AskKeeps, LookKeeps, RecordKeeps, ExecuteKeeps, FinishKeeps, DieKeeps
<1>4. ASSUME NEW r \in db.log, Schema!WriteLog(r) PROVE SchemaInv'
  BY <1>4, WriteKeeps
<1>. QED
  BY <1>1, <1>2, <1>3, <1>4 DEF Schema!Next

LEMMA SchemaSound ==
  ASSUME SchemaInv
  PROVE  Schema!RecordedIsInPlace /\ Schema!DataSurvives /\ Schema!NextStartSucceeds
<1>1. SchemaTypes /\ DbInv /\ RecordedDone
  BY DEF SchemaInv
<1>2. Schema!RecordedIsInPlace
  <2>1. ASSUME ~ severed, \A p \in Procs : ~ proc[p].up, NEW m \in db.applied PROVE Schema!InPlace(m)
    <3>1. ~ Scoped => "scope" \notin db.idx
      BY DEF Scoped
    <3>2. ScopeDone => "scope" \in db.idx
      BY <2>1 DEF ScopeDone, Scoped
    <3>3. CASE m = "payRates"
      BY <1>1, <2>1, <3>3 DEF RecordedDone, PayRatesDone, Schema!InPlace
    <3>4. CASE m = "scope"
      BY <1>1, <2>1, <3>2, <3>4 DEF RecordedDone, ScopeDone, ScopeColumnsDone, Stale, Schema!InPlace
    <3>5. CASE m = "trace"
      BY <1>1, <2>1, <3>5 DEF RecordedDone, TraceDone, Schema!InPlace
    <3>6. CASE m = "idempotency"
      BY <1>1, <2>1, <3>6 DEF RecordedDone, DbInv, Schema!InPlace
    <3>7. CASE m \notin {"payRates", "scope", "trace", "idempotency"}
      BY <3>7 DEF Schema!InPlace
    <3>. QED
      BY <3>3, <3>4, <3>5, <3>6, <3>7
  <2>. QED
    BY <2>1 DEF Schema!RecordedIsInPlace
<1>3. Schema!DataSurvives
  BY <1>1 DEF DbInv, Schema!DataSurvives
<1>4. Schema!NextStartSucceeds
  <2>1. ASSUME NEW p \in Procs, NEW s \in proc[p].todo, proc[p].alone,
               proc[p].last = Len(Schema!Bootstrap), Schema!Due(p, s)
        PROVE  Schema!Possible(s, db)
    <3>1. Len(Schema!Bootstrap) = 26
      BY BootstrapText
    <3>2. proc[p].up /\ s \in AllStatements
      BY <1>1 DEF SchemaInv, InPart, SchemaTypes, DbType
    <3>3. Lone(proc[p].next, proc[p].todo)
      BY <2>1, <3>1, <3>2 DEF SchemaInv, LoneInv
    <3>4. Doable(s, proc[p].todo)
      BY <3>3 DEF Lone
    <3>5. \A t \in proc[p].todo : ~ Schema!Before(t, s)
      BY <2>1 DEF Schema!Due
    <3>6. s.do = "add" => Schema!Possible(s, db)
      BY <3>4 DEF Doable, Schema!Possible
    <3>7. s.do = "drop_column" => Schema!Possible(s, db)
      BY <3>4 DEF Doable, Schema!Possible
    <3>8. s.do = "drop" => Schema!Possible(s, db)
      BY <3>4 DEF Doable, Schema!Possible
    <3>9. ASSUME s.do = "create" PROVE Schema!Possible(s, db)
      <4>1. /\ s = Schema!Create(s.on)
            /\ s.on \in Schema!ModelIndexes \cup {"history", "log_trace", "log_unique"}
        BY <3>2, <3>9, OfKind
      <4>2. Schema!Drop("scope_other") \notin proc[p].todo \/ s.on # "scope"
        BY <3>5, <4>1, OrderKeeps
      <4>3. Schema!ColumnsOf(s.on) \subseteq db.cols
        <5>1. CASE s.on \in Schema!ModelIndexes
          BY <3>4, <3>5, <3>9, <4>1, <5>1, OrderKeeps DEF Doable
        <5>2. CASE s.on \notin Schema!ModelIndexes
          <6>1. Schema!Update("tables") \notin proc[p].todo
            <7>1. s # Schema!Update("tables") /\ \A i \in Schema!ModelIndexes : s # Schema!Create(i)
              BY <3>9, <5>2, Kinds
            <7>. QED
              BY <3>3, <7>1 DEF Lone, TablesFirst
          <6>. QED
            BY <3>4, <3>9, <6>1 DEF Doable
        <5>. QED
          BY <5>1, <5>2
      <4>. QED
        BY <3>4, <3>9, <4>2, <4>3 DEF Doable, Schema!Possible
    <3>10. ASSUME s.do = "update" PROVE Schema!Possible(s, db)
      <4>1. /\ Schema!Before(Schema!Add("pay_rate"), Schema!Update("pay_rate"))
            /\ Schema!Before(Schema!Add("pay_type"), Schema!Update("pay_type"))
        BY OrderKeeps
      <4>2. s = Schema!Update(s.on)
        BY <3>2, <3>10, OfKind
      <4>. QED
        BY <3>4, <3>5, <3>10, <4>1, <4>2 DEF Doable, Schema!Possible
    <3>11. s.do = "delete_rows" => Schema!Possible(s, db)
      BY DEF Schema!Possible
    <3>. QED
      BY <3>2, <3>6, <3>7, <3>8, <3>9, <3>10, <3>11, OfKind
  <2>. QED
    BY <2>1 DEF Schema!NextStartSucceeds
<1>. QED
  BY <1>2, <1>3, <1>4

(***************************************************************************)
(* SchemaIsSound: what a migration that is recorded is for is in place,    *)
(* the rates and the outcome of a mutation survive, and a start that runs  *)
(* alone meets no error, for any number of processes that start, fail and  *)
(* die beside one another.                                                 *)
(***************************************************************************)
THEOREM SchemaStaysSound == SchemaAssumption /\ ServiceSpec => []SchemaIsSound
<1>. SUFFICES ASSUME SchemaAssumption PROVE ServiceSpec => []SchemaIsSound
  OBVIOUS
<1>. DEFINE I == part = "schema" => SchemaInv
<1>1. ServiceInit => I
  BY InitSchema DEF ServiceInit, Begins
<1>2. I /\ [ServiceNext]_serviceVars => I'
  BY OnePartRuns, NextSchema
<1>3. I => SchemaIsSound
  BY SchemaSound DEF SchemaIsSound
<1>. QED
  BY <1>1, <1>2, <1>3, PTL DEF ServiceSpec
=============================================================================
