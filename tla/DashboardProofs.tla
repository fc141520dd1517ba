--------------------------- MODULE DashboardProofs ---------------------------
(***************************************************************************)
(* Safety of the summaries of MCDashboard: the service knows the one batch *)
(* process it has, and a refresh that had the database to itself answers   *)
(* from its own run; for any number of processes, readers, changes of the  *)
(* payroll data, faults, signals and crashes.                              *)
(*                                                                         *)
(* Readers and the cache do not write what these are about; OwnInv is of   *)
(* the processes, TablesInv and RefreshInv are the types of the rest.      *)
(*                                                                         *)
(* Then the cache by itself, for any bound, keys and calls: what it still  *)
(* answers is what was used last.                                          *)
(***************************************************************************)
EXTENDS MCDashboard, SequenceTheorems, FiniteSetTheorems, WellFoundedInduction, TLAPS

None == Summaries!None
NoRun == Summaries!NoRun
Live(r) == Summaries!Live(r)
Statement(r) == Summaries!Statement(r)
Script(y) == Summaries!Script(y)
EarningsOf(y) == <<"earnings", y>>

\* The ids of processes stand for what isRunning holds, so none is None.
SlotsAssumption == None \notin RunIds

\* What follows is of the summaries; the cache and the panel share nothing
\* with them.
LEMMA SummariesStep ==
  ASSUME [Next]_vars
  PROVE  [Summaries!Next]_summariesVars
BY DEF Next, Only, Stays, Parts, vars

(***************************************************************************)
(* The batch, as far as the earnings are followed.                         *)
(***************************************************************************)
LEMMA ScriptOfEarnings ==
  ASSUME NEW y
  PROVE  Script(y) = << [op |-> "read",    on |-> "earnings", year |-> y],
                        [op |-> "destroy", on |-> "earnings", year |-> y],
                        [op |-> "create",  on |-> "earnings", year |-> y] >>
<1>. DEFINE statements == << [op |-> "read",    on |-> "earnings", year |-> y],
                             [op |-> "destroy", on |-> "earnings", year |-> y],
                             [op |-> "create",  on |-> "earnings", year |-> y] >>
            S == {statements[1], statements[2], statements[3]}
<1>1. statements \in Seq(S)
  OBVIOUS
<1>2. Script(y) = ((statements \o <<>>) \o <<>>) \o <<>>
  BY DEF Script, Summaries!Script, Summaries!For, Summaries!AggregateEarnings
<1>. HIDE DEF statements, S
<1>3. Script(y) = statements
  BY <1>1, <1>2, ConcatEmptySeq
<1>. QED
  BY <1>3 DEF statements

LEMMA TablesOfEarnings == Summaries!Tables = {EarningsOf(1), EarningsOf(2)}
<1>1. ASSUME NEW y
      PROVE  {<<s.on, s.year>> : s \in Summaries!ToSet(Script(y))} = {EarningsOf(y)}
  <2>1. Summaries!ToSet(Script(y)) =
          {[op |-> "read",    on |-> "earnings", year |-> y],
           [op |-> "destroy", on |-> "earnings", year |-> y],
           [op |-> "create",  on |-> "earnings", year |-> y]}
    BY ScriptOfEarnings DEF Summaries!ToSet
  <2>. QED
    BY <2>1 DEF EarningsOf
<1>2. Summaries!Tables = UNION {{<<s.on, s.year>> : s \in Summaries!ToSet(Script(y))} : y \in {1, 2}}
  BY DEF Summaries!Tables, Script
<1>. QED
  BY <1>1, <1>2

(***************************************************************************)
(* The processes.  The own ones are those that the service started since   *)
(* it last came up: it knows the one it has as active, and no other is.    *)
(***************************************************************************)
Process == [year : Nat, pc : Nat, seen : Nat,
            signal : {"none", "SIGTERM", "SIGKILL"}, orphan : BOOLEAN]

Own(r) == Live(r) /\ ~ run[r].orphan

OwnInv ==
  /\ run \in [RunIds -> Process]
  /\ \A r \in RunIds : Live(r) => run[r].pc # 0 /\ run[r].year \in {1, 2}
  /\ active \in RunIds \cup {None}
  /\ \A r \in RunIds : Own(r) <=> active = r

\* No process: a slot that is free.
LEMMA FreeSlot ==
  /\ NoRun = [year |-> 0, pc |-> 0, seen |-> 0, signal |-> "none", orphan |-> FALSE]
  /\ NoRun \in Process /\ NoRun.pc = 0
  /\ NoRun = Summaries!NoRun
BY DEF Summaries!NoRun, NoRun, Summaries!None, Process

\* A process that is started.
LEMMA NewProcess ==
  ASSUME NEW y \in {1, 2}
  PROVE  LET new == Summaries!NewRun(y) IN
         /\ new \in Process /\ new.pc = 1 /\ new.year = y /\ ~ new.orphan
         /\ new # NoRun
<1>1. Summaries!NewRun(y) = [NoRun EXCEPT !.year = y, !.pc = 1]
  BY DEF Summaries!NewRun, NoRun
<1>2. ~ NoRun.orphan
  BY FreeSlot
<1>. QED
  <2>1. PICK none : none = NoRun
    OBVIOUS
  <2>2. PICK new : new = Summaries!NewRun(y)
    OBVIOUS
  <2>3. new = [none EXCEPT !.year = y, !.pc = 1] /\ y \in Nat
    BY <1>1, <2>1, <2>2
  <2>4. none \in Process /\ none.pc = 0 /\ ~ none.orphan
    BY <2>1, <1>2, FreeSlot
  <2>5. new \in Process /\ new.year = y /\ new.pc = 1 /\ new.orphan = none.orphan
    BY ONLY <2>3, <2>4 DEF Process
  <2>. QED
    BY <2>1, <2>2, <2>4, <2>5

\* A step that leaves the processes alone.
LEMMA OwnRests ==
  ASSUME OwnInv, UNCHANGED <<run, active>>
  PROVE  OwnInv'
BY DEF OwnInv, Own, Live, Summaries!Live

\* A step of one process that goes on.
LEMMA OwnGoesOn ==
  ASSUME OwnInv, NEW r \in RunIds, Live(r), UNCHANGED active,
         NEW after \in Process, run' = [run EXCEPT ![r] = after],
         after.pc # 0, after.year = run[r].year, after.orphan = run[r].orphan
  PROVE  OwnInv'
<1>1. after # NoRun /\ NoRun.pc = 0
  BY DEF NoRun, Summaries!NoRun, Summaries!None
<1>2. /\ run' \in [RunIds -> Process]
      /\ \A q \in RunIds : run'[q] = IF q = r THEN after ELSE run[q]
  BY DEF OwnInv
<1>3. \A q \in RunIds : Live(q)' <=> Live(q)
  BY <1>1, <1>2 DEF Live, Summaries!Live, NoRun
<1>4. \A q \in RunIds : Own(q)' <=> Own(q)
  BY <1>2, <1>3 DEF Own
<1>. QED
  BY <1>2, <1>3, <1>4 DEF OwnInv

\* Starting a run, or finding one active.
LEMMA OwnStarts ==
  ASSUME SlotsAssumption, OwnInv, NEW y \in {1, 2}, Summaries!RunAggregation(y)
  PROVE  OwnInv'
<1>1. CASE UNCHANGED <<run, active>>
  BY <1>1, OwnRests
<1>2. CASE active = None
  <2>1. PICK r \in RunIds : /\ ~ Live(r)
                            /\ run' = [run EXCEPT ![r] = Summaries!NewRun(y)]
                            /\ active' = r
    BY <1>2 DEF Summaries!RunAggregation, Summaries!NextSlot, Summaries!LiveRuns, None, Live
  <2>. DEFINE new == Summaries!NewRun(y)
  <2>2. /\ new \in Process /\ new.pc = 1 /\ new.year = y /\ ~ new.orphan /\ new # NoRun
        /\ NoRun = Summaries!NoRun
    BY NewProcess, FreeSlot
  <2>. HIDE DEF new
  <2>3. /\ run' \in [RunIds -> Process]
        /\ \A q \in RunIds : run'[q] = IF q = r THEN new ELSE run[q]
    BY <2>1, <2>2 DEF OwnInv, new
  <2>4. \A q \in RunIds : Live(q)' <=> q = r \/ Live(q)
    BY <2>2, <2>3 DEF Live, Summaries!Live
  <2>5. \A q \in RunIds : ~ Own(q)
    BY <1>2 DEF OwnInv, SlotsAssumption
  <2>6. \A q \in RunIds : Own(q)' <=> q = r
    BY <2>2, <2>3, <2>4, <2>5 DEF Own
  <2>. QED
    BY <2>1, <2>2, <2>3, <2>4, <2>6 DEF OwnInv
<1>. QED
  BY <1>1, <1>2 DEF Summaries!RunAggregation, None

\* A process that closed.
LEMMA OwnCloses ==
  ASSUME SlotsAssumption, OwnInv, NEW r \in RunIds, Live(r), Summaries!ChildClosed(r)
  PROVE  OwnInv'
<1>1. /\ run' = [run EXCEPT ![r] = NoRun]
      /\ active' = IF active = r THEN None ELSE active
  BY DEF Summaries!ChildClosed, Summaries!process, NoRun, None
<1>2. NoRun \in Process /\ NoRun = Summaries!NoRun
  BY FreeSlot
<1>3. /\ run' \in [RunIds -> Process]
      /\ \A q \in RunIds : run'[q] = IF q = r THEN NoRun ELSE run[q]
  BY <1>1, <1>2 DEF OwnInv
<1>4. \A q \in RunIds : Live(q)' <=> q # r /\ Live(q)
  BY <1>2, <1>3 DEF Live, Summaries!Live
<1>5. \A q \in RunIds : Own(q)' <=> q # r /\ Own(q)
  BY <1>3, <1>4 DEF Own
<1>. QED
  BY <1>1, <1>3, <1>4, <1>5 DEF OwnInv, SlotsAssumption

\* The service goes: who was its own process is an orphan.
LEMMA OwnIsLeft ==
  ASSUME SlotsAssumption, OwnInv, Summaries!ServiceGone
  PROVE  OwnInv'
<1>1. /\ run' = [r \in RunIds |-> IF Live(r) THEN [run[r] EXCEPT !.orphan = TRUE] ELSE NoRun]
      /\ active' = None
  BY DEF Summaries!ServiceGone, Live, NoRun, None
<1>2. NoRun \in Process /\ NoRun.pc = 0 /\ NoRun = Summaries!NoRun
  BY FreeSlot
<1>3. \A r \in RunIds :
        /\ run'[r] \in Process
        /\ Live(r) => run'[r] = [run[r] EXCEPT !.orphan = TRUE]
        /\ ~ Live(r) => run'[r] = NoRun
  BY <1>1, <1>2 DEF OwnInv, Process
<1>4. ASSUME NEW r \in RunIds
      PROVE  /\ Live(r)' <=> Live(r)
             /\ Live(r) => /\ run'[r].pc = run[r].pc /\ run'[r].year = run[r].year
                           /\ run'[r].orphan
  <2>1. CASE Live(r)
    <3>1. run'[r] = [run[r] EXCEPT !.orphan = TRUE] /\ run[r] \in Process /\ run[r].pc # 0
      BY <1>3, <2>1 DEF OwnInv
    <3>2. run'[r].pc = run[r].pc /\ run'[r].year = run[r].year /\ run'[r].orphan
      BY <3>1 DEF Process
    <3>3. run'[r] # NoRun
      BY <1>2, <3>1, <3>2
    <3>. QED
      BY <2>1, <3>2, <3>3, <1>2 DEF Live, Summaries!Live
  <2>2. CASE ~ Live(r)
    BY <2>2, <1>2, <1>3 DEF Live, Summaries!Live
  <2>. QED
    BY <2>1, <2>2
<1>5. run' \in [RunIds -> Process]
  BY <1>1, <1>3
<1>. QED
  BY <1>1, <1>4, <1>5 DEF OwnInv, Own, SlotsAssumption

(***************************************************************************)
(* Requests that are under way were asked for a year of the model, at a    *)
(* version of the payroll data that is not newer than the present one.     *)
(***************************************************************************)
Refresh == [at : {"idle", "arrived", "waiting"}, year : Nat, since : Nat, alone : BOOLEAN]

RefreshInv ==
  /\ source \in Nat /\ refresh \in Refresh
  /\ refresh.at # "idle" => refresh.year \in {1, 2} /\ refresh.since <= source

\* No refresh under way.
LEMMA NoRefreshIs ==
  Summaries!NoRefresh \in Refresh /\ Summaries!NoRefresh.at = "idle"
BY DEF Summaries!NoRefresh, Summaries!None, Refresh

\* A step that leaves the refresh alone, or ends it.
LEMMA RefreshRests ==
  ASSUME RefreshInv, UNCHANGED source,
         refresh' = refresh \/ refresh' = Summaries!NoRefresh
  PROVE  RefreshInv'
BY NoRefreshIs DEF RefreshInv

\* A refresh that goes on to wait for a run.
LEMMA RefreshRunning ==
  ASSUME NEW f \in Refresh, NEW b \in BOOLEAN,
         NEW g, g = [f EXCEPT !.at = "waiting", !.alone = b]
  PROVE  g \in Refresh /\ g.at = "waiting" /\ g.year = f.year /\ g.since = f.since
           /\ g.alone = b
BY DEF Refresh

-----------------------------------------------------------------------------
(***************************************************************************)
(* The steps.  Those of a process, of the service, of its requests.        *)
(***************************************************************************)
ProcessStep(r) == Summaries!RunSteps(r) \/ Summaries!RunFails(r) \/ Summaries!RunDies(r)

ServiceStep ==
  \/ Summaries!Boot \/ Summaries!WarmUp \/ Summaries!Stop \/ Summaries!Escalate
  \/ Summaries!Exit \/ Summaries!Crash \/ Summaries!Tick

\* Readers, the cache and the payroll service.
ReaderStep ==
  \/ Summaries!SourceChanges
  \/ \E c \in Readers : \/ Summaries!ReadTable(c) \/ Summaries!Fill(c)
                        \/ \E t \in EarningsAsked : Summaries!Get(c, t)
  \/ Summaries!EntryAges \/ Summaries!Sweep

RefreshStep == Summaries!RefreshRuns \/ \E y \in {1, 2} : Summaries!RefreshArrives(y)

LEMMA StepsAre ==
  ASSUME Summaries!Next
  PROVE  \/ \E r \in RunIds : ProcessStep(r)
         \/ ServiceStep \/ ReaderStep \/ RefreshStep
BY DEF Summaries!Next, ProcessStep, ServiceStep, ReaderStep, RefreshStep

\* A process reads, writes a table, or closes.
LEMMA ProcessSteps ==
  ASSUME NEW r \in RunIds, ProcessStep(r)
  PROVE  /\ Live(r)
         /\ \/ Summaries!RunReads(r) \/ Summaries!RunDestroys(r) \/ Summaries!RunCreates(r)
            \/ Summaries!ChildClosed(r) /\ UNCHANGED <<source, table>>
BY DEF ProcessStep, Summaries!RunSteps, Summaries!RunFails, Summaries!RunDies,
       Summaries!RunReads, Summaries!RunDestroys, Summaries!RunCreates,
       Summaries!RunCollides, Summaries!RunEnds, Live

\* What the service does to its processes.
LEMMA ServiceSteps ==
  ASSUME ServiceStep
  PROVE  /\ UNCHANGED <<source, table>>
         /\ \/ UNCHANGED <<run, active, refresh>>
            \/ Summaries!RunAggregation(2) /\ UNCHANGED refresh
            \/ Summaries!ServiceGone
            \/ /\ UNCHANGED <<active, refresh>>
               /\ \E signal \in {"SIGTERM", "SIGKILL"} :
                    run' = [run EXCEPT ![active].signal = signal]
<1>. USE DEF Summaries!requests, Summaries!process
<1>1. CASE Summaries!Boot
  BY <1>1 DEF Summaries!Boot
<1>2. CASE Summaries!WarmUp
  BY <1>2 DEF Summaries!WarmUp
<1>3. CASE Summaries!Stop
  BY <1>3 DEF Summaries!Stop
<1>4. CASE Summaries!Escalate
  BY <1>4 DEF Summaries!Escalate
<1>5. CASE Summaries!Exit \/ Summaries!Crash
  BY <1>5 DEF Summaries!Exit, Summaries!Crash
<1>6. CASE Summaries!Tick
  BY <1>6 DEF Summaries!Tick
<1>. QED
  BY <1>1, <1>2, <1>3, <1>4, <1>5, <1>6 DEF ServiceStep

LEMMA NextOwn ==
  ASSUME SlotsAssumption, OwnInv, RefreshInv, [Summaries!Next]_summariesVars
  PROVE  OwnInv'
<1>1. ASSUME NEW r \in RunIds, ProcessStep(r) PROVE OwnInv'
  <2>1. Live(r) /\ run[r] \in Process /\ run[r].pc # 0
    BY <1>1, ProcessSteps DEF OwnInv
  <2>2. CASE Summaries!RunReads(r)
    <3>1. PICK read \in Process : read = [run[r] EXCEPT !.seen = source]
      BY <2>1 DEF Process, RefreshInv
    <3>2. read.pc = run[r].pc /\ read.year = run[r].year /\ read.orphan = run[r].orphan
      BY <2>1, <3>1 DEF Process
    <3>3. PICK after : after = [read EXCEPT !.pc = read.pc + 1]
      OBVIOUS
    <3>4. run' = [run EXCEPT ![r] = after] /\ UNCHANGED active
      BY <2>2, <3>1, <3>3 DEF Summaries!RunReads, Summaries!process
    <3>5. /\ after \in Process /\ after.pc = read.pc + 1 /\ after.year = read.year
          /\ after.orphan = read.orphan
      BY ONLY <3>3, read \in Process DEF Process
    <3>6. after.pc # 0
      BY <2>1, <3>2, <3>5 DEF Process
    <3>. QED
      BY <2>1, <3>2, <3>4, <3>5, <3>6, OwnGoesOn
  <2>3. CASE Summaries!RunDestroys(r) \/ Summaries!RunCreates(r)
    <3>. DEFINE after == [run[r] EXCEPT !.pc = @ + 1]
    <3>1. run' = [run EXCEPT ![r] = after] /\ UNCHANGED active
      BY <2>3 DEF Summaries!RunDestroys, Summaries!RunCreates, Summaries!process
    <3>2. after \in Process /\ after.pc # 0 /\ after.year = run[r].year /\ after.orphan = run[r].orphan
      BY <2>1 DEF Process
    <3>. QED
      BY <2>1, <3>1, <3>2, OwnGoesOn
  <2>. QED
    BY <1>1, <2>1, <2>2, <2>3, ProcessSteps, OwnCloses
<1>2. CASE ServiceStep
  <2>1. CASE UNCHANGED <<run, active, refresh>>
    BY <2>1, OwnRests
  <2>2. CASE Summaries!RunAggregation(2)
    BY <2>2, OwnStarts
  <2>3. CASE Summaries!ServiceGone
    BY <2>3, OwnIsLeft
  <2>4. ASSUME NEW signal \in {"SIGTERM", "SIGKILL"}, UNCHANGED active,
               run' = [run EXCEPT ![active].signal = signal]
        PROVE  OwnInv'
    <3>1. CASE active \in RunIds
      <4>. DEFINE after == [run[active] EXCEPT !.signal = signal]
      <4>1. Live(active) /\ run[active] \in Process /\ run[active].pc # 0
        BY <3>1 DEF OwnInv, Own
      <4>2. /\ after \in Process /\ after.pc # 0 /\ after.year = run[active].year
            /\ after.orphan = run[active].orphan
        BY <4>1 DEF Process
      <4>3. run' = [run EXCEPT ![active] = after]
        BY <2>4
      <4>. QED
        BY <2>4, <3>1, <4>1, <4>2, <4>3, OwnGoesOn
    <3>2. CASE active \notin RunIds
      BY <2>4, <3>2, OwnRests DEF OwnInv
    <3>. QED
      BY <3>1, <3>2
  <2>. QED
    BY <1>2, <2>1, <2>2, <2>3, <2>4, ServiceSteps
<1>3. CASE ReaderStep
  BY <1>3, OwnRests
  DEF ReaderStep, Summaries!SourceChanges, Summaries!ReadTable, Summaries!Fill, Summaries!Get,
      Summaries!EntryAges, Summaries!Sweep, Summaries!process
<1>4. CASE RefreshStep
  <2>1. CASE Summaries!RefreshRuns
    BY <2>1, OwnStarts DEF Summaries!RefreshRuns, RefreshInv
  <2>2. CASE \E y \in {1, 2} : Summaries!RefreshArrives(y)
    BY <2>2, OwnRests DEF Summaries!RefreshArrives, Summaries!process
  <2>. QED
    BY <1>4, <2>1, <2>2 DEF RefreshStep
<1>5. CASE UNCHANGED summariesVars
  BY <1>5, OwnRests DEF summariesVars
<1>. QED
  BY <1>1, <1>2, <1>3, <1>4, <1>5, StepsAre

LEMMA NextRefresh ==
  ASSUME RefreshInv, [Summaries!Next]_summariesVars
  PROVE  RefreshInv'
<1>1. ASSUME NEW r \in RunIds, ProcessStep(r) PROVE RefreshInv'
  BY <1>1, ProcessSteps, RefreshRests
  DEF Summaries!RunReads, Summaries!RunDestroys, Summaries!RunCreates, Summaries!ChildClosed,
      Summaries!requests
<1>2. CASE ServiceStep
  BY <1>2, ServiceSteps, RefreshRests DEF Summaries!ServiceGone
<1>3. CASE ReaderStep
  <2>1. CASE Summaries!SourceChanges
    BY <2>1 DEF Summaries!SourceChanges, Summaries!requests, RefreshInv, Refresh
  <2>2. CASE UNCHANGED <<source, refresh>>
    BY <2>2, RefreshRests
  <2>. QED
    BY <1>3, <2>1, <2>2
    DEF ReaderStep, Summaries!ReadTable, Summaries!Fill, Summaries!Get, Summaries!EntryAges,
        Summaries!Sweep
<1>4. CASE Summaries!RefreshRuns
  <2>1. PICK alone \in BOOLEAN : refresh' = [refresh EXCEPT !.at = "waiting", !.alone = alone]
    BY <1>4 DEF Summaries!RefreshRuns
  <2>2. refresh' \in Refresh /\ refresh'.year = refresh.year /\ refresh'.since = refresh.since
    BY <2>1, RefreshRunning DEF RefreshInv
  <2>. QED
    BY <1>4, <2>2 DEF Summaries!RefreshRuns, RefreshInv
<1>5. ASSUME NEW y \in {1, 2}, Summaries!RefreshArrives(y) PROVE RefreshInv'
  <2>1. PICK none \in Refresh : none = Summaries!NoRefresh
    BY NoRefreshIs
  <2>2. refresh' = [none EXCEPT !.at = "arrived", !.year = y, !.since = source] /\ UNCHANGED source
    BY <1>5, <2>1 DEF Summaries!RefreshArrives
  <2>3. PICK asked : asked = [none EXCEPT !.at = "arrived", !.year = y, !.since = source]
    OBVIOUS
  <2>4. asked \in Refresh /\ asked.year = y /\ asked.since = source
    <3>1. source \in Nat
      BY DEF RefreshInv
    <3>. QED
      BY ONLY <2>3, <3>1, none \in Refresh, y \in Nat DEF Refresh
  <2>. QED
    <3>1. refresh' = asked /\ source' = source /\ source \in Nat
      BY <2>2, <2>3 DEF RefreshInv
    <3>2. /\ source' \in Nat /\ refresh' \in Refresh
          /\ refresh'.year \in {1, 2} /\ refresh'.since <= source'
      BY <3>1, <2>4
    <3>. QED
      BY <3>2 DEF RefreshInv
<1>6. CASE UNCHANGED summariesVars
  BY <1>6, RefreshRests DEF summariesVars
<1>. QED
  BY <1>1, <1>2, <1>3, <1>4, <1>5, <1>6, StepsAre DEF RefreshStep

-----------------------------------------------------------------------------
(***************************************************************************)
(* A refresh that is alone: its run is the only process there is, and has  *)
(* read, and then written, what is as new as the request.                  *)
(***************************************************************************)
Tables == {EarningsOf(1), EarningsOf(2)}

TablesInv == table \in [Tables -> Nat]

Alone == refresh.at = "waiting" /\ refresh.alone

LoneInv ==
  Alone =>
    /\ active \in RunIds /\ \A r \in RunIds : Live(r) => r = active
    /\ run[active].year = refresh.year
    /\ run[active].pc > 1 => run[active].seen >= refresh.since
    /\ run[active].pc > 3 => table[EarningsOf(refresh.year)] >= refresh.since

\* Which statement a process is at.
LEMMA StatementsInOrder ==
  ASSUME OwnInv, NEW r \in RunIds, Live(r), ~ Summaries!Finished(r)
  PROVE  /\ run[r].pc \in 1 .. 3
         /\ Statement(r).on = "earnings" /\ Statement(r).year = run[r].year
         /\ Statement(r).op = "read" <=> run[r].pc = 1
         /\ Statement(r).op = "destroy" <=> run[r].pc = 2
         /\ Statement(r).op = "create" <=> run[r].pc = 3
<1>. DEFINE y == run[r].year
            pc == run[r].pc
<1>1. Script(y) = << [op |-> "read",    on |-> "earnings", year |-> y],
                     [op |-> "destroy", on |-> "earnings", year |-> y],
                     [op |-> "create",  on |-> "earnings", year |-> y] >>
  BY ScriptOfEarnings
<1>2. pc \in Nat /\ pc # 0
  BY DEF OwnInv, Process
<1>3. Len(Script(y)) = 3
  BY <1>1
<1>4. pc \in 1 .. 3
  BY <1>2, <1>3 DEF Summaries!Finished, Script
<1>5. Statement(r) = Script(y)[pc]
  BY DEF Statement, Summaries!Statement, Script
<1>. HIDE DEF y, pc
<1>6. CASE pc = 1
  BY <1>1, <1>4, <1>5, <1>6 DEF y, pc
<1>7. CASE pc = 2
  BY <1>1, <1>4, <1>5, <1>7 DEF y, pc
<1>8. CASE pc = 3
  BY <1>1, <1>4, <1>5, <1>8 DEF y, pc
<1>. QED
  BY <1>4, <1>6, <1>7, <1>8

\* The read takes the version of the payroll data of now.
LEMMA ReadEffect ==
  ASSUME OwnInv, RefreshInv, NEW r \in RunIds, Summaries!RunReads(r)
  PROVE  /\ UNCHANGED <<active, refresh, table>> /\ run[r].pc = 1
         /\ run'[r].pc = 2 /\ run'[r].year = run[r].year /\ run'[r].seen = source
         /\ \A q \in RunIds : q # r => run'[q] = run[q]
<1>1. /\ Live(r) /\ run[r].pc = 1 /\ run[r] \in Process
      /\ UNCHANGED <<active, refresh, table>>
  BY StatementsInOrder
  DEF Summaries!RunReads, Summaries!process, Summaries!requests, Live, Statement, OwnInv
<1>2. run' = [run EXCEPT ![r] = [run[r] EXCEPT !.seen = source, !.pc = @ + 1]]
  BY DEF Summaries!RunReads
<1>3. PICK read \in Process : read = [run[r] EXCEPT !.seen = source]
  BY <1>1 DEF Process, RefreshInv
<1>4. read.pc = 1 /\ read.year = run[r].year /\ read.seen = source
  BY <1>1, <1>3 DEF Process
<1>5. PICK after : after = [read EXCEPT !.pc = read.pc + 1]
  OBVIOUS
<1>6. after.pc = 2 /\ after.year = run[r].year /\ after.seen = source
  BY <1>4, <1>5 DEF Process
<1>7. run' = [run EXCEPT ![r] = after]
  BY <1>2, <1>3, <1>5
<1>. QED
  BY <1>1, <1>6, <1>7 DEF OwnInv

\* The two statements that write empty a table and fill it with what was read.
LEMMA WriteEffect ==
  ASSUME OwnInv, NEW r \in RunIds, Summaries!RunDestroys(r) \/ Summaries!RunCreates(r)
  PROVE  /\ Live(r) /\ UNCHANGED <<active, refresh>>
         /\ run'[r].pc = run[r].pc + 1
         /\ run'[r].year = run[r].year /\ run'[r].seen = run[r].seen
         /\ \A q \in RunIds : q # r => run'[q] = run[q]
         /\ \/ run[r].pc = 2 /\ table' = [table EXCEPT ![EarningsOf(run[r].year)] = 0]
            \/ run[r].pc = 3 /\ table' = [table EXCEPT ![EarningsOf(run[r].year)] = run[r].seen]
<1>1. Live(r) /\ ~ Summaries!Finished(r) /\ UNCHANGED <<active, refresh>>
  BY DEF Summaries!RunDestroys, Summaries!RunCreates, Summaries!process, Summaries!requests, Live
<1>2. run' = [run EXCEPT ![r] = [run[r] EXCEPT !.pc = @ + 1]] /\ run[r] \in Process
  BY DEF Summaries!RunDestroys, Summaries!RunCreates, OwnInv
<1>3. /\ run'[r].pc = run[r].pc + 1
      /\ run'[r].year = run[r].year /\ run'[r].seen = run[r].seen
      /\ \A q \in RunIds : q # r => run'[q] = run[q]
  BY <1>2 DEF OwnInv, Process
<1>4. <<Statement(r).on, Statement(r).year>> = EarningsOf(run[r].year)
  BY <1>1, StatementsInOrder DEF EarningsOf
<1>5. CASE Summaries!RunDestroys(r)
  BY <1>1, <1>3, <1>4, <1>5, StatementsInOrder
  DEF Summaries!RunDestroys, Summaries!Missing, Statement
<1>6. CASE Summaries!RunCreates(r)
  BY <1>1, <1>3, <1>4, <1>6, StatementsInOrder DEF Summaries!RunCreates, Statement
<1>. QED
  BY <1>1, <1>3, <1>5, <1>6

LEMMA NextTables ==
  ASSUME OwnInv, RefreshInv, TablesInv, [Summaries!Next]_summariesVars
  PROVE  TablesInv'
<1>1. ASSUME NEW r \in RunIds, ProcessStep(r) PROVE TablesInv'
  <2>1. CASE Summaries!RunDestroys(r) \/ Summaries!RunCreates(r)
    <3>1. run[r].seen \in Nat
      BY DEF OwnInv, Process
    <3>2. \/ table' = [table EXCEPT ![EarningsOf(run[r].year)] = 0]
          \/ table' = [table EXCEPT ![EarningsOf(run[r].year)] = run[r].seen]
      BY <2>1, WriteEffect
    <3>. QED
      BY <3>1, <3>2 DEF TablesInv
  <2>2. CASE UNCHANGED table
    BY <2>2 DEF TablesInv
  <2>. QED
    BY <1>1, <2>1, <2>2, ProcessSteps DEF Summaries!RunReads
<1>2. CASE UNCHANGED table
  BY <1>2 DEF TablesInv
<1>. QED
  BY <1>1, <1>2, StepsAre, ServiceSteps
  DEF ReaderStep, RefreshStep, Summaries!SourceChanges, Summaries!ReadTable, Summaries!Fill,
      Summaries!Get, Summaries!EntryAges, Summaries!Sweep, Summaries!RefreshRuns,
      Summaries!RefreshArrives, summariesVars

\* The run of a refresh that is alone goes on.
LEMMA LoneGoesOn ==
  ASSUME LoneInv, Alone, UNCHANGED <<active, refresh>>,
         \A r \in RunIds : r # active => run'[r] = run[r],
         run'[active].year = run[active].year,
         run'[active].pc > 1 => run'[active].seen >= refresh.since,
         run'[active].pc > 3 => table'[EarningsOf(refresh.year)] >= refresh.since
  PROVE  LoneInv'
BY DEF LoneInv, Live, Summaries!Live, Alone

LEMMA LoneRests ==
  ASSUME LoneInv, UNCHANGED <<run, active, refresh, table>>
  PROVE  LoneInv'
BY DEF LoneInv, Live, Summaries!Live, Alone

LEMMA NotAlone ==
  ASSUME refresh'.at # "waiting"
  PROVE  LoneInv'
BY DEF LoneInv, Alone

\* A refresh that finds no process starts its own.
LEMMA LoneStarts ==
  ASSUME SlotsAssumption, OwnInv, RefreshInv, Summaries!RefreshRuns
  PROVE  LoneInv'
<1>. SUFFICES ASSUME Alone' PROVE LoneInv'
  BY DEF LoneInv
<1>1. PICK alone \in BOOLEAN : /\ refresh' = [refresh EXCEPT !.at = "waiting", !.alone = alone]
                               /\ alone = (Summaries!LiveRuns = {})
  BY DEF Summaries!RefreshRuns
<1>2. /\ refresh'.year = refresh.year /\ refresh.year \in {1, 2} /\ refresh'.since = refresh.since
      /\ refresh'.alone = alone
  BY <1>1, RefreshRunning DEF RefreshInv, Summaries!RefreshRuns
<1>3. \A r \in RunIds : ~ Live(r)
  BY <1>1, <1>2 DEF Alone, Live, Summaries!LiveRuns
<1>4. active = None
  BY <1>3 DEF OwnInv, Own
<1>5. PICK r \in RunIds : /\ run' = [run EXCEPT ![r] = Summaries!NewRun(refresh.year)]
                          /\ active' = r
  BY <1>4 DEF Summaries!RefreshRuns, Summaries!RunAggregation, Summaries!NextSlot, None
<1>6. run'[r] = Summaries!NewRun(refresh.year) /\ \A q \in RunIds : q # r => run'[q] = run[q]
  BY <1>5 DEF OwnInv
<1>7. run'[r].year = refresh.year /\ run'[r].pc = 1
  BY <1>2, <1>6, NewProcess
<1>. QED
  BY <1>2, <1>3, <1>5, <1>6, <1>7 DEF LoneInv, Live, Summaries!Live

LEMMA NextLone ==
  ASSUME SlotsAssumption, OwnInv, RefreshInv, TablesInv, LoneInv,
         [Summaries!Next]_summariesVars
  PROVE  LoneInv'
<1>1. ASSUME NEW r \in RunIds, ProcessStep(r) PROVE LoneInv'
  <2>. SUFFICES ASSUME Alone' PROVE LoneInv'
    BY DEF LoneInv
  <2>1. Live(r)
    BY <1>1, ProcessSteps
  <2>2. CASE Summaries!ChildClosed(r)
    <3>1. refresh' = refresh \/ refresh' = Summaries!NoRefresh
      BY <2>2 DEF Summaries!ChildClosed
    <3>2. Alone /\ active = r
      BY <2>1, <3>1, NoRefreshIs DEF Alone, LoneInv
    <3>3. refresh' = Summaries!NoRefresh
      BY <2>2, <3>2 DEF Summaries!ChildClosed, Alone
    <3>. QED
      BY <3>3, NoRefreshIs, NotAlone
  <2>3. CASE Summaries!RunReads(r)
    <3>1. Alone /\ active = r /\ refresh.since <= source
      BY <2>1, <2>3, ReadEffect DEF Alone, LoneInv, RefreshInv
    <3>. QED
      BY <2>3, <3>1, ReadEffect, LoneGoesOn DEF RefreshInv, Refresh
  <2>4. CASE Summaries!RunDestroys(r) \/ Summaries!RunCreates(r)
    <3>1. Alone /\ active = r
      BY <2>1, <2>4, WriteEffect DEF Alone, LoneInv
    <3>2. run[r].pc \in {2, 3} /\ run[r].seen >= refresh.since
      BY <2>4, <3>1, WriteEffect DEF LoneInv
    <3>3. run[r].pc = 3 => table'[EarningsOf(refresh.year)] = run[r].seen
      <4>1. run[r].year = refresh.year /\ EarningsOf(refresh.year) \in Tables
        BY <2>1, <3>1 DEF LoneInv, OwnInv, Tables
      <4>2. run[r].pc = 3 => table' = [table EXCEPT ![EarningsOf(refresh.year)] = run[r].seen]
        BY <2>4, <4>1, WriteEffect
      <4>. QED
        BY <4>1, <4>2 DEF TablesInv
    <3>. QED
      BY <2>4, <3>1, <3>2, <3>3, WriteEffect, LoneGoesOn
  <2>. QED
    BY <1>1, <2>2, <2>3, <2>4, ProcessSteps
<1>2. CASE ServiceStep
  <2>1. CASE UNCHANGED <<run, active, refresh>>
    BY <1>2, <2>1, ServiceSteps, LoneRests
  <2>2. CASE Summaries!RunAggregation(2) /\ UNCHANGED refresh
    <3>1. CASE Alone
      <4>1. active # None
        BY <3>1 DEF LoneInv, SlotsAssumption
      <4>. QED
        BY <1>2, <2>2, <4>1, ServiceSteps, LoneRests DEF Summaries!RunAggregation, None
    <3>2. CASE ~ Alone
      BY <2>2, <3>2 DEF LoneInv, Alone
    <3>. QED
      BY <3>1, <3>2
  <2>3. CASE Summaries!ServiceGone
    BY <2>3, NoRefreshIs, NotAlone DEF Summaries!ServiceGone
  <2>4. ASSUME NEW signal \in {"SIGTERM", "SIGKILL"}, UNCHANGED <<active, refresh>>,
               run' = [run EXCEPT ![active].signal = signal]
        PROVE  LoneInv'
    <3>. SUFFICES ASSUME Alone PROVE LoneInv'
      BY <2>4 DEF LoneInv, Alone
    <3>1. active \in RunIds /\ run[active] \in Process
      BY DEF LoneInv, OwnInv
    <3>2. /\ run'[active] = [run[active] EXCEPT !.signal = signal]
          /\ \A r \in RunIds : r # active => run'[r] = run[r]
      BY <2>4, <3>1 DEF OwnInv
    <3>3. /\ run'[active].year = run[active].year /\ run'[active].pc = run[active].pc
          /\ run'[active].seen = run[active].seen
      BY <3>1, <3>2 DEF Process
    <3>. QED
      BY <1>2, <2>4, <3>2, <3>3, ServiceSteps, LoneGoesOn DEF LoneInv
  <2>. QED
    BY <1>2, <2>1, <2>2, <2>3, <2>4, ServiceSteps
<1>3. CASE ReaderStep
  BY <1>3, LoneRests
  DEF ReaderStep, Summaries!SourceChanges, Summaries!ReadTable, Summaries!Fill, Summaries!Get,
      Summaries!EntryAges, Summaries!Sweep, Summaries!process, Summaries!requests
<1>4. CASE Summaries!RefreshRuns
  BY <1>4, LoneStarts
<1>5. ASSUME NEW y \in {1, 2}, Summaries!RefreshArrives(y) PROVE LoneInv'
  <2>1. PICK none \in Refresh : none = Summaries!NoRefresh
    BY NoRefreshIs
  <2>2. refresh' = [[none EXCEPT !.at = "arrived"] EXCEPT !.year = y, !.since = source]
    BY <1>5, <2>1 DEF Summaries!RefreshArrives
  <2>3. refresh'.at = "arrived"
    BY <2>2 DEF Refresh
  <2>. QED
    BY <2>3, NotAlone
<1>6. CASE UNCHANGED summariesVars
  BY <1>6, LoneRests DEF summariesVars
<1>. QED
  BY <1>1, <1>2, <1>3, <1>4, <1>5, <1>6, StepsAre DEF RefreshStep

-----------------------------------------------------------------------------
(***************************************************************************)
(* The theorems.                                                           *)
(***************************************************************************)
SummariesInv == OwnInv /\ RefreshInv /\ TablesInv /\ LoneInv

LEMMA SummariesInvariance == SlotsAssumption => (FairSpec => []SummariesInv)
<1>. SUFFICES ASSUME SlotsAssumption PROVE FairSpec => []SummariesInv
  OBVIOUS
<1>1. Init => SummariesInv
  <2>. SUFFICES ASSUME Init PROVE SummariesInv
    OBVIOUS
  <2>1. OwnInv
    <3>1. run = [r \in RunIds |-> NoRun] /\ active = None
      BY DEF Init, Summaries!Init, NoRun, None
    <3>. QED
      BY <3>1, FreeSlot DEF OwnInv, Own, Live, Summaries!Live, SlotsAssumption
  <2>2. refresh = Summaries!NoRefresh /\ source = 1
    BY DEF Init, Summaries!Init
  <2>3. TablesInv
    BY TablesOfEarnings DEF Init, Summaries!Init, TablesInv, Tables, Summaries!Missing
  <2>. QED
    BY <2>1, <2>2, <2>3, NoRefreshIs DEF SummariesInv, RefreshInv, LoneInv, Alone
<1>2. SummariesInv /\ [Next]_vars => SummariesInv'
  BY SummariesStep, NextOwn, NextRefresh, NextTables, NextLone DEF SummariesInv
<1>. QED
  BY <1>1, <1>2, PTL DEF FairSpec

(***************************************************************************)
(* OneOwnRun for any number of processes: however the interval, the        *)
(* warm-up, refreshes, stops and crashes cross, the service has at most    *)
(* one process of its own, and knows it.                                   *)
(***************************************************************************)
THEOREM ServiceKnowsItsRun == SlotsAssumption => (FairSpec => []OneOwnRun)
<1>. SUFFICES ASSUME SlotsAssumption PROVE FairSpec => []OneOwnRun
  OBVIOUS
<1>1. SummariesInv => OneOwnRun
  <2>. SUFFICES ASSUME SummariesInv PROVE Summaries!OneOwnRun
    BY DEF OneOwnRun
  <2>1. {r \in Summaries!LiveRuns : ~ run[r].orphan} = {r \in RunIds : Own(r)}
    BY DEF Summaries!LiveRuns, Own, Live
  <2>2. \A r \in RunIds : Own(r) <=> active = r
    BY DEF SummariesInv, OwnInv
  <2>3. active \in RunIds \cup {None}
    BY DEF SummariesInv, OwnInv
  <2>. QED
    BY <2>1, <2>2, <2>3 DEF Summaries!OneOwnRun, SlotsAssumption, None
<1>. QED
  BY <1>1, SummariesInvariance, PTL

(***************************************************************************)
(* RefreshSeesItsRun: what a refresh answers after its own run is at least *)
(* as new as the request, if no other process was alive when it began -    *)
(* also when the run was started beside a stop, and whatever the payroll   *)
(* service changed meanwhile.                                              *)
(***************************************************************************)
THEOREM RefreshIsFresh == SlotsAssumption => (FairSpec => RefreshSeesItsRun)
<1>. SUFFICES ASSUME SlotsAssumption PROVE FairSpec => RefreshSeesItsRun
  OBVIOUS
<1>. DEFINE Answered ==
       /\ refresh.at = "waiting" /\ refresh.alone
       /\ refresh' = Summaries!NoRefresh /\ svc' = svc
       /\ Summaries!Finished(active)
       => \A s \in Summaries!ToSet(Summaries!Script(refresh.year)) :
            table[<<s.on, s.year>>] >= refresh.since
<1>1. SummariesInv => Answered
  <2>. SUFFICES ASSUME SummariesInv, Alone, Summaries!Finished(active),
                       NEW s \in Summaries!ToSet(Script(refresh.year))
                PROVE  table[<<s.on, s.year>>] >= refresh.since
    BY DEF Alone, Script
  <2>1. run[active].year = refresh.year /\ run[active].pc \in Nat
    BY DEF SummariesInv, LoneInv, OwnInv, Process
  <2>2. Len(Script(refresh.year)) = 3
    BY ScriptOfEarnings
  <2>3. run[active].pc > 3
    BY <2>1, <2>2 DEF Summaries!Finished, Script
  <2>4. s.on = "earnings" /\ s.year = refresh.year
    BY ScriptOfEarnings DEF Summaries!ToSet
  <2>. QED
    BY <2>3, <2>4 DEF SummariesInv, LoneInv, EarningsOf
<1>2. SummariesInv => [Answered]_(Summaries!vars)
  BY <1>1
<1>. HIDE DEF Answered
<1>3. FairSpec => [][Answered]_(Summaries!vars)
  BY <1>2, SummariesInvariance, PTL
<1>. QED
  BY <1>3, PTL DEF RefreshSeesItsRun, Summaries!RefreshSeesItsRun, Answered

(***************************************************************************)
(* The cache.  Its entries that are not old stand in the order of the keys *)
(* in the history, and are its last ones; taking elements out of a         *)
(* sequence leaves the order of the others, which Picking says of the      *)
(* operator that does it.                                                  *)
(***************************************************************************)
CacheAssumption == CacheEntries \in Nat \ {0}

\* A set of numbers has a smallest one.
LEMMA Smallest ==
  ASSUME NEW T, T \subseteq Nat, T # {}
  PROVE  \E x \in T : \A y \in T : x <= y
<1>. DEFINE R == {ss \in Nat \X Nat : ss[1] < ss[2]}
<1>1. IsWellFoundedOn(R, Nat)
  BY NatLessThanWellFounded DEF OpToRel
<1>2. \A x, y \in Nat : x < y => <<x, y>> \in R
  OBVIOUS
<1>. HIDE DEF R
<1>3. PICK x \in T : \A y \in T : ~ (<<y, x>> \in R)
  BY <1>1, WFMin
<1>4. ASSUME NEW y \in T PROVE x <= y
  <2>1. x \in Nat /\ y \in Nat
    OBVIOUS
  <2>2. ~ (y < x)
    BY <1>2, <1>3, <2>1
  <2>. QED
    BY <2>1, <2>2
<1>. QED
  BY <1>4

\* Places of a sequence are no more than its length, and as many only if
\* they are all.
LEMMA PlacesAreFew ==
  ASSUME NEW L \in Nat, NEW P \in SUBSET (1..L)
  PROVE  Cardinality(P) <= L /\ (Cardinality(P) = L => P = 1..L)
<1>1. IsFiniteSet(1..L) /\ Cardinality(1..L) = L
  BY FS_Interval
<1>. QED
  BY <1>1, FS_Subset

\* The rank of i in P.
Rank(P, i) == Cardinality({j \in P : j <= i})

\* Ranks rise by one at the elements of P, and nowhere else.
LEMMA RankRises ==
  ASSUME NEW L \in Nat, NEW P \in SUBSET (1..L)
  PROVE  /\ IsFiniteSet(P) /\ Cardinality(P) \in Nat /\ Cardinality(P) <= L
         /\ \A i \in 0..L : Rank(P, i) \in Nat
         /\ Rank(P, 0) = 0 /\ Rank(P, L) = Cardinality(P)
         /\ \A i \in 1..L : Rank(P, i) = Rank(P, i - 1) + (IF i \in P THEN 1 ELSE 0)
<1>1. IsFiniteSet(1..L) /\ Cardinality(1..L) = L
  BY FS_Interval
<1>2. IsFiniteSet(P) /\ Cardinality(P) \in Nat /\ Cardinality(P) <= L
  BY <1>1, FS_Subset, FS_CardinalityType
<1>3. \A i : IsFiniteSet({j \in P : j <= i})
  BY <1>2, FS_Subset
<1>4. \A i \in 0..L : Rank(P, i) \in Nat
  BY <1>3, FS_CardinalityType DEF Rank
<1>. P \subseteq Nat /\ \A j \in P : j \in Nat /\ 1 <= j /\ j <= L
  OBVIOUS
<1>5. Rank(P, 0) = 0
  <2>1. {j \in P : j <= 0} = {}
    <3>1. \A j \in P : ~ (j <= 0)
      OBVIOUS
    <3>. QED
      BY <3>1
  <2>. QED
    BY <2>1, FS_EmptySet DEF Rank
<1>6. Rank(P, L) = Cardinality(P)
  <2>1. {j \in P : j <= L} = P
    OBVIOUS
  <2>. QED
    BY <2>1 DEF Rank
<1>7. ASSUME NEW i \in 1..L
      PROVE  Rank(P, i) = Rank(P, i - 1) + (IF i \in P THEN 1 ELSE 0)
  <2>. DEFINE B == {j \in P : j <= i - 1}
  <2>1. CASE i \in P
    <3>1. {j \in P : j <= i} = B \cup {i}
      <4>1. \A j \in P : j <= i <=> j <= i - 1 \/ j = i
        OBVIOUS
      <4>. QED
        BY <2>1, <4>1
    <3>2. i \notin B
      OBVIOUS
    <3>3. IsFiniteSet(B)
      BY <1>3
    <3>. HIDE DEF B
    <3>4. Cardinality(B \cup {i}) = Cardinality(B) + 1
      BY <3>2, <3>3, FS_AddElement
    <3>5. Rank(P, i) = Cardinality(B) + 1
      BY <3>1, <3>4 DEF Rank
    <3>6. Rank(P, i - 1) = Cardinality(B)
      BY DEF Rank, B
    <3>. QED
      BY <2>1, <3>5, <3>6
  <2>2. CASE i \notin P
    <3>1. {j \in P : j <= i} = B
      <4>1. \A j \in P : j <= i <=> j <= i - 1
        BY <2>2
      <4>. QED
        BY <4>1
    <3>2. Rank(P, i) = Rank(P, i - 1)
      BY <3>1 DEF Rank
    <3>3. Rank(P, i - 1) \in Nat
      BY <1>4
    <3>. QED
      BY <2>2, <3>2, <3>3
  <2>. QED
    BY <2>1, <2>2
<1>. QED
  BY <1>2, <1>4, <1>5, <1>6, <1>7

\* A rank is never lower at a later place, and each up to the number of
\* elements is that of one of them.
LEMMA RankOfOne ==
  ASSUME NEW L \in Nat, NEW P \in SUBSET (1..L), NEW n \in 1..Cardinality(P)
  PROVE  \E i \in P : Rank(P, i) = n
<1>. DEFINE T == {i \in 0..L : Rank(P, i) >= n}
<1>1. n \in Nat /\ n > 0
  BY RankRises
<1>2. L \in T
  BY RankRises, <1>1
<1>3. T \subseteq Nat /\ T # {}
  BY <1>2
<1>4. PICK i \in T : \A y \in T : i <= y
  BY <1>3, Smallest
<1>5. i \in 1..L
  <2>1. 0 \notin T
    BY RankRises, <1>1
  <2>. QED
    BY <2>1
<1>6. Rank(P, i - 1) \in Nat /\ Rank(P, i) \in Nat /\ Rank(P, i) >= n
  BY <1>5, RankRises
<1>7. ~ (Rank(P, i - 1) >= n)
  <2>1. i - 1 \in 0..L /\ ~ (i <= i - 1)
    BY <1>5
  <2>. QED
    BY <1>4, <2>1
<1>8. Rank(P, i) = Rank(P, i - 1) + (IF i \in P THEN 1 ELSE 0)
  BY <1>5, RankRises
<1>9. i \in P /\ Rank(P, i) = n
  BY ONLY <1>1, <1>6, <1>7, <1>8
<1>. QED
  BY <1>9

LEMMA RankFollowsPlace ==
  ASSUME NEW L \in Nat, NEW P \in SUBSET (1..L), NEW i \in P, NEW k \in P, i < k
  PROVE  Rank(P, i) < Rank(P, k)
<1>1. i \in 1..L /\ k \in 1..L /\ k - 1 \in 0..L /\ i <= k - 1
  OBVIOUS
<1>2. {j \in P : j <= i} \in SUBSET {j \in P : j <= k - 1}
  <2>1. \A j \in P : j \in Nat
    OBVIOUS
  <2>2. \A j \in P : j <= i => j <= k - 1
    BY <1>1, <2>1
  <2>. QED
    BY <2>2
<1>3. IsFiniteSet({j \in P : j <= k - 1})
  BY RankRises, FS_Subset
<1>4. Rank(P, i) <= Rank(P, k - 1)
  BY <1>2, <1>3, FS_Subset DEF Rank
<1>5. Rank(P, k) = Rank(P, k - 1) + 1
  BY <1>1, RankRises
<1>6. Rank(P, i) \in Nat /\ Rank(P, k - 1) \in Nat
  <2>1. i \in 0..L
    BY <1>1
  <2>. QED
    BY <1>1, <2>1, RankRises
<1>. QED
  BY <1>4, <1>5, <1>6

\* Of the sequence t: it is s at the places h, which rise.
Order(h, t, s, P) ==
  /\ Cardinality(P) \in Nat /\ Len(t) = Cardinality(P)
  /\ h \in [1..Len(t) -> P]
  /\ \A m, n \in 1..Len(t) : m < n => h[m] < h[n]
  /\ \A i \in P : \E n \in 1..Len(t) : h[n] = i
  /\ \A n \in 1..Len(t) : t[n] = s[h[n]]

\* What Picked does: the elements at the places P, each once, in order.
LEMMA Picking ==
  ASSUME NEW S, NEW s \in Seq(S), NEW P \in SUBSET (1..Len(s))
  PROVE  /\ Cache!Picked(s, P) \in Seq(S)
         /\ \E h : Order(h, Cache!Picked(s, P), s, P)
<1>. DEFINE c == Cardinality(P)
            h == [n \in 1..c |-> CHOOSE i \in P : Rank(P, i) = n]
            t == [n \in 1..c |-> s[h[n]]]
<1>1. Len(s) \in Nat /\ c \in Nat
  BY RankRises
<1>3. Cache!Picked(s, P) = t
  BY DEF Cache!Picked, Rank, Cache!Cardinality, Cardinality
<1>4. ASSUME NEW n \in 1..c PROVE h[n] \in P /\ Rank(P, h[n]) = n
  BY <1>1, RankOfOne
<1>. HIDE DEF h
<1>5. h \in [1..c -> P]
  BY <1>4 DEF h
<1>6. t \in [1..c -> S]
  <2>1. \A i \in 1..Len(s) : s[i] \in S
    OBVIOUS
  <2>2. \A n \in 1..c : h[n] \in 1..Len(s)
    BY <1>5
  <2>. QED
    BY <2>1, <2>2
<1>7. t \in Seq(S) /\ Len(t) = c
  BY <1>1, <1>6
<1>8. ASSUME NEW m \in 1..c, NEW n \in 1..c, m < n PROVE h[m] < h[n]
  <2>1. h[m] \in 1..Len(s) /\ h[n] \in 1..Len(s)
    BY <1>5
  <2>2. CASE h[n] < h[m]
    <3>1. Rank(P, h[n]) < Rank(P, h[m])
      BY <1>1, <1>5, <2>2, RankFollowsPlace
    <3>. QED
      BY <1>4, <1>8, <3>1, <1>1
  <2>3. CASE h[n] = h[m]
    BY <1>4, <1>8, <2>3, <1>1
  <2>. QED
    BY <2>1, <2>2, <2>3
<1>9. ASSUME NEW i \in P PROVE \E n \in 1..c : h[n] = i
  <2>. DEFINE n == Rank(P, i)
  <2>1. i \in 1..Len(s) /\ i \in 0..Len(s) /\ i - 1 \in 0..Len(s)
    OBVIOUS
  <2>2. n \in Nat /\ n >= 1
    BY <1>1, <2>1, RankRises
  <2>3. n <= c
    <3>1. {j \in P : j <= i} \in SUBSET P
      OBVIOUS
    <3>. QED
      BY <1>1, <3>1, RankRises, FS_Subset DEF Rank
  <2>. HIDE DEF n
  <2>4. n \in 1..c
    BY <1>1, <2>2, <2>3
  <2>5. h[n] \in P /\ Rank(P, h[n]) = n
    BY <1>4, <2>4
  <2>6. ~ (h[n] < i) /\ ~ (i < h[n])
    <3>1. ~ (Rank(P, h[n]) < Rank(P, i)) /\ ~ (Rank(P, i) < Rank(P, h[n]))
      BY <2>2, <2>5 DEF n
    <3>2. h[n] < i => Rank(P, h[n]) < Rank(P, i)
      BY <1>1, <2>5, RankFollowsPlace
    <3>3. i < h[n] => Rank(P, i) < Rank(P, h[n])
      BY <1>1, <2>5, RankFollowsPlace
    <3>. QED
      BY <3>1, <3>2, <3>3
  <2>7. h[n] \in 1..Len(s)
    BY <2>5
  <2>. QED
    BY <2>1, <2>4, <2>6, <2>7
<1>. HIDE DEF c
<1>10. Order(h, t, s, P)
  BY <1>1, <1>5, <1>6, <1>7, <1>8, <1>9 DEF Order, c
<1>. QED
  BY <1>3, <1>7, <1>10

CacheItems == [key : Keys, data : {"data"}, old : BOOLEAN]

\* Of the cache k and the history r: no key twice in either; the keys of the
\* fresh entries are in the history, in the same order, and so is what was
\* used after one of them.
Follows(k, r) ==
  /\ \A i, j \in 1..Len(k) : k[i].key = k[j].key => i = j
  /\ \A p, q \in 1..Len(r) : r[p] = r[q] => p = q
  /\ \A i \in 1..Len(k) : ~ k[i].old => \E q \in 1..Len(r) : r[q] = k[i].key
  /\ \A i, j \in 1..Len(k) : \A p, q \in 1..Len(r) :
       ~ k[i].old /\ ~ k[j].old /\ i < j /\ r[p] = k[i].key /\ r[q] = k[j].key => p < q
  /\ \A i \in 1..Len(k) : \A p, q \in 1..Len(r) :
       ~ k[i].old /\ r[p] = k[i].key /\ p < q =>
         \E j \in 1..Len(k) : ~ k[j].old /\ k[j].key = r[q]

CacheInv ==
  /\ kept \in Seq(CacheItems) /\ recent \in Seq(Keys)
  /\ Len(kept) <= CacheEntries
  /\ Follows(kept, recent)

\* l is k and u is r with some left out, or grown old: h and g say where
\* they were; and a fresh entry stays where its key stays in the history.
Rises(f, s, t) ==
  /\ Len(s) \in Nat /\ Len(t) \in Nat
  /\ f \in [1..Len(s) -> 1..Len(t)]
  /\ \A m, n \in 1..Len(s) : m < n => f[m] < f[n]

Thins(h, g, k, l, r, u) ==
  /\ Rises(h, l, k) /\ Rises(g, u, r)
  /\ \A n \in 1..Len(l) : l[n].key = k[h[n]].key /\ (~ l[n].old => ~ k[h[n]].old)
  /\ \A n \in 1..Len(u) : u[n] = r[g[n]]
  /\ \A i \in 1..Len(k) : \A q \in 1..Len(r) : ~ k[i].old /\ k[i].key = r[q] =>
       ((\E n \in 1..Len(l) : h[n] = i /\ ~ l[n].old) <=> \E n \in 1..Len(u) : g[n] = q)

LEMMA Thinned ==
  ASSUME NEW h, NEW g, NEW k, NEW l, NEW r, NEW u, Thins(h, g, k, l, r, u), Follows(k, r)
  PROVE  Follows(l, u)
<1>1. /\ Len(k) \in Nat /\ Len(l) \in Nat /\ Len(r) \in Nat /\ Len(u) \in Nat
      /\ h \in [1..Len(l) -> 1..Len(k)] /\ g \in [1..Len(u) -> 1..Len(r)]
  BY DEF Thins, Rises
<1>2. \A m, n \in 1..Len(l) : m < n => h[m] < h[n]
  BY DEF Thins, Rises
<1>3. \A m, n \in 1..Len(u) : m < n => g[m] < g[n]
  BY DEF Thins, Rises
<1>4. \A n \in 1..Len(l) : l[n].key = k[h[n]].key /\ (~ l[n].old => ~ k[h[n]].old)
  BY DEF Thins
<1>5. \A n \in 1..Len(u) : u[n] = r[g[n]]
  BY DEF Thins
<1>6. \A i \in 1..Len(k) : \A q \in 1..Len(r) : ~ k[i].old /\ k[i].key = r[q] =>
        ((\E n \in 1..Len(l) : h[n] = i /\ ~ l[n].old) <=> \E n \in 1..Len(u) : g[n] = q)
  BY DEF Thins
<1>7. /\ \A n \in 1..Len(l) : h[n] \in 1..Len(k) /\ h[n] \in Nat
      /\ \A n \in 1..Len(u) : g[n] \in 1..Len(r) /\ g[n] \in Nat
  BY ONLY <1>1
<1>8. ASSUME NEW m \in 1..Len(l), NEW n \in 1..Len(l), h[m] = h[n] PROVE m = n
  <2>1. m < n \/ n < m \/ m = n
    BY ONLY <1>1, m \in 1..Len(l), n \in 1..Len(l)
  <2>2. h[m] \in Nat /\ h[n] \in Nat
    BY ONLY <1>7, m \in 1..Len(l), n \in 1..Len(l)
  <2>3. ~ (h[m] < h[n]) /\ ~ (h[n] < h[m])
    BY ONLY <2>2, <1>8
  <2>. QED
    BY ONLY <1>2, <2>1, <2>3, m \in 1..Len(l), n \in 1..Len(l)
<1>9. ASSUME NEW m \in 1..Len(u), NEW n \in 1..Len(u), g[m] = g[n] \/ g[m] < g[n]
      PROVE  m = n \/ m < n
  <2>1. m < n \/ n < m \/ m = n
    BY ONLY <1>1, m \in 1..Len(u), n \in 1..Len(u)
  <2>2. g[m] \in Nat /\ g[n] \in Nat
    BY ONLY <1>7, m \in 1..Len(u), n \in 1..Len(u)
  <2>3. ~ (g[n] < g[m])
    BY ONLY <2>2, <1>9
  <2>. QED
    BY ONLY <1>3, <2>1, <2>3, m \in 1..Len(u), n \in 1..Len(u)
<1>10. ASSUME NEW m \in 1..Len(l), NEW n \in 1..Len(l), l[m].key = l[n].key PROVE m = n
  <2>1. h[m] \in 1..Len(k) /\ h[n] \in 1..Len(k) /\ k[h[m]].key = k[h[n]].key
    BY ONLY <1>4, <1>7, <1>10, m \in 1..Len(l), n \in 1..Len(l)
  <2>2. \A i, j \in 1..Len(k) : k[i].key = k[j].key => i = j
    BY DEF Follows
  <2>. QED
    BY ONLY <1>8, <2>1, <2>2, m \in 1..Len(l), n \in 1..Len(l)
<1>11. ASSUME NEW m \in 1..Len(u), NEW n \in 1..Len(u), u[m] = u[n] PROVE m = n
  <2>1. g[m] \in 1..Len(r) /\ g[n] \in 1..Len(r) /\ r[g[m]] = r[g[n]]
    BY ONLY <1>5, <1>7, <1>11, m \in 1..Len(u), n \in 1..Len(u)
  <2>2. \A p, q \in 1..Len(r) : r[p] = r[q] => p = q
    BY DEF Follows
  <2>3. g[m] = g[n]
    BY ONLY <2>1, <2>2
  <2>4. (m = n \/ m < n) /\ (n = m \/ n < m)
    BY ONLY <1>9, <2>3, m \in 1..Len(u), n \in 1..Len(u)
  <2>. QED
    BY ONLY <1>1, <2>4, m \in 1..Len(u), n \in 1..Len(u)
<1>12. ASSUME NEW n \in 1..Len(l), ~ l[n].old PROVE \E q \in 1..Len(u) : u[q] = l[n].key
  <2>1. h[n] \in 1..Len(k) /\ ~ k[h[n]].old /\ l[n].key = k[h[n]].key
    BY ONLY <1>4, <1>7, <1>12, n \in 1..Len(l)
  <2>2. \A i \in 1..Len(k) : ~ k[i].old => \E q \in 1..Len(r) : r[q] = k[i].key
    BY DEF Follows
  <2>3. PICK q \in 1..Len(r) : r[q] = k[h[n]].key
    BY ONLY <2>1, <2>2
  <2>4. PICK p \in 1..Len(u) : g[p] = q
    BY ONLY <1>6, <1>12, <2>1, <2>3, n \in 1..Len(l), q \in 1..Len(r)
  <2>. QED
    BY ONLY <1>5, <2>1, <2>3, <2>4, p \in 1..Len(u)
<1>13. ASSUME NEW m \in 1..Len(l), NEW n \in 1..Len(l), NEW p \in 1..Len(u), NEW q \in 1..Len(u),
              ~ l[m].old, ~ l[n].old, m < n, u[p] = l[m].key, u[q] = l[n].key
       PROVE  p < q
  <2>1. /\ h[m] \in 1..Len(k) /\ h[n] \in 1..Len(k) /\ g[p] \in 1..Len(r) /\ g[q] \in 1..Len(r)
        /\ ~ k[h[m]].old /\ ~ k[h[n]].old /\ h[m] < h[n]
        /\ r[g[p]] = k[h[m]].key /\ r[g[q]] = k[h[n]].key
    BY ONLY <1>2, <1>4, <1>5, <1>7, <1>13, m \in 1..Len(l), n \in 1..Len(l),
            p \in 1..Len(u), q \in 1..Len(u)
  <2>2. \A i, j \in 1..Len(k) : \A x, y \in 1..Len(r) :
          ~ k[i].old /\ ~ k[j].old /\ i < j /\ r[x] = k[i].key /\ r[y] = k[j].key => x < y
    BY DEF Follows
  <2>3. g[p] < g[q]
    BY ONLY <2>1, <2>2
  <2>4. p = q \/ p < q
    BY ONLY <1>9, <2>3, p \in 1..Len(u), q \in 1..Len(u)
  <2>5. g[p] \in Nat
    BY ONLY <1>7, p \in 1..Len(u)
  <2>6. p # q
    BY ONLY <2>3, <2>5
  <2>. QED
    BY ONLY <2>4, <2>6
<1>14. ASSUME NEW n \in 1..Len(l), NEW p \in 1..Len(u), NEW q \in 1..Len(u),
              ~ l[n].old, u[p] = l[n].key, p < q
       PROVE  \E j \in 1..Len(l) : ~ l[j].old /\ l[j].key = u[q]
  <2>1. /\ h[n] \in 1..Len(k) /\ g[p] \in 1..Len(r) /\ g[q] \in 1..Len(r) /\ g[p] < g[q]
        /\ ~ k[h[n]].old /\ r[g[p]] = k[h[n]].key /\ u[q] = r[g[q]]
    BY ONLY <1>3, <1>4, <1>5, <1>7, <1>14, n \in 1..Len(l), p \in 1..Len(u), q \in 1..Len(u)
  <2>2. \A i \in 1..Len(k) : \A x, y \in 1..Len(r) :
          ~ k[i].old /\ r[x] = k[i].key /\ x < y =>
            \E j \in 1..Len(k) : ~ k[j].old /\ k[j].key = r[y]
    BY DEF Follows
  <2>3. PICK i \in 1..Len(k), x \in 1..Len(r), y \in 1..Len(r) : i = h[n] /\ x = g[p] /\ y = g[q]
    BY ONLY <2>1
  <2>4. ~ k[i].old /\ r[x] = k[i].key /\ x < y /\ u[q] = r[y]
    BY ONLY <2>1, <2>3
  <2>5. PICK z \in 1..Len(k) : ~ k[z].old /\ k[z].key = r[y]
    BY ONLY <2>2, <2>4, i \in 1..Len(k), x \in 1..Len(r), y \in 1..Len(r)
  <2>6. \E m \in 1..Len(u) : g[m] = y
    BY ONLY <2>3, q \in 1..Len(u)
  <2>7. PICK j \in 1..Len(l) : h[j] = z /\ ~ l[j].old
    BY ONLY <1>6, <2>5, <2>6, z \in 1..Len(k), y \in 1..Len(r)
  <2>. QED
    BY ONLY <1>4, <2>4, <2>5, <2>7, j \in 1..Len(l)
<1>. QED
  BY ONLY <1>10, <1>11, <1>12, <1>13, <1>14 DEF Follows

\* A key that is in neither comes to both.
LEMMA Joined ==
  ASSUME NEW k \in Seq(CacheItems), NEW r \in Seq(Keys), Follows(k, r),
         NEW e \in CacheItems, ~ e.old,
         \A i \in 1..Len(k) : k[i].key # e.key, \A q \in 1..Len(r) : r[q] # e.key
  PROVE  /\ Append(k, e) \in Seq(CacheItems) /\ Append(r, e.key) \in Seq(Keys)
         /\ Follows(Append(k, e), Append(r, e.key))
<1>. DEFINE l == Append(k, e)
            u == Append(r, e.key)
<1>1. /\ Len(k) \in Nat /\ Len(l) = Len(k) + 1 /\ l[Len(l)] = e /\ l \in Seq(CacheItems)
      /\ \A i \in 1..Len(k) : l[i] = k[i]
  OBVIOUS
<1>2. e.key \in Keys
  BY DEF CacheItems
<1>3. /\ Len(r) \in Nat /\ Len(u) = Len(r) + 1 /\ u[Len(u)] = e.key /\ u \in Seq(Keys)
      /\ \A q \in 1..Len(r) : u[q] = r[q]
  BY <1>2
<1>. HIDE DEF l, u
<1>4. \A i \in 1..Len(l) : i \in 1..Len(k) \/ i = Len(l)
  BY <1>1
<1>5. \A q \in 1..Len(u) : q \in 1..Len(r) \/ q = Len(u)
  BY <1>3
<1>6. /\ \A i \in 1..Len(k) : i < Len(l) /\ i \in 1..Len(l)
      /\ \A q \in 1..Len(r) : q < Len(u) /\ q \in 1..Len(u)
      /\ Len(l) \in 1..Len(l) /\ Len(u) \in 1..Len(u)
  BY <1>1, <1>3
<1>7. \A m, n \in 1..Len(l) : l[m].key = l[n].key => m = n
  BY <1>1, <1>4 DEF Follows
<1>8. \A m, n \in 1..Len(u) : u[m] = u[n] => m = n
  BY <1>3, <1>5 DEF Follows
<1>9. ASSUME NEW n \in 1..Len(l), ~ l[n].old PROVE \E q \in 1..Len(u) : u[q] = l[n].key
  BY <1>1, <1>3, <1>4, <1>6, <1>9 DEF Follows
<1>10. ASSUME NEW m \in 1..Len(l), NEW n \in 1..Len(l), NEW p \in 1..Len(u), NEW q \in 1..Len(u),
              ~ l[m].old, ~ l[n].old, m < n, u[p] = l[m].key, u[q] = l[n].key
       PROVE  p < q
  <2>1. m \in 1..Len(k) /\ l[m] = k[m] /\ ~ k[m].old
    BY <1>1, <1>4, <1>10
  <2>2. p \in 1..Len(r) /\ r[p] = k[m].key
    BY <1>1, <1>3, <1>5, <1>10, <2>1
  <2>3. CASE n = Len(l)
    <3>1. q = Len(u)
      BY <1>1, <1>3, <1>5, <1>10, <2>3
    <3>. QED
      BY <1>6, <2>2, <3>1
  <2>4. CASE n \in 1..Len(k)
    <3>1. l[n] = k[n] /\ ~ k[n].old
      BY <1>1, <1>10, <2>4
    <3>2. q \in 1..Len(r) /\ r[q] = k[n].key
      BY <1>1, <1>3, <1>5, <1>10, <2>4, <3>1
    <3>. QED
      BY <1>10, <2>1, <2>2, <2>4, <3>1, <3>2 DEF Follows
  <2>. QED
    BY <1>4, <2>3, <2>4
<1>11. ASSUME NEW n \in 1..Len(l), NEW p \in 1..Len(u), NEW q \in 1..Len(u),
              ~ l[n].old, u[p] = l[n].key, p < q
       PROVE  \E j \in 1..Len(l) : ~ l[j].old /\ l[j].key = u[q]
  <2>1. CASE q = Len(u)
    BY <1>1, <1>3, <1>6, <2>1
  <2>2. CASE q \in 1..Len(r)
    <3>1. p \in 1..Len(r) /\ u[p] = r[p] /\ u[q] = r[q]
      BY <1>3, <1>11, <2>2
    <3>2. n \in 1..Len(k) /\ l[n] = k[n]
      BY <1>1, <1>4, <1>11, <3>1
    <3>3. ~ k[n].old /\ r[p] = k[n].key /\ p < q
      BY <1>11, <3>1, <3>2
    <3>4. PICK j \in 1..Len(k) : ~ k[j].old /\ k[j].key = r[q]
      BY <2>2, <3>1, <3>2, <3>3 DEF Follows
    <3>. QED
      BY <1>1, <1>6, <3>1, <3>4
  <2>. QED
    BY <1>5, <2>1, <2>2
<1>12. Follows(l, u)
  BY <1>7, <1>8, <1>9, <1>10, <1>11 DEF Follows
<1>. QED
  BY <1>1, <1>3, <1>12 DEF l, u

\* The first entries go.
LEMMA Cut ==
  ASSUME NEW k \in Seq(CacheItems), NEW r \in Seq(Keys), Follows(k, r), NEW a \in 1..Len(k)
  PROVE  /\ SubSeq(k, a, Len(k)) \in Seq(CacheItems)
         /\ Len(SubSeq(k, a, Len(k))) = Len(k) - a + 1
         /\ Follows(SubSeq(k, a, Len(k)), r)
<1>. DEFINE l == SubSeq(k, a, Len(k))
            b == a - 1
<1>1. /\ Len(k) \in Nat /\ Len(r) \in Nat /\ b \in Nat
      /\ l \in Seq(CacheItems) /\ Len(l) = Len(k) - b
      /\ \A n \in 1..Len(l) : l[n] = k[n + b]
  OBVIOUS
<1>2. \A n \in 1..Len(l) : n \in Nat /\ n + b \in 1..Len(k) /\ l[n] = k[n + b]
  BY <1>1
<1>3. \A i \in 1..Len(k) : i > b => i - b \in 1..Len(l) /\ (i - b) + b = i
  BY <1>1
<1>. HIDE DEF l, b
<1>4. \A m, n \in 1..Len(l) : l[m].key = l[n].key => m = n
  <2>. SUFFICES ASSUME NEW m \in 1..Len(l), NEW n \in 1..Len(l), l[m].key = l[n].key PROVE m = n
    OBVIOUS
  <2>1. m + b \in 1..Len(k) /\ n + b \in 1..Len(k) /\ k[m + b].key = k[n + b].key
    BY <1>2
  <2>2. m + b = n + b
    BY <2>1 DEF Follows
  <2>. QED
    BY <1>1, <1>2, <2>2
<1>5. ASSUME NEW n \in 1..Len(l), ~ l[n].old PROVE \E q \in 1..Len(r) : r[q] = l[n].key
  <2>1. n + b \in 1..Len(k) /\ l[n] = k[n + b]
    BY <1>2
  <2>. QED
    BY <1>5, <2>1 DEF Follows
<1>6. ASSUME NEW m \in 1..Len(l), NEW n \in 1..Len(l), NEW p \in 1..Len(r), NEW q \in 1..Len(r),
             ~ l[m].old, ~ l[n].old, m < n, r[p] = l[m].key, r[q] = l[n].key
      PROVE  p < q
  <2>1. /\ m + b \in 1..Len(k) /\ l[m] = k[m + b] /\ n + b \in 1..Len(k) /\ l[n] = k[n + b]
        /\ m \in Nat /\ n \in Nat
    BY <1>2
  <2>2. m + b < n + b
    BY <1>1, <1>6, <2>1
  <2>3. ~ k[m + b].old /\ ~ k[n + b].old /\ r[p] = k[m + b].key /\ r[q] = k[n + b].key
    BY <1>6, <2>1
  <2>. QED
    BY <2>1, <2>2, <2>3 DEF Follows
<1>7. ASSUME NEW n \in 1..Len(l), NEW p \in 1..Len(r), NEW q \in 1..Len(r),
             ~ l[n].old, r[p] = l[n].key, p < q
      PROVE  \E j \in 1..Len(l) : ~ l[j].old /\ l[j].key = r[q]
  <2>1. n + b \in 1..Len(k) /\ l[n] = k[n + b] /\ n + b > b
    BY <1>1, <1>2
  <2>2. PICK j \in 1..Len(k) : ~ k[j].old /\ k[j].key = r[q]
    BY <1>7, <2>1 DEF Follows
  <2>3. ~ (j < n + b)
    <3>1. j < n + b => q < p
      BY <1>7, <2>1, <2>2 DEF Follows
    <3>. QED
      BY <1>7, <3>1
  <2>4. j > b
    BY <1>1, <2>1, <2>3
  <2>5. j - b \in 1..Len(l) /\ l[j - b] = k[j]
    BY <1>1, <1>3, <2>4
  <2>. QED
    BY <2>2, <2>5
<1>8. Follows(l, r)
  BY <1>4, <1>5, <1>6, <1>7 DEF Follows
<1>. QED
  BY <1>1, <1>8 DEF l, b

\* The cache and the history without a key.
LEMMA Removed ==
  ASSUME NEW k \in Seq(CacheItems), NEW r \in Seq(Keys), NEW key \in Keys, Follows(k, r)
  PROVE  LET l == Cache!Delete(k, key)
             u == Cache!Picked(r, {i \in DOMAIN r : r[i] # key})
         IN  /\ l \in Seq(CacheItems) /\ u \in Seq(Keys)
             /\ Follows(l, u)
             /\ Len(l) <= Len(k) /\ (Cache!HasKey(k, key) => Len(l) < Len(k))
             /\ \A n \in 1..Len(l) : l[n].key # key /\ \E i \in 1..Len(k) : l[n] = k[i]
             /\ \A n \in 1..Len(u) : u[n] # key
             /\ (\A i \in 1..Len(k) : k[i].key = key => k[i].old) => Follows(l, r)
<1>. DEFINE P == {i \in 1..Len(k) : k[i].key # key}
            Q == {i \in 1..Len(r) : r[i] # key}
            l == Cache!Picked(k, P)
            u == Cache!Picked(r, Q)
<1>1. DOMAIN k = 1..Len(k) /\ DOMAIN r = 1..Len(r) /\ Len(k) \in Nat /\ Len(r) \in Nat
  OBVIOUS
<1>2. /\ Cache!Delete(k, key) = l /\ Cache!Picked(r, {i \in DOMAIN r : r[i] # key}) = u
  BY <1>1 DEF Cache!Delete
<1>3. l \in Seq(CacheItems) /\ u \in Seq(Keys)
  BY Picking
<1>4. PICK h : Order(h, l, k, P)
  BY Picking
<1>5. PICK g : Order(g, u, r, Q)
  BY Picking
<1>6. /\ Len(l) \in Nat /\ Len(u) \in Nat /\ Len(l) = Cardinality(P)
  BY <1>3, <1>4 DEF Order
<1>. HIDE DEF l, u
<1>7. /\ h \in [1..Len(l) -> 1..Len(k)] /\ \A m, n \in 1..Len(l) : m < n => h[m] < h[n]
      /\ \A n \in 1..Len(l) : l[n] = k[h[n]] /\ k[h[n]].key # key
      /\ \A i \in 1..Len(k) : k[i].key # key => \E n \in 1..Len(l) : h[n] = i
  BY <1>4 DEF Order
<1>8. /\ g \in [1..Len(u) -> 1..Len(r)] /\ \A m, n \in 1..Len(u) : m < n => g[m] < g[n]
      /\ \A n \in 1..Len(u) : u[n] = r[g[n]] /\ r[g[n]] # key
      /\ \A q \in 1..Len(r) : r[q] # key => \E n \in 1..Len(u) : g[n] = q
  BY <1>5 DEF Order
<1>9. Follows(l, u)
  <2>1. ASSUME NEW i \in 1..Len(k), NEW q \in 1..Len(r), ~ k[i].old, k[i].key = r[q]
        PROVE  (\E n \in 1..Len(l) : h[n] = i /\ ~ l[n].old) <=> \E n \in 1..Len(u) : g[n] = q
    <3>1. ASSUME r[q] = key
          PROVE  /\ ~ \E n \in 1..Len(l) : h[n] = i
                 /\ ~ \E n \in 1..Len(u) : g[n] = q
      <4>1. \A n \in 1..Len(l) : h[n] # i
        BY <1>7, <2>1, <3>1
      <4>2. \A n \in 1..Len(u) : g[n] # q
        BY <1>8, <3>1
      <4>. QED
        BY <4>1, <4>2
    <3>2. ASSUME r[q] # key
          PROVE  /\ \E n \in 1..Len(l) : h[n] = i /\ ~ l[n].old
                 /\ \E n \in 1..Len(u) : g[n] = q
      <4>1. PICK n \in 1..Len(l) : h[n] = i
        BY <1>7, <2>1, <3>2
      <4>2. l[n] = k[i]
        BY <1>7, <4>1
      <4>3. \E m \in 1..Len(u) : g[m] = q
        BY <1>8, <3>2
      <4>. QED
        BY <2>1, <4>1, <4>2, <4>3
    <3>. QED
      BY <3>1, <3>2
  <2>2. \A n \in 1..Len(l) : l[n].key = k[h[n]].key /\ (~ l[n].old => ~ k[h[n]].old)
    BY <1>7
  <2>3. Rises(h, l, k) /\ Rises(g, u, r)
    BY <1>1, <1>6, <1>7, <1>8 DEF Rises
  <2>4. Thins(h, g, k, l, r, u)
    BY <1>8, <2>1, <2>2, <2>3 DEF Thins
  <2>. QED
    BY <2>4, Thinned
<1>10. (\A i \in 1..Len(k) : k[i].key = key => k[i].old) => Follows(l, r)
  <2>. SUFFICES ASSUME \A i \in 1..Len(k) : k[i].key = key => k[i].old PROVE Follows(l, r)
    OBVIOUS
  <2>. DEFINE f == [q \in 1..Len(r) |-> q]
  <2>1. /\ f \in [1..Len(r) -> 1..Len(r)] /\ \A m, n \in 1..Len(r) : m < n => f[m] < f[n]
        /\ \A n \in 1..Len(r) : r[n] = r[f[n]]
        /\ \A q \in 1..Len(r) : \E n \in 1..Len(r) : f[n] = q
    OBVIOUS
  <2>. HIDE DEF f
  <2>2. ASSUME NEW i \in 1..Len(k), NEW q \in 1..Len(r), ~ k[i].old, k[i].key = r[q]
        PROVE  (\E n \in 1..Len(l) : h[n] = i /\ ~ l[n].old) <=> \E n \in 1..Len(r) : f[n] = q
    <3>1. k[i].key # key
      BY <2>2
    <3>2. PICK n \in 1..Len(l) : h[n] = i
      BY <1>7, <3>1
    <3>3. ~ l[n].old
      BY <1>7, <2>2, <3>2
    <3>. QED
      BY <2>1, <3>2, <3>3
  <2>3. \A n \in 1..Len(l) : l[n].key = k[h[n]].key /\ (~ l[n].old => ~ k[h[n]].old)
    BY <1>7
  <2>4. Rises(h, l, k) /\ Rises(f, r, r)
    BY <1>1, <1>6, <1>7, <2>1 DEF Rises
  <2>5. Thins(h, f, k, l, r, r)
    BY <2>1, <2>2, <2>3, <2>4 DEF Thins
  <2>. QED
    BY <2>5, Thinned
<1>11. /\ Len(l) <= Len(k) /\ (Cache!HasKey(k, key) => Len(l) < Len(k))
  <2>2. Cardinality(P) <= Len(k)
    BY <1>1, PlacesAreFew
  <2>3. ASSUME Cache!HasKey(k, key) PROVE P # 1..Len(k)
    BY <1>1, <2>3 DEF Cache!HasKey
  <2>4. Cardinality(P) = Len(k) => P = 1..Len(k)
    BY <1>1, PlacesAreFew
  <2>. HIDE DEF P
  <2>. QED
    BY <1>1, <1>6, <2>2, <2>3, <2>4
<1>12. /\ \A n \in 1..Len(l) : l[n].key # key /\ \E i \in 1..Len(k) : l[n] = k[i]
       /\ \A n \in 1..Len(u) : u[n] # key
  BY <1>7, <1>8
<1>. HIDE DEF P, Q
<1>. QED
  BY <1>2, <1>3, <1>9, <1>10, <1>11, <1>12

\* The cache without its old entries.
LEMMA Pruned ==
  ASSUME NEW k \in Seq(CacheItems), NEW r \in Seq(Keys), Follows(k, r)
  PROVE  LET l == Cache!PruneExpired(k)
         IN  /\ l \in Seq(CacheItems) /\ Len(l) <= Len(k) /\ Follows(l, r)
             /\ \A n \in 1..Len(l) : ~ l[n].old
<1>. DEFINE P == {i \in 1..Len(k) : ~ k[i].old}
            l == Cache!Picked(k, P)
            f == [q \in 1..Len(r) |-> q]
<1>1. DOMAIN k = 1..Len(k) /\ Len(k) \in Nat /\ Len(r) \in Nat
  OBVIOUS
<1>2. Cache!PruneExpired(k) = l
  BY <1>1 DEF Cache!PruneExpired
<1>3. l \in Seq(CacheItems)
  BY Picking
<1>4. PICK h : Order(h, l, k, P)
  BY Picking
<1>5. Len(l) \in Nat /\ Len(l) = Cardinality(P)
  BY <1>3, <1>4 DEF Order
<1>6. Len(l) <= Len(k)
  <2>2. Cardinality(P) <= Len(k)
    BY <1>1, PlacesAreFew
  <2>. QED
    BY <1>5, <2>2
<1>. HIDE DEF l
<1>7. /\ h \in [1..Len(l) -> 1..Len(k)] /\ \A m, n \in 1..Len(l) : m < n => h[m] < h[n]
      /\ \A n \in 1..Len(l) : l[n] = k[h[n]] /\ ~ k[h[n]].old
      /\ \A i \in 1..Len(k) : ~ k[i].old => \E n \in 1..Len(l) : h[n] = i
  BY <1>4 DEF Order
<1>8. /\ f \in [1..Len(r) -> 1..Len(r)] /\ \A m, n \in 1..Len(r) : m < n => f[m] < f[n]
      /\ \A n \in 1..Len(r) : r[n] = r[f[n]]
      /\ \A q \in 1..Len(r) : \E n \in 1..Len(r) : f[n] = q
  OBVIOUS
<1>. HIDE DEF f
<1>9. ASSUME NEW i \in 1..Len(k), NEW q \in 1..Len(r), ~ k[i].old, k[i].key = r[q]
      PROVE  (\E n \in 1..Len(l) : h[n] = i /\ ~ l[n].old) <=> \E n \in 1..Len(r) : f[n] = q
  <2>1. PICK n \in 1..Len(l) : h[n] = i
    BY <1>7, <1>9
  <2>2. ~ l[n].old
    BY <1>7, <2>1
  <2>. QED
    BY <1>8, <2>1, <2>2
<1>10. \A n \in 1..Len(l) : l[n].key = k[h[n]].key /\ (~ l[n].old => ~ k[h[n]].old)
  BY <1>7
<1>11. Follows(l, r)
  <2>1. Rises(h, l, k) /\ Rises(f, r, r)
    BY <1>1, <1>5, <1>7, <1>8 DEF Rises
  <2>2. Thins(h, f, k, l, r, r)
    BY <1>8, <1>9, <1>10, <2>1 DEF Thins
  <2>. QED
    BY <2>2, Thinned
<1>. QED
  BY <1>2, <1>3, <1>6, <1>7, <1>11

\* The entry of a key that the cache has.
LEMMA EntryIs ==
  ASSUME NEW k \in Seq(CacheItems), NEW key, Cache!HasKey(k, key)
  PROVE  \E i \in 1..Len(k) : Cache!EntryOf(k, key) = k[i] /\ k[i].key = key
<1>1. DOMAIN k = 1..Len(k)
  OBVIOUS
<1>. QED
  BY <1>1 DEF Cache!HasKey, Cache!EntryOf

LEMMA GetKeeps ==
  ASSUME CacheAssumption, CacheInv, NEW key \in Keys, Cache!Get(key)
  PROVE  CacheInv'
<1>. DEFINE l == Cache!Delete(kept, key)
            u == Cache!Forgotten(key)
            e == Cache!EntryOf(kept, key)
<1>1. kept \in Seq(CacheItems) /\ recent \in Seq(Keys) /\ Len(kept) <= CacheEntries /\ Follows(kept, recent)
      /\ Len(kept) \in Nat /\ CacheEntries \in Nat
  BY DEF CacheInv, CacheAssumption
<1>2. /\ l \in Seq(CacheItems) /\ u \in Seq(Keys)
      /\ Follows(l, u)
      /\ Len(l) <= Len(kept) /\ (Cache!HasKey(kept, key) => Len(l) < Len(kept))
      /\ \A n \in 1..Len(l) : l[n].key # key
      /\ \A n \in 1..Len(u) : u[n] # key
      /\ (\A i \in 1..Len(kept) : kept[i].key = key => kept[i].old) => Follows(l, recent)
  <2>1. u = Cache!Picked(recent, {i \in DOMAIN recent : recent[i] # key})
    BY DEF Cache!Forgotten
  <2>. HIDE DEF u
  <2>. QED
    BY <1>1, <2>1, Removed
<1>3. CASE Cache!IsHit(kept, key)
  <2>1. Cache!HasKey(kept, key) /\ ~ e.old /\ e \in CacheItems /\ e.key = key
    BY <1>1, <1>3, EntryIs DEF Cache!IsHit
  <2>2. kept' = Append(l, e) /\ recent' = Append(u, key)
    BY <1>3 DEF Cache!Get, Cache!AfterGet, Cache!Used
  <2>. HIDE DEF l, u, e
  <2>3. kept' \in Seq(CacheItems) /\ recent' \in Seq(Keys) /\ Follows(kept', recent')
    BY <1>2, <2>1, <2>2, Joined
  <2>4. Len(l) \in Nat /\ Len(kept') = Len(l) + 1 /\ Len(l) < Len(kept)
    BY <1>2, <2>1, <2>2
  <2>5. Len(kept') <= CacheEntries
    BY <1>1, <2>4
  <2>. QED
    BY <2>3, <2>5 DEF CacheInv
<1>4. CASE ~ Cache!IsHit(kept, key)
  <2>1. kept' = l /\ recent' = recent
    BY <1>4 DEF Cache!Get, Cache!AfterGet
  <2>2. ASSUME NEW i \in 1..Len(kept), kept[i].key = key PROVE kept[i].old
    <3>1. Cache!HasKey(kept, key)
      BY <1>1, <2>2 DEF Cache!HasKey
    <3>2. PICK j \in 1..Len(kept) : e = kept[j] /\ kept[j].key = key
      BY <1>1, <3>1, EntryIs
    <3>3. i = j
      BY <1>1, <2>2, <3>2 DEF Follows
    <3>. QED
      BY <1>4, <3>1, <3>2, <3>3 DEF Cache!IsHit
  <2>. HIDE DEF l, u, e
  <2>3. Follows(l, recent)
    BY <1>2, <2>2
  <2>4. Len(l) \in Nat /\ Len(l) <= CacheEntries
    BY <1>1, <1>2
  <2>. QED
    BY <1>1, <1>2, <2>1, <2>3, <2>4 DEF CacheInv
<1>. QED
  BY <1>3, <1>4

LEMMA SetKeeps ==
  ASSUME CacheAssumption, CacheInv, NEW key \in Keys, Cache!Set(key)
  PROVE  CacheInv'
<1>. DEFINE k == Cache!PruneExpired(kept)
            l == Cache!Delete(k, key)
            u == Cache!Forgotten(key)
            e == Cache!Entry(key, "data")
            m == Append(l, e)
<1>1. kept \in Seq(CacheItems) /\ recent \in Seq(Keys) /\ Follows(kept, recent)
  BY DEF CacheInv
<1>2. k \in Seq(CacheItems) /\ Follows(k, recent)
  BY <1>1, Pruned
<1>. HIDE DEF k
<1>3. /\ l \in Seq(CacheItems) /\ u \in Seq(Keys)
      /\ Follows(l, u)
      /\ \A n \in 1..Len(l) : l[n].key # key
      /\ \A n \in 1..Len(u) : u[n] # key
  <2>1. u = Cache!Picked(recent, {i \in DOMAIN recent : recent[i] # key})
    BY DEF Cache!Forgotten
  <2>. HIDE DEF u
  <2>. QED
    BY <1>1, <1>2, <2>1, Removed
<1>4. e \in CacheItems /\ ~ e.old /\ e.key = key
  BY DEF Cache!Entry, CacheItems
<1>5. /\ kept' = (IF Len(m) > CacheEntries
                  THEN SubSeq(m, Len(m) - CacheEntries + 1, Len(m)) ELSE m)
      /\ recent' = Append(u, key)
  BY DEF Cache!Set, Cache!AfterSet, Cache!EvictOverflow, Cache!Used, k
<1>. HIDE DEF l, u, e
<1>6. m \in Seq(CacheItems) /\ recent' \in Seq(Keys) /\ Follows(m, recent')
  BY <1>3, <1>4, <1>5, Joined
<1>. HIDE DEF m
<1>7. Len(m) \in Nat /\ CacheEntries \in Nat /\ CacheEntries > 0
  BY <1>6 DEF CacheAssumption
<1>8. CASE Len(m) > CacheEntries
  <2>. DEFINE a == Len(m) - CacheEntries + 1
  <2>1. a \in 1..Len(m) /\ Len(m) - a + 1 = CacheEntries
    BY <1>7, <1>8
  <2>2. kept' = SubSeq(m, a, Len(m))
    BY <1>5, <1>8
  <2>. HIDE DEF a
  <2>3. kept' \in Seq(CacheItems) /\ Len(kept') = CacheEntries /\ Follows(kept', recent')
    BY <1>6, <2>1, <2>2, Cut
  <2>. QED
    BY <1>6, <1>7, <2>3 DEF CacheInv
<1>9. CASE ~ (Len(m) > CacheEntries)
  BY <1>5, <1>6, <1>7, <1>9 DEF CacheInv
<1>. QED
  BY <1>8, <1>9

LEMMA AgeKeeps ==
  ASSUME CacheAssumption, CacheInv, NEW key \in Keys, Cache!Age(key)
  PROVE  CacheInv'
<1>. DEFINE Q == {q \in 1..Len(recent) : recent[q] # key}
            u == Cache!Picked(recent, Q)
            h == [n \in 1..Len(kept) |-> n]
<1>1. kept \in Seq(CacheItems) /\ recent \in Seq(Keys) /\ Len(kept) <= CacheEntries
      /\ Follows(kept, recent) /\ Len(kept) \in Nat /\ Len(recent) \in Nat
      /\ DOMAIN kept = 1..Len(kept) /\ DOMAIN recent = 1..Len(recent)
  BY DEF CacheInv
<1>2. recent' = u
  BY <1>1 DEF Cache!Age, Cache!Forgotten
<1>3. u \in Seq(Keys)
  BY <1>1, Picking
<1>4. PICK g : Order(g, u, recent, Q)
  BY <1>1, Picking
<1>5. Len(u) \in Nat
  BY <1>3
<1>. HIDE DEF u
<1>6. /\ g \in [1..Len(u) -> 1..Len(recent)] /\ \A m, n \in 1..Len(u) : m < n => g[m] < g[n]
      /\ \A n \in 1..Len(u) : u[n] = recent[g[n]] /\ recent[g[n]] # key
      /\ \A q \in 1..Len(recent) : recent[q] # key => \E n \in 1..Len(u) : g[n] = q
  BY <1>4 DEF Order
<1>7. PICK i \in 1..Len(kept) : kept[i].key = key /\ kept' = [kept EXCEPT ![i].old = TRUE]
  BY <1>1 DEF Cache!Age, Cache!Aged
<1>8. /\ kept' \in Seq(CacheItems) /\ Len(kept') = Len(kept)
      /\ \A n \in 1..Len(kept) : kept'[n].key = kept[n].key
      /\ \A n \in 1..Len(kept) : n # i => kept'[n] = kept[n]
      /\ kept'[i].old
  <2>1. \A n \in 1..Len(kept) : kept[n] \in CacheItems
    BY <1>1
  <2>2. kept' \in [1..Len(kept) -> CacheItems]
    BY <1>1, <1>7, <2>1 DEF CacheItems
  <2>3. kept' \in Seq(CacheItems) /\ Len(kept') = Len(kept)
    BY <1>1, <2>2
  <2>. QED
    BY <1>1, <1>7, <2>1, <2>3 DEF CacheItems
<1>9. /\ h \in [1..Len(kept') -> 1..Len(kept)] /\ \A m, n \in 1..Len(kept') : m < n => h[m] < h[n]
      /\ \A n \in 1..Len(kept) : h[n] = n
  BY <1>8
<1>. HIDE DEF h
<1>10. \A n \in 1..Len(kept') : kept'[n].key = kept[h[n]].key /\ (~ kept'[n].old => ~ kept[h[n]].old)
  BY <1>8, <1>9
<1>11. ASSUME NEW n \in 1..Len(kept), NEW q \in 1..Len(recent), ~ kept[n].old, kept[n].key = recent[q]
       PROVE  (\E j \in 1..Len(kept') : h[j] = n /\ ~ kept'[j].old) <=> \E j \in 1..Len(u) : g[j] = q
  <2>1. CASE n = i
    BY <1>6, <1>7, <1>8, <1>9, <1>11, <2>1
  <2>2. CASE n # i
    <3>1. kept[n].key # key
      BY <1>1, <1>7, <2>2 DEF Follows
    <3>. QED
      BY <1>6, <1>8, <1>9, <1>11, <2>2, <3>1
  <2>. QED
    BY <2>1, <2>2
<1>12. Follows(kept', u)
  <2>1. Len(kept') \in Nat
    BY <1>1, <1>8
  <2>2. \A n \in 1..Len(u) : u[n] = recent[g[n]]
    BY <1>6
  <2>3. Rises(h, kept', kept) /\ Rises(g, u, recent)
    BY <1>1, <1>5, <1>6, <1>9, <2>1 DEF Rises
  <2>4. Thins(h, g, kept, kept', recent, u)
    BY <1>10, <1>11, <2>2, <2>3 DEF Thins
  <2>. QED
    BY <1>1, <2>4, Thinned
<1>. QED
  BY <1>1, <1>2, <1>3, <1>8, <1>12 DEF CacheInv

\* What is fresh in the cache are the last keys of the history.
LEMMA LastAreFresh ==
  ASSUME CacheInv
  PROVE  Cache!LruKeepsRecent
<1>. DEFINE fresh == {kept[i].key : i \in {j \in DOMAIN kept : ~ kept[j].old}}
            L == Len(recent)
            Q == {q \in 1..L : recent[q] \in fresh}
            c == Cardinality(fresh)
            a == L - c + 1
            last == SubSeq(recent, a, L)
<1>1. /\ kept \in Seq(CacheItems) /\ recent \in Seq(Keys) /\ L \in Nat
      /\ Len(kept) <= CacheEntries /\ Follows(kept, recent) /\ DOMAIN kept = 1..Len(kept)
  BY DEF CacheInv
<1>2. /\ \A x \in fresh : \E i \in 1..Len(kept) : ~ kept[i].old /\ kept[i].key = x
      /\ \A i \in 1..Len(kept) : ~ kept[i].old => kept[i].key \in fresh
  BY <1>1
<1>. HIDE DEF fresh
<1>3. ASSUME NEW x \in fresh PROVE \E q \in Q : recent[q] = x
  <2>1. PICK i \in 1..Len(kept) : ~ kept[i].old /\ kept[i].key = x
    BY <1>2
  <2>2. PICK q \in 1..L : recent[q] = x
    BY <1>1, <2>1 DEF Follows
  <2>. QED
    BY <2>2
<1>4. ASSUME NEW q \in Q, NEW p \in 1..L, q < p PROVE p \in Q
  <2>1. PICK i \in 1..Len(kept) : ~ kept[i].old /\ kept[i].key = recent[q]
    BY <1>2
  <2>2. PICK j \in 1..Len(kept) : ~ kept[j].old /\ kept[j].key = recent[p]
    BY <1>1, <1>4, <2>1 DEF Follows
  <2>3. recent[p] \in fresh
    BY <1>2, <2>2
  <2>. QED
    BY <2>3
<1>5. IsFiniteSet(Q) /\ Cardinality(Q) \in Nat /\ Cardinality(Q) <= L
  <2>1. Q \in SUBSET (1..L)
    OBVIOUS
  <2>. HIDE DEF Q
  <2>. QED
    BY <1>1, <2>1, RankRises
<1>6. c = Cardinality(Q)
  <2>. DEFINE f == [q \in Q |-> recent[q]]
  <2>1. f \in [Q -> fresh]
    OBVIOUS
  <2>2. \A x, y \in Q : f[x] = f[y] => x = y
    BY <1>1 DEF Follows
  <2>3. \A x \in fresh : \E q \in Q : f[q] = x
    BY <1>3
  <2>. HIDE DEF f, Q
  <2>4. f \in Bijection(Q, fresh)
    BY <2>1, <2>2, <2>3 DEF Bijection, Injection, Surjection, IsInjective
  <2>5. ExistsBijection(Q, fresh)
    BY <2>4 DEF ExistsBijection
  <2>. QED
    BY <1>5, <2>5, FS_Bijection
<1>. HIDE DEF c
<1>7. c \in Nat /\ a \in 1..(L + 1)
  BY <1>1, <1>5, <1>6
<1>8. Q = a..L
  <2>1. CASE Q = {}
    <3>1. c = 0
      BY <1>6, <2>1, FS_EmptySet
    <3>. QED
      BY <1>1, <2>1, <3>1
  <2>2. CASE Q # {}
    <3>1. Q \subseteq Nat
      OBVIOUS
    <3>2. PICK m \in Q : \A q \in Q : m <= q
      BY <2>2, <3>1, Smallest
    <3>3. Q = m..L
      <4>1. \A q \in Q : q \in m..L
        BY <1>1, <3>2
      <4>2. \A q \in m..L : q \in 1..L /\ (q = m \/ m < q)
        BY <1>1, <3>2
      <4>3. \A q \in m..L : q \in Q
        BY <1>4, <3>2, <4>2
      <4>. QED
        BY <4>1, <4>3
    <3>4. m \in 1..L
      BY <3>2
    <3>. HIDE DEF Q
    <3>5. Cardinality(m..L) = L - m + 1
      BY <1>1, <3>4, FS_Interval
    <3>6. a = m
      BY <1>1, <1>6, <3>3, <3>4, <3>5
    <3>. QED
      BY <3>3, <3>6
  <2>. QED
    BY <2>1, <2>2
<1>9. /\ DOMAIN last = 1..(L - a + 1)
      /\ \A n \in 1..(L - a + 1) : last[n] = recent[n + (a - 1)]
  <2>. HIDE DEF a
  <2>. QED
    BY <1>1, <1>7
<1>. HIDE DEF last
<1>10. /\ \A n \in 1..(L - a + 1) : n + (a - 1) \in a..L
       /\ \A q \in a..L : q - (a - 1) \in 1..(L - a + 1) /\ (q - (a - 1)) + (a - 1) = q
  BY <1>1, <1>7
<1>. HIDE DEF a
<1>11. fresh = {last[n] : n \in DOMAIN last}
  <2>1. \A n \in DOMAIN last : last[n] \in fresh
    BY <1>8, <1>9, <1>10
  <2>2. ASSUME NEW x \in fresh PROVE \E n \in DOMAIN last : last[n] = x
    <3>1. PICK q \in Q : recent[q] = x
      BY <1>3
    <3>2. q \in a..L
      BY <1>8
    <3>. QED
      BY <1>9, <1>10, <3>1, <3>2
  <2>. QED
    BY <2>1, <2>2
<1>. QED
  BY <1>1, <1>11 DEF Cache!LruKeepsRecent, Cache!ToSet, Cache!Cardinality, Cardinality, fresh, last, a, c

LEMMA CacheStep ==
  ASSUME [Next]_vars
  PROVE  [Cache!Next]_cacheVars
BY DEF Next, Only, Stays, Parts, vars, cacheVars

LEMMA CacheKeeps ==
  ASSUME CacheAssumption, CacheInv, [Cache!Next]_cacheVars
  PROVE  CacheInv'
<1>1. CASE UNCHANGED cacheVars
  BY <1>1 DEF cacheVars, CacheInv, Follows
<1>2. ASSUME NEW key \in Keys, Cache!Get(key) \/ Cache!Set(key) \/ Cache!Age(key)
      PROVE  CacheInv'
  BY <1>2, GetKeeps, SetKeeps, AgeKeeps
<1>3. CASE Cache!Sweep
  <2>1. /\ kept \in Seq(CacheItems) /\ recent \in Seq(Keys) /\ Len(kept) <= CacheEntries
        /\ Follows(kept, recent) /\ Len(kept) \in Nat /\ CacheEntries \in Nat
    BY DEF CacheInv, CacheAssumption
  <2>2. kept' = Cache!PruneExpired(kept) /\ recent' = recent
    BY <1>3 DEF Cache!Sweep
  <2>3. kept' \in Seq(CacheItems) /\ Len(kept') <= Len(kept) /\ Follows(kept', recent)
    BY <2>1, <2>2, Pruned
  <2>4. Len(kept') \in Nat /\ Len(kept') <= CacheEntries
    BY <2>1, <2>3
  <2>. QED
    BY <2>1, <2>2, <2>3, <2>4 DEF CacheInv
<1>4. CASE Cache!Clear
  <2>1. kept' = <<>> /\ recent' = <<>>
    BY <1>4 DEF Cache!Clear
  <2>2. Follows(<<>>, <<>>)
    BY DEF Follows
  <2>. QED
    BY <2>1, <2>2 DEF CacheInv, CacheAssumption
<1>. QED
  BY <1>1, <1>2, <1>3, <1>4 DEF Cache!Next, cacheVars

(***************************************************************************)
(* LruKeepsRecent: for any bound, keys, and sequence of reads, writes,     *)
(* sweeps and clears, and whenever entries grow old, the cache is within   *)
(* its bound and answers the keys used last of all that were set and are   *)
(* not too old.                                                            *)
(***************************************************************************)
THEOREM CacheKeepsRecent == CacheAssumption /\ FairSpec => []LruKeepsRecent
<1>. SUFFICES ASSUME CacheAssumption PROVE FairSpec => []LruKeepsRecent
  OBVIOUS
<1>1. Init => CacheInv
  <2>. SUFFICES ASSUME Init PROVE CacheInv
    OBVIOUS
  <2>1. kept = <<>> /\ recent = <<>>
    BY DEF Init, Cache!Init
  <2>2. Follows(<<>>, <<>>)
    BY DEF Follows
  <2>. QED
    BY <2>1, <2>2 DEF CacheInv, CacheAssumption
<1>2. CacheInv /\ [Next]_vars => CacheInv'
  BY CacheStep, CacheKeeps
<1>3. CacheInv => LruKeepsRecent
  BY LastAreFresh DEF LruKeepsRecent
<1>. QED
  BY <1>1, <1>2, <1>3, PTL DEF FairSpec
=============================================================================
