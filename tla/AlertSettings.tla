---------------------------- MODULE AlertSettings -----------------------------
(***************************************************************************)
(* The settings of the alerts: the modal (AlertSettingsModal.jsx) with one *)
(* draft per type of alert, the contract of the service                    *)
(* (normalizeAlertConfigPayload of dashboardContracts.js) and the rules    *)
(* stored.  Of a type there may be several rules, of which one is active;  *)
(* the modal shows and saves one of them.  The threshold stands for all    *)
(* that is typed; it is counted in halves.  That two requests may both     *)
(* find no active rule is the subject of DashboardAlerts.                  *)
(***************************************************************************)
EXTENDS Integers, Sequences, SequencesExt

CONSTANTS
  Kinds,         \* the types of alerts
  Monthly,       \* those without a threshold
  NoValue,       \* no value
  MaxRules,      \* bound: rules ever made
  MaxSteps,      \* bound: what the user does
  MaxWrongs      \* bound: writes of others, and answers lost

VARIABLES
  rules,         \* the rules, the one written last at the end
  made,          \* how many were ever made
  modal,         \* drafts, selected, loading, refreshing, saving
  loads,         \* the loads under way: by what, and the rules read
  save,          \* the save under way
  edited,        \* the types whose draft was changed since it was loaded
  odd,           \* loads overlapped, one failed, or somebody else wrote since
  steps, wrongs

vars == <<rules, made, modal, loads, save, edited, odd, steps, wrongs>>

DefaultThreshold(t) == IF t \in Monthly THEN 0 ELSE 40
Inputs == {NoValue, 3, 10, 800}

Rule(id, t, th, active) == [id |-> id, type |-> t, th |-> th, active |-> active]
\* The places in the list of the rules of one type.
OfType(list, t) == {n \in DOMAIN list : list[n].type = t}

\* Mutant: the rule written last is shown, whether it is active or not.
PickNewest(list, mine) == list[Max(mine)]

\* pickPrimaryAlert: the active one before the others, then the newest
PickPrimary(list, mine) ==
  LET active == {n \in mine : list[n].active}
  IN list[Max(IF active # {} THEN active ELSE mine)]

\* buildDrafts; id 0 is a rule that is not there
DraftOf(list, t) ==
  LET mine == OfType(list, t)
  IN IF mine = {} THEN [id |-> 0, th |-> DefaultThreshold(t), active |-> TRUE]
     ELSE LET r == PickPrimary(list, mine) IN [id |-> r.id, th |-> r.th, active |-> r.active]
Drafts(list) == [t \in Kinds |-> DraftOf(list, t)]

NoSave == [at |-> "none"]
\* A load, and whether it is alone under way and nobody else writes.
Load(by, alone) == [by |-> by, alone |-> alone, read |-> FALSE, list |-> <<>>]
Disturbed(list) == [n \in DOMAIN list |-> [list[n] EXCEPT !.alone = FALSE]]

Init ==
  /\ \E first \in Kinds : modal = [drafts |-> Drafts(<<>>), selected |-> first,
                                   loading |-> TRUE, refreshing |-> FALSE, saving |-> FALSE]
  /\ \/ rules = <<>> /\ made = 0
     \/ \E t \in Kinds : rules = <<Rule(1, t, DefaultThreshold(t), FALSE)>> /\ made = 1
     \/ \E t \in Kinds : /\ rules = <<Rule(2, t, DefaultThreshold(t), TRUE),
                                      Rule(1, t, DefaultThreshold(t), FALSE)>>
                         /\ made = 2
  /\ loads = <<Load("mount", TRUE)>>
  /\ save = NoSave /\ edited = {} /\ odd = FALSE /\ steps = 0 /\ wrongs = 0

-----------------------------------------------------------------------------
\* The user, where the form is not hidden by the first load.
Acts == ~modal.loading /\ steps < MaxSteps /\ steps' = steps + 1
Same == UNCHANGED <<rules, made, wrongs>>

Select(t) ==
  /\ t # modal.selected /\ Acts /\ modal' = [modal EXCEPT !.selected = t]
  /\ Same /\ UNCHANGED <<loads, save, edited, odd>>

\* handleFieldChange
Changes(field, v) ==
  /\ Acts /\ modal.drafts[modal.selected][field] # v
  /\ modal' = [modal EXCEPT !.drafts[modal.selected][field] = v]
  /\ edited' = edited \cup {modal.selected}
  /\ Same /\ UNCHANGED <<loads, save, odd>>

Change ==
  \/ modal.selected \notin Monthly /\ \E v \in Inputs : Changes("th", v)
  \/ \E v \in BOOLEAN : Changes("active", v)

\* loadAlerts: of two at once the one answered last is shown
Loads(by) ==
  loads' = Append(Disturbed(loads), Load(by, loads = <<>>))

Refresh ==
  /\ ~modal.refreshing /\ Acts
  /\ Loads("refresh") /\ modal' = [modal EXCEPT !.refreshing = TRUE]
  /\ Same /\ UNCHANGED <<save, edited, odd>>

\* normalizeDraftThreshold
DraftThreshold(t, th) ==
  IF t \in Monthly \/ th = NoValue THEN DefaultThreshold(t) ELSE th

\* handleSave, with the type selected and its draft
Save ==
  /\ ~modal.saving /\ Acts
  /\ LET t == modal.selected
         d == modal.drafts[t]
     IN save' = [at |-> "asked", odd |-> odd,
                 do |-> Rule(d.id, t, DraftThreshold(t, d.th), d.active)]
  /\ modal' = [modal EXCEPT !.saving = TRUE]
  /\ Same /\ UNCHANGED <<loads, edited, odd>>

-----------------------------------------------------------------------------
\* The service.  normalizeThreshold takes whole days of a year only.
ThresholdIsBad(r) == r.type \notin Monthly /\ (r.th % 2 # 0 \/ r.th > 730)
Has(id) == \E n \in DOMAIN rules : rules[n].id = id
ActiveBeside(r) == \E n \in DOMAIN rules : rules[n].type = r.type /\ rules[n].active
                                             /\ rules[n].id # r.id
RuleRefused(r) == ThresholdIsBad(r) \/ (r.active /\ ActiveBeside(r)) \/ (r.id # 0 /\ ~Has(r.id))

\* What is written becomes the newest.
Written(r) ==
  LET n == CHOOSE n \in DOMAIN rules : rules[n].id = r.id IN Append(RemoveAt(rules, n), r)

ServeSave ==
  /\ save.at = "asked"
  /\ LET r == save.do
     IN IF RuleRefused(r) THEN save' = [save EXCEPT !.at = "refused"] /\ UNCHANGED <<rules, made>>
        ELSE /\ save' = [save EXCEPT !.at = "done"]
             /\ IF r.id # 0 THEN rules' = Written(r) /\ UNCHANGED made
                ELSE /\ made < MaxRules /\ made' = made + 1
                     /\ rules' = Append(rules, [r EXCEPT !.id = made + 1])
  /\ UNCHANGED <<modal, loads, edited, odd, steps, wrongs>>

ServeLoad(n) ==
  /\ ~loads[n].read
  /\ loads' = [loads EXCEPT ![n].read = TRUE, ![n].list = rules]
  /\ UNCHANGED <<rules, made, modal, save, edited, odd, steps, wrongs>>

\* Another manager makes a rule, or changes one.
OtherWrites ==
  /\ wrongs < MaxWrongs /\ wrongs' = wrongs + 1
  /\ \/ \E n \in DOMAIN rules :
          LET r == [rules[n] EXCEPT !.active = ~@]
          IN ~RuleRefused(r) /\ rules' = Written(r) /\ UNCHANGED made
     \/ \E t \in Kinds : LET r == Rule(made + 1, t, DefaultThreshold(t), TRUE)
                         IN /\ made < MaxRules /\ ~ActiveBeside(r)
                            /\ rules' = Append(rules, r) /\ made' = made + 1
  /\ odd' = TRUE /\ loads' = Disturbed(loads)
  /\ save' = IF save = NoSave THEN save ELSE [save EXCEPT !.odd = TRUE]
  /\ UNCHANGED <<modal, edited, steps>>

-----------------------------------------------------------------------------
\* The answers.
AfterLoad(by) ==
  [modal EXCEPT !.loading = @ /\ by # "mount", !.refreshing = @ /\ by = "mount",
                !.saving = @ /\ by # "save"]

LoadAnswered(n) ==
  /\ loads[n].read
  /\ modal' = [AfterLoad(loads[n].by) EXCEPT !.drafts = Drafts(loads[n].list)]
  /\ edited' = {} /\ loads' = RemoveAt(loads, n) /\ odd' = ~loads[n].alone
  /\ UNCHANGED <<rules, made, save, steps, wrongs>>

LoadFails(n) ==
  /\ wrongs < MaxWrongs /\ wrongs' = wrongs + 1
  /\ modal' = AfterLoad(loads[n].by)
  /\ loads' = RemoveAt(loads, n) /\ odd' = TRUE
  /\ UNCHANGED <<rules, made, save, edited, steps>>

\* Mutant: the rules are not loaded again, the save is merely over.
SavedOnly ==
  /\ save.at = "done" /\ save' = NoSave
  /\ modal' = [modal EXCEPT !.saving = FALSE] /\ edited' = edited \ {save.do.type}
  /\ UNCHANGED <<rules, made, loads, odd, steps, wrongs>>

\* After a save the rules are loaded again, all drafts with them.
Saved ==
  /\ save.at = "done" /\ save' = NoSave
  /\ Loads("save") /\ modal' = [modal EXCEPT !.refreshing = TRUE]
  /\ UNCHANGED <<rules, made, edited, odd, steps, wrongs>>

SaveEnds == save' = NoSave /\ modal' = [modal EXCEPT !.saving = FALSE]

SaveRefused ==
  /\ save.at = "refused" /\ SaveEnds
  /\ UNCHANGED <<rules, made, loads, edited, odd, steps, wrongs>>

\* The answer, or the request, is lost.
SaveLost ==
  /\ save.at \in {"asked", "done"} /\ SaveEnds
  /\ wrongs < MaxWrongs /\ wrongs' = wrongs + 1
  /\ odd' = TRUE /\ loads' = Disturbed(loads)
  /\ UNCHANGED <<rules, made, edited, steps>>

Next ==
  \/ \E t \in Kinds : Select(t)
  \/ Change \/ Refresh \/ Save \/ ServeSave \/ OtherWrites
  \/ \E n \in DOMAIN loads : ServeLoad(n) \/ LoadAnswered(n) \/ LoadFails(n)
  \/ Saved \/ SaveRefused \/ SaveLost

Spec == Init /\ [][Next]_vars

-----------------------------------------------------------------------------
\* With nothing under way the modal shows of every type the rule that is in
\* force, or else one that could be, as it is stored; only what was typed
\* since differs.  Known exceptions: loads that overlapped (the button is
\* enabled again by the first one answered, and a save loads beside it), a
\* load or a save that failed, and the writes of others.
SettingsShownAreStored ==
  loads = <<>> /\ save = NoSave /\ ~odd =>
    \A t \in Kinds \ edited :
      LET d == modal.drafts[t]
          mine == OfType(rules, t)
      IN IF mine = {} THEN d.id = 0
         ELSE /\ \E n \in mine : rules[n] = Rule(d.id, t, d.th, d.active)
              /\ (\E n \in mine : rules[n].active) => d.active

\* The modal makes a rule only of a type that has none: it is its own saves
\* that it knows of.  Known exceptions: as above; after a load that failed
\* every rule is taken for missing, and a disabled one is made beside it.
MakesWhatIsMissing ==
  (save.at = "asked" /\ save'.at = "done" /\ save.do.id = 0 /\ ~save.odd)
    => OfType(rules, save.do.type) = {}

NeverMakesTwice == [][MakesWhatIsMissing]_vars
=============================================================================
