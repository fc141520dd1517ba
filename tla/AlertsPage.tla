------------------------------ MODULE AlertsPage ------------------------------
(***************************************************************************)
(* The page of the alerts (dashboard/src/pages/AlertsPage.jsx, the panel   *)
(* components/AlertsPanel.jsx and fetchAlerts of useDashboardData.js): the *)
(* list of alerts with their owner notes, and the detail of one of them    *)
(* with its employees, their search and pages, and the field of the note.  *)
(* No request is aborted and no answer is told from an older one.  While   *)
(* the list is being loaded the panel is not there, so what was open or    *)
(* typed in it is gone; a note under way is not.  The service answers the  *)
(* list from its cache, which a note empties                               *)
(* (controllers/alerts.controller.js).                                     *)
(*                                                                         *)
(* A note is the number of the request that wrote it, 0 the first; the     *)
(* words in the field are known by the alert they were typed or loaded     *)
(* for, the rows by what was asked for.                                    *)
(***************************************************************************)
EXTENDS Naturals, Sequences, SequencesExt

CONSTANTS
  Alerts,
  NoAlert,
  Searches,      \* what may be searched for
  NoSearch,      \* the empty search, one of them
  Pages, Sizes,  \* numbers of pages, from 1, and rows of a page
  MaxActs,       \* bound: what the user does
  MaxFetches,    \* bound: requests for employees under way
  MaxNotes,      \* bound: notes sent
  MaxReloads,    \* bound: loads of the list under way
  MaxLost        \* bound: requests that fail

VARIABLES
  stored,   \* the notes of the service
  cache,    \* the list the service keeps, and whether a note was written
            \* after it was read and before it was kept
  feed,     \* the page's list: its notes, whether it is loading or failed
  panel,    \* the detail
  fetches,  \* the loads of employees under way, as they were asked for
  notes,    \* the notes under way
  reloads,  \* the loads of the list under way
  acts, sent, lost,
  crossed,  \* a note and a load of the list were under way together, or two
            \* of a kind, and the list was not loaded since; or the list came
            \* from a cache that is older than a note
  overtaken \* the rows asked for last came before older ones

vars == <<stored, cache, feed, panel, fetches, notes, reloads, acts, sent, lost, crossed, overtaken>>

Nothing == [alert |-> NoAlert, page |-> 1, size |-> 1, search |-> NoSearch]

\* The panel as it is made: nothing open.
Fresh == [sel |-> NoAlert, note |-> 0, draft |-> NoAlert, typed |-> NoSearch,
          search |-> NoSearch, waiting |-> TRUE, page |-> 1,
          size |-> CHOOSE s \in Sizes : \A z \in Sizes : s =< z,
          busy |-> FALSE, rows |-> Nothing, loading |-> FALSE, failed |-> FALSE]

\* AlertsPage shows the panel if it has a list and no load or error.
Mounted(f) == ~f.loading /\ ~f.error /\ f.notes # <<>>

Wanted(p) == [alert |-> p.sel, page |-> p.page, size |-> p.size, search |-> p.search]

\* The words in the field if only an empty field is filled.
WordsKept(p) == IF p.draft # NoAlert THEN p.draft ELSE p.sel

\* The words in the field are put back when another alert is open.
WordsOf(p) == IF p.sel = panel.sel THEN p.draft ELSE p.sel

\* The open alert as it would be if no list replaced it.
SyncedOnOpening(p, f) == p

\* The open alert is replaced by that of a list that changed.
Synced(p, f) == IF p.sel = NoAlert THEN p ELSE [p EXCEPT !.note = f.notes[p.sel]]

\* The panel becomes p: what it shows is fetched if the alert is another one
\* or a new object ("renewed"), or the choice is another.
Renders(p, renewed, left) ==
  LET asks == p.sel # NoAlert /\ (renewed \/ Wanted(p) # Wanted(panel))
      all == IF asks THEN Append(left, Wanted(p)) ELSE left
  IN /\ Len(all) =< MaxFetches
     /\ panel' = [p EXCEPT !.draft = WordsOf(p), !.loading = @ \/ asks,
                           !.failed = @ /\ ~asks]
     /\ fetches' = all
     /\ overtaken' = (overtaken /\ ~asks)

\* The panel is gone, and made anew if the list f can be shown.
Removed == panel' = Fresh /\ fetches' = <<>> /\ overtaken' = FALSE

Act == acts < MaxActs /\ acts' = acts + 1
Failing == lost < MaxLost /\ lost' = lost + 1

-----------------------------------------------------------------------------
(* The detail.                                                             *)

\* openAlertDetail, from a card or from the queue of follow-ups; the detail
\* lies over both.
Open(a) ==
  /\ Act
  /\ Mounted(feed) /\ panel.sel = NoAlert
  /\ Renders([panel EXCEPT !.sel = a, !.note = feed.notes[a], !.typed = NoSearch,
                !.search = NoSearch, !.waiting = @ \/ panel.typed # NoSearch, !.page = 1,
                !.rows = Nothing, !.failed = FALSE], TRUE, fetches)
  /\ UNCHANGED <<stored, cache, feed, notes, reloads, sent, lost, crossed>>

\* closeModal
Close ==
  /\ Act
  /\ panel.sel # NoAlert
  /\ Renders([panel EXCEPT !.sel = NoAlert, !.typed = NoSearch, !.search = NoSearch,
                !.waiting = @ \/ panel.typed # NoSearch, !.page = 1,
                !.rows = Nothing, !.failed = FALSE], FALSE, fetches)
  /\ UNCHANGED <<stored, cache, feed, notes, reloads, sent, lost, crossed>>

TypeSearch(s) ==
  /\ Act
  /\ panel.sel # NoAlert /\ s # panel.typed
  /\ Renders([panel EXCEPT !.typed = s, !.waiting = TRUE], FALSE, fetches)
  /\ UNCHANGED <<stored, cache, feed, notes, reloads, sent, lost, crossed>>

\* Three tenths of a second after the last key, and after the panel is made.
Debounced ==
  /\ Mounted(feed) /\ panel.waiting
  /\ Renders([panel EXCEPT !.search = panel.typed, !.page = 1, !.waiting = FALSE], FALSE, fetches)
  /\ UNCHANGED <<stored, cache, feed, notes, reloads, acts, sent, lost, crossed>>

\* The buttons of the pages are off while rows are loading, handlePageSizeChange
\* never is.
TurnPage(n) ==
  /\ Act
  /\ panel.sel # NoAlert /\ ~panel.loading /\ n # panel.page
  /\ Renders([panel EXCEPT !.page = n], FALSE, fetches)
  /\ UNCHANGED <<stored, cache, feed, notes, reloads, sent, lost, crossed>>

ChangeSize(n) ==
  /\ Act
  /\ panel.sel # NoAlert /\ n # panel.size
  /\ Renders([panel EXCEPT !.size = n, !.page = 1], FALSE, fetches)
  /\ UNCHANGED <<stored, cache, feed, notes, reloads, sent, lost, crossed>>

\* fetchEmployees: whichever answer comes shows its rows.
RowsAnswered(i) ==
  /\ panel' = [panel EXCEPT !.rows = fetches[i], !.loading = FALSE]
  /\ fetches' = RemoveAt(fetches, i)
  /\ overtaken' = (overtaken \/ (i = Len(fetches) /\ i > 1))
  /\ UNCHANGED <<stored, cache, feed, notes, reloads, acts, sent, lost, crossed>>

\* The rows that are shown stay.
RowsFail(i) ==
  /\ Failing
  /\ panel' = [panel EXCEPT !.failed = TRUE, !.loading = FALSE]
  /\ fetches' = RemoveAt(fetches, i)
  /\ overtaken' = (overtaken \/ (i = Len(fetches) /\ i > 1))
  /\ UNCHANGED <<stored, cache, feed, notes, reloads, acts, sent, crossed>>

-----------------------------------------------------------------------------
(* The owner note.                                                         *)

NoList == [notes |-> <<>>, old |-> FALSE]

\* The note saved without a word to the cache.
ClearNothing == UNCHANGED <<cache, reloads>>

\* A list that was read before and is not yet kept is older than the note.
ClearCache ==
  /\ cache' = NoList
  /\ reloads' = [i \in DOMAIN reloads |-> [reloads[i] EXCEPT !.old = @ \/ reloads[i].at = "read"]]

\* The field is typed in.
TypeNote ==
  /\ panel.sel # NoAlert /\ panel.draft # panel.sel
  /\ panel' = [panel EXCEPT !.draft = panel.sel]
  /\ UNCHANGED <<stored, cache, feed, fetches, notes, reloads, acts, sent, lost, crossed, overtaken>>

\* handleAcknowledge, with the alert and the words of the moment.
Acknowledge ==
  /\ Act
  /\ panel.sel # NoAlert /\ ~panel.busy
  /\ sent < MaxNotes
  /\ sent' = sent + 1
  /\ panel' = [panel EXCEPT !.busy = TRUE]
  /\ notes' = Append(notes, [alert |-> panel.sel, words |-> panel.draft, number |-> sent + 1,
                             here |-> TRUE, at |-> "sent"])
  /\ crossed' = (crossed \/ notes # <<>> \/ reloads # <<>>)
  /\ UNCHANGED <<stored, cache, feed, fetches, reloads, lost, overtaken>>

\* acknowledgeAlert of the service, or a failure before it.
ServeNote(i) ==
  /\ notes[i].at = "sent"
  /\ \/ /\ notes' = [notes EXCEPT ![i].at = "done"]
        /\ stored' = [stored EXCEPT ![notes[i].alert] = notes[i].number]
        /\ ClearCache
        /\ UNCHANGED lost
     \/ /\ Failing
        /\ notes' = [notes EXCEPT ![i].at = "failed"]
        /\ UNCHANGED <<stored, cache, reloads>>
  /\ UNCHANGED <<feed, panel, fetches, acts, sent, crossed, overtaken>>

\* The note of the open alert, whichever it is, becomes the one that was
\* answered; the page corrects its list, and the open alert is replaced by
\* that of the list, which fetches its employees twice: once says the same.
NoteAnswered(i) ==
  LET n == notes[i]
      f == IF feed.notes = <<>> THEN feed ELSE [feed EXCEPT !.notes[n.alert] = n.number]
      idle == IF n.here THEN [panel EXCEPT !.busy = FALSE] ELSE panel
      told == IF n.here /\ panel.sel # NoAlert THEN [idle EXCEPT !.note = n.number] ELSE idle
  IN /\ n.at # "sent"
     /\ notes' = RemoveAt(notes, i)
     /\ IF n.at = "done"
        THEN feed' = f /\ (IF Mounted(f) THEN Renders(Synced(told, f), TRUE, fetches)
                           ELSE UNCHANGED <<panel, fetches, overtaken>>)
        ELSE panel' = idle /\ UNCHANGED <<feed, fetches, overtaken>>
     /\ UNCHANGED <<stored, cache, reloads, acts, sent, lost, crossed>>

-----------------------------------------------------------------------------
(* The list.                                                               *)

Asked == [at |-> "asked", notes |-> <<>>, old |-> FALSE]

\* fetchAlerts, from a button of the page, which is off while the list is
\* loading, or after the alert settings were saved, which is not.
Reload ==
  /\ Act
  /\ Len(reloads) < MaxReloads
  /\ reloads' = Append(reloads, Asked)
  /\ feed' = [feed EXCEPT !.loading = TRUE, !.error = FALSE]
  /\ Removed
  /\ notes' = [i \in DOMAIN notes |-> [notes[i] EXCEPT !.here = FALSE]]
  /\ crossed' = (notes # <<>> \/ reloads # <<>>)
  /\ UNCHANGED <<stored, cache, sent, lost>>

\* getTriggeredAlerts: the alerts are read, then the cache is asked.
ReadAlerts(i) ==
  /\ reloads[i].at = "asked"
  /\ reloads' = [reloads EXCEPT ![i] =
       IF cache.notes = <<>> THEN [at |-> "read", notes |-> stored, old |-> FALSE]
       ELSE [at |-> "done", notes |-> cache.notes, old |-> cache.old]]
  /\ UNCHANGED <<stored, cache, feed, panel, fetches, notes, acts, sent, lost, crossed, overtaken>>

\* After the queries for its figures the list is kept and answered.
KeepAlerts(i) ==
  /\ reloads[i].at = "read"
  /\ cache' = [notes |-> reloads[i].notes, old |-> reloads[i].old]
  /\ reloads' = [reloads EXCEPT ![i].at = "done"]
  /\ UNCHANGED <<stored, feed, panel, fetches, notes, acts, sent, lost, crossed, overtaken>>

\* The time to live of the entry ends, or another change clears the cache.
CacheAges ==
  /\ cache # NoList
  /\ cache' = NoList
  /\ UNCHANGED <<stored, feed, panel, fetches, notes, reloads, acts, sent, lost, crossed, overtaken>>

\* The end of any load is taken for the end of loading.
ListBecomes(f) ==
  /\ feed' = f
  /\ IF Mounted(feed) /\ Mounted(f) THEN Renders(Synced(panel, f), TRUE, fetches) ELSE Removed
  /\ notes' = IF Mounted(f) THEN notes
              ELSE [i \in DOMAIN notes |-> [notes[i] EXCEPT !.here = FALSE]]

AlertsAnswered(i) ==
  /\ reloads[i].at = "done"
  /\ reloads' = RemoveAt(reloads, i)
  /\ ListBecomes([feed EXCEPT !.notes = reloads[i].notes, !.loading = FALSE])
  /\ crossed' = (crossed \/ reloads[i].old)
  /\ UNCHANGED <<stored, cache, acts, sent, lost>>

AlertsFail(i) ==
  /\ Failing
  /\ reloads' = RemoveAt(reloads, i)
  /\ ListBecomes([notes |-> <<>>, loading |-> FALSE, error |-> TRUE])
  /\ UNCHANGED <<stored, cache, acts, sent, crossed>>

-----------------------------------------------------------------------------

Init ==
  /\ stored = [a \in Alerts |-> 0]
  /\ feed = [notes |-> <<>>, loading |-> TRUE, error |-> FALSE]
  /\ panel = Fresh
  /\ fetches = <<>> /\ notes = <<>>
  /\ reloads = <<Asked>> /\ cache = NoList
  /\ acts = 0 /\ sent = 0 /\ lost = 0
  /\ crossed = FALSE /\ overtaken = FALSE

Next ==
  \/ \E a \in Alerts : Open(a)
  \/ Close \/ Debounced \/ TypeNote \/ Acknowledge \/ Reload \/ CacheAges
  \/ \E s \in Searches : TypeSearch(s)
  \/ \E n \in Pages : TurnPage(n)
  \/ \E n \in Sizes : ChangeSize(n)
  \/ \E i \in DOMAIN fetches : RowsAnswered(i) \/ RowsFail(i)
  \/ \E i \in DOMAIN notes : ServeNote(i) \/ NoteAnswered(i)
  \/ \E i \in DOMAIN reloads : 
       ReadAlerts(i) \/ KeepAlerts(i) \/ AlertsAnswered(i) \/ AlertsFail(i)

Spec == Init /\ [][Next]_vars

-----------------------------------------------------------------------------

\* The words typed for one alert, or its own older note, are never sent as
\* the note of another.
WordsReachTheirAlert ==
  \A i \in DOMAIN notes : notes[i].words = notes[i].alert

\* With no note and no list under way, the notes of the list and of the open
\* alert are those of the service: an answer that found another alert open
\* leaves no trace on it, and no list comes from a cache that a note should
\* have emptied.  Except where a list was read before a note was written and
\* came after it, or two notes ran at once (crossed), until the next load;
\* and while the service keeps a list that was read before a note and kept
\* after it, for the cache was emptied too early for it.
NotesShownAreStored ==
  (notes = <<>> /\ reloads = <<>> /\ ~crossed /\ Mounted(feed)) =>
    /\ feed.notes = stored
    /\ panel.sel # NoAlert => panel.note = stored[panel.sel]

\* With no employees under way, the rows are those of the open alert, the
\* search, the page and the size chosen, unless their load failed, or they
\* came before older ones (overtaken), which then replace them.
EmployeesAreOfAlert ==
  (panel.sel # NoAlert /\ fetches = <<>> /\ ~panel.failed /\ ~overtaken) =>
    panel.rows = Wanted(panel)
=============================================================================
