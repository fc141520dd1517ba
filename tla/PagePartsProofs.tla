---------------------------- MODULE PagePartsProofs ----------------------------
(***************************************************************************)
(* Safety of the pages that PageParts puts beside each other, for every    *)
(* value of their constants.  A behaviour runs one part, whose invariant   *)
(* is therefore shown of the behaviours that run it.                       *)
(***************************************************************************)
EXTENDS PageParts, Sequences, FiniteSetTheorems, WellFoundedInduction, TLAPS

\* A behaviour runs one part from its beginning.
LEMMA OnePartRuns ==
  ASSUME [PageNext]_pageVars
  PROVE  /\ part' = part
         /\ part = "form" => [Form!Next]_formVars
         /\ part = "analytics" => [Analytics!Next]_analyticsVars
         /\ part = "view" => [View!Next]_drillViewVars
         /\ part = "editor" => [Editor!Next]_editorVars
         /\ part = "alertsPage" => [Detail!Next]_alertsPageVars
         /\ part = "console" => [Console!Next]_consoleVars
         /\ part = "settings" => [Settings!Next]_settingsVars
BY DEF PageNext, OnlyPage, pageVars

(***************************************************************************)
(* The dates of an employee.  What a create is about to save is in order   *)
(* by itself, and what an update was checked against is in order with what *)
(* it writes.                                                              *)
(***************************************************************************)
Clients == Forms \cup {Client}

IsRequest(r) ==
  \/ r = Form!NoRequest
  \/ \E at, mode, payload, found :
       r = [at |-> at, mode |-> mode, payload |-> payload, found |-> found]

DatesInv ==
  /\ DOMAIN request = Clients /\ request = [w \in Clients |-> request[w]]
  /\ \A w \in Clients : IsRequest(request[w])
  /\ \A w \in Clients : request[w].at = "save" =>
       Form!InOrder(Form!Stored(Form!Defaults, request[w].payload))
  /\ \A w \in Clients : request[w].at = "update" =>
       Form!Consistent(request[w].found, request[w].payload)
  /\ Form!DatesAreInOrder

\* What the contract lets through is in order, where both dates are sent.
LEMMA GivenInOrder ==
  ASSUME NEW p, NEW mode, ~ Form!Refused(p, mode)
  PROVE  Form!InOrder(Form!Stored(Form!Defaults, Form!Given(p)))
<1>. DEFINE g == Form!Given(p)
            d == Form!Stored(Form!Defaults, g)
<1>1. \A k \in Form!Dates : k \in DOMAIN g => k \in DOMAIN p /\ g[k] = p[k]
  BY DEF Form!Given, Form!Without, Form!Trim, Form!Dates, Form!Texts
<1>2. \A k \in Form!Dates : d[k] = IF k \in DOMAIN g THEN g[k] ELSE NoValue
  BY DEF Form!Stored, Form!Defaults, Form!Fields, Form!Dates, Form!Texts, Form!Numbers
<1>3. "birthDate" \in Form!Dates /\ "hireDate" \in Form!Dates
      /\ Form!Dates = {"birthDate", "hireDate"}
  BY DEF Form!Dates
<1>. HIDE DEF g, d
<1>4. CASE Form!Dates \subseteq DOMAIN g
  <2>1. Form!Dates \subseteq DOMAIN p
    BY <1>1, <1>4
  <2>2. Form!Before(p.birthDate, p.hireDate)
    BY <2>1 DEF Form!Refused
  <2>. QED
    BY <1>1, <1>2, <1>3, <1>4, <2>2 DEF Form!InOrder, d, g
<1>5. CASE ~ (Form!Dates \subseteq DOMAIN g)
  <2>1. d["birthDate"] = NoValue \/ d["hireDate"] = NoValue
    BY <1>2, <1>3, <1>5
  <2>. QED
    BY <2>1 DEF Form!InOrder, d, g
<1>. QED
  BY <1>4, <1>5

\* What is written where nothing is sent of the dates.
LEMMA DatesStay ==
  ASSUME NEW d, NEW p, Form!Dates \cap DOMAIN p = {}, Form!InOrder(d)
  PROVE  Form!InOrder(Form!Stored(d, p))
BY DEF Form!InOrder, Form!Stored, Form!Dates, Form!Fields, Form!Texts, Form!Numbers

LEMMA InitDates == Form!Init => DatesInv
<1>1. ASSUME NEW p, p.hireDate = 5, p.birthDate = 2, {"hireDate", "birthDate"} \subseteq DOMAIN p
      PROVE  Form!InOrder(Form!Stored(Form!Defaults, p))
  BY <1>1 DEF Form!InOrder, Form!Stored, Form!Fields, Form!Dates, Form!Before
<1>2. Form!Init => Form!DatesAreInOrder
  BY <1>1 DEF Form!Init, Form!Imported, Form!DatesAreInOrder
<1>. QED
  BY <1>2 DEF Form!Init, Form!NoRequest, DatesInv, IsRequest, Clients

\* A step that changes the request of w alone.
Turns(w) == request' = [v \in Clients |-> IF v = w THEN request'[w] ELSE request[v]]

\* If it writes no document.
LEMMA RequestKeepsDates ==
  ASSUME DatesInv, NEW w \in Clients, Turns(w), IsRequest(request'[w]),
         doc' = doc \/ doc' = Form!None, raced' = raced,
         request'[w].at = "save" =>
           Form!InOrder(Form!Stored(Form!Defaults, request'[w].payload)),
         request'[w].at = "update" => Form!Consistent(request'[w].found, request'[w].payload)
  PROVE  DatesInv'
<1>1. Form!DatesAreInOrder'
  BY DEF DatesInv, Form!DatesAreInOrder
<1>2. \A v \in Clients : v # w => request'[v] = request[v]
  BY DEF Turns
<1>3. DOMAIN request' = Clients /\ request' = [v \in Clients |-> request'[v]]
  BY DEF Turns
<1>. QED
  BY <1>1, <1>2, <1>3 DEF DatesInv, Clients

\* If it writes one.
LEMMA WritingKeepsDates ==
  ASSUME DatesInv, NEW w \in Clients, Turns(w), IsRequest(request'[w]),
         request'[w].at \notin {"save", "update"},
         doc' # Form!None /\ ~ raced' => Form!InOrder(doc')
  PROVE  DatesInv'
<1>1. Form!DatesAreInOrder'
  BY DEF Form!DatesAreInOrder, Form!InOrder
<1>2. \A v \in Clients : v # w => request'[v] = request[v]
  BY DEF Turns
<1>3. DOMAIN request' = Clients /\ request' = [v \in Clients |-> request'[v]]
  BY DEF Turns
<1>. QED
  BY <1>1, <1>2, <1>3 DEF DatesInv, Clients

LEMMA RequestSet ==
  ASSUME DatesInv, NEW w \in Clients, NEW r, IsRequest(r), request' = [request EXCEPT ![w] = r]
  PROVE  Turns(w) /\ request'[w] = r
BY DEF DatesInv, Turns

\* How far the service is with a request changes.
LEMMA RequestMoves ==
  ASSUME DatesInv, NEW w \in Clients, request[w].at # "none", NEW at,
         request' = [request EXCEPT ![w].at = at]
  PROVE  /\ Turns(w) /\ IsRequest(request'[w]) /\ request'[w].at = at
         /\ request'[w].payload = request[w].payload
<1>1. PICK a, mode, payload, found :
        request[w] = [at |-> a, mode |-> mode, payload |-> payload, found |-> found]
  BY DEF DatesInv, IsRequest, Form!NoRequest
<1>2. Turns(w)
  BY DEF DatesInv, Turns
<1>3. request'[w] = [at |-> at, mode |-> mode, payload |-> payload, found |-> found]
  BY <1>1 DEF DatesInv
<1>4. IsRequest([at |-> at, mode |-> mode, payload |-> payload, found |-> found])
  BY DEF IsRequest
<1>. QED
  BY <1>1, <1>2, <1>3, <1>4

\* A field of a request is replaced.
LEMMA PayloadReplaced ==
  ASSUME NEW q, NEW w, w \in DOMAIN q, NEW at, NEW mode, NEW payload, NEW found, NEW x,
         q[w] = [at |-> at, mode |-> mode, payload |-> payload, found |-> found]
  PROVE  [q EXCEPT ![w].payload = x][w]
           = [at |-> at, mode |-> mode, payload |-> x, found |-> found]
OBVIOUS

LEMMA FoundReplaced ==
  ASSUME NEW q, NEW w, w \in DOMAIN q, NEW at, NEW mode, NEW payload, NEW found, NEW x,
         q[w] = [at |-> at, mode |-> mode, payload |-> payload, found |-> found]
  PROVE  [q EXCEPT ![w].found = x][w]
           = [at |-> at, mode |-> mode, payload |-> payload, found |-> x]
OBVIOUS

\* And with it what the service made of the payload, or the document it found.
LEMMA RequestGiven ==
  ASSUME DatesInv, NEW w \in Clients, request[w].at # "none", NEW at, NEW x,
         request' = [request EXCEPT ![w].at = at, ![w].payload = x]
  PROVE  /\ Turns(w) /\ IsRequest(request'[w]) /\ request'[w].at = at
         /\ request'[w].payload = x
<1>1. PICK a, mode, payload, found :
        request[w] = [at |-> a, mode |-> mode, payload |-> payload, found |-> found]
  BY DEF DatesInv, IsRequest, Form!NoRequest
<1>2. Turns(w)
  BY DEF DatesInv, Turns
<1>3. [request EXCEPT ![w].at = at][w]
        = [at |-> at, mode |-> mode, payload |-> payload, found |-> found]
  BY <1>1 DEF DatesInv
<1>4. w \in DOMAIN [request EXCEPT ![w].at = at]
  BY DEF DatesInv
<1>5. request' = [[request EXCEPT ![w].at = at] EXCEPT ![w].payload = x]
  OBVIOUS
<1>6. request'[w] = [at |-> at, mode |-> mode, payload |-> x, found |-> found]
  <2>. DEFINE q == [request EXCEPT ![w].at = at]
              t == [q EXCEPT ![w].payload = x]
  <2>1. t[w] = [at |-> at, mode |-> mode, payload |-> x, found |-> found]
    <3>. HIDE DEF q
    <3>1. q[w] = [at |-> at, mode |-> mode, payload |-> payload, found |-> found]
      BY <1>3 DEF q
    <3>2. w \in DOMAIN q
      BY <1>4 DEF q
    <3>. QED
      BY ONLY <3>1, <3>2, PayloadReplaced
  <2>2. request' = t
    BY <1>5
  <2>. QED
    <3>. HIDE DEF q, t
    <3>. QED
      BY ONLY <2>1, <2>2
<1>7. IsRequest([at |-> at, mode |-> mode, payload |-> x, found |-> found])
  BY DEF IsRequest
<1>8. /\ request'[w].at = at
      /\ request'[w].payload = x
      /\ request'[w].found = found
      /\ request[w].payload = payload
  <2>1. request[w].payload = payload
    BY ONLY <1>1
  <2>. QED
    BY ONLY <1>6, <2>1
<1>9. IsRequest(request'[w])
  BY ONLY <1>6, <1>7
<1>. QED
  BY ONLY <1>2, <1>8, <1>9

LEMMA RequestFound ==
  ASSUME DatesInv, NEW w \in Clients, request[w].at # "none", NEW at, NEW x,
         request' = [request EXCEPT ![w].at = at, ![w].found = x]
  PROVE  /\ Turns(w) /\ IsRequest(request'[w]) /\ request'[w].at = at
         /\ request'[w].found = x /\ request'[w].payload = request[w].payload
<1>1. PICK a, mode, payload, found :
        request[w] = [at |-> a, mode |-> mode, payload |-> payload, found |-> found]
  BY DEF DatesInv, IsRequest, Form!NoRequest
<1>2. Turns(w)
  BY DEF DatesInv, Turns
<1>3. [request EXCEPT ![w].at = at][w]
        = [at |-> at, mode |-> mode, payload |-> payload, found |-> found]
  BY <1>1 DEF DatesInv
<1>4. w \in DOMAIN [request EXCEPT ![w].at = at]
  BY DEF DatesInv
<1>5. request' = [[request EXCEPT ![w].at = at] EXCEPT ![w].found = x]
  OBVIOUS
<1>6. request'[w] = [at |-> at, mode |-> mode, payload |-> payload, found |-> x]
  <2>. DEFINE q == [request EXCEPT ![w].at = at]
              t == [q EXCEPT ![w].found = x]
  <2>1. t[w] = [at |-> at, mode |-> mode, payload |-> payload, found |-> x]
    <3>. HIDE DEF q
    <3>1. q[w] = [at |-> at, mode |-> mode, payload |-> payload, found |-> found]
      BY <1>3 DEF q
    <3>2. w \in DOMAIN q
      BY <1>4 DEF q
    <3>. QED
      BY ONLY <3>1, <3>2, FoundReplaced
  <2>2. request' = t
    BY <1>5
  <2>. QED
    <3>. HIDE DEF q, t
    <3>. QED
      BY ONLY <2>1, <2>2
<1>7. IsRequest([at |-> at, mode |-> mode, payload |-> payload, found |-> x])
  BY DEF IsRequest
<1>8. /\ request'[w].at = at
      /\ request'[w].payload = payload
      /\ request'[w].found = x
      /\ request[w].payload = payload
  <2>1. request[w].payload = payload
    BY ONLY <1>1
  <2>. QED
    BY ONLY <1>6, <2>1
<1>9. IsRequest(request'[w])
  BY ONLY <1>6, <1>7
<1>. QED
  BY ONLY <1>2, <1>8, <1>9

LEMMA NextDates ==
  ASSUME DatesInv, [Form!Next]_formVars
  PROVE  DatesInv'
<1>n. IsRequest(Form!NoRequest) /\ Form!NoRequest.at = "none"
  BY DEF IsRequest, Form!NoRequest
<1>1. CASE UNCHANGED formVars
  BY <1>1 DEF formVars, DatesInv, Form!DatesAreInOrder
<1>2. ASSUME NEW w \in Clients, NEW mode, NEW payload, Form!Asks(w, mode, payload),
             UNCHANGED <<doc, raced>>
      PROVE  DatesInv'
  <2>1. IsRequest([at |-> "contract", mode |-> mode, payload |-> payload, found |-> Form!None])
    BY DEF IsRequest
  <2>2. /\ Turns(w)
        /\ request'[w] = [at |-> "contract", mode |-> mode, payload |-> payload, found |-> Form!None]
    BY <1>2, <2>1, RequestSet DEF Form!Asks
  <2>3. request'[w].at = "contract"
    BY <2>2
  <2>. QED
    BY <1>2, <2>1, <2>2, <2>3, RequestKeepsDates
<1>3. ASSUME UNCHANGED <<request, raced>>, doc' = doc \/ doc' = Form!None
      PROVE  DatesInv'
  BY <1>3 DEF DatesInv, Form!DatesAreInOrder
<1>4. ASSUME NEW f \in Forms, Form!Open(f) \/ Form!Reset(f) \/ Form!Submit(f)
      PROVE  DatesInv'
  <2>1. f \in Clients
    BY DEF Clients
  <2>. QED
    BY <1>2, <1>3, <1>4, <2>1 DEF Form!Open, Form!Reset, Form!Submit
<1>5. ASSUME NEW f \in Forms, NEW k, NEW v, Form!Change(f, k, v)
      PROVE  DatesInv'
  BY <1>3, <1>5 DEF Form!Change
<1>6. CASE Form!ClientSends
  <2>1. Client \in Clients
    BY DEF Clients
  <2>. QED
    BY <1>2, <1>6, <2>1 DEF Form!ClientSends
<1>7. CASE Form!Delete
  BY <1>3, <1>7 DEF Form!Delete
<1>8. ASSUME NEW w \in Clients, request[w].at # "none", NEW at, at \notin {"save", "update"},
             Form!Replies(w, at), UNCHANGED <<doc, raced>>
      PROVE  DatesInv'
  <2>1. Turns(w) /\ IsRequest(request'[w]) /\ request'[w].at = at
    BY <1>8, RequestMoves DEF Form!Replies
  <2>. QED
    BY <1>8, <2>1, RequestKeepsDates
<1>9. ASSUME NEW w \in Clients, Form!Contract(w)
      PROVE  DatesInv'
  <2>1. UNCHANGED <<doc, raced>> /\ request[w].at = "contract"
    BY <1>9 DEF Form!Contract, Form!At
  <2>2. CASE Form!Replies(w, "refused")
    BY <1>8, <2>1, <2>2
  <2>3. ASSUME NEW p, p = request[w].payload, NEW mode, ~ Form!Refused(p, mode),
               NEW at, at \in {"save", "find"},
               request' = [request EXCEPT ![w].at = at, ![w].payload = Form!Given(p)]
        PROVE  DatesInv'
    <3>1. /\ Turns(w) /\ IsRequest(request'[w]) /\ request'[w].at = at
          /\ request'[w].payload = Form!Given(p)
      BY <2>1, <2>3, RequestGiven
    <3>2. Form!InOrder(Form!Stored(Form!Defaults, Form!Given(p)))
      BY <2>3, GivenInOrder
    <3>. QED
      BY <2>1, <2>3, <3>1, <3>2, RequestKeepsDates
  <2>. QED
    BY <1>9, <2>2, <2>3 DEF Form!Contract
<1>10. ASSUME NEW w \in Clients, Form!Find(w)
       PROVE  DatesInv'
  <2>1. UNCHANGED <<doc, raced>> /\ request[w].at = "find"
    BY <1>10 DEF Form!Find, Form!At
  <2>2. CASE Form!Replies(w, "missing") \/ Form!Replies(w, "refused")
    BY <1>8, <2>1, <2>2
  <2>3. CASE /\ Form!Consistent(doc, request[w].payload)
             /\ request' = [request EXCEPT ![w].at = "update", ![w].found = doc]
    <3>1. /\ Turns(w) /\ IsRequest(request'[w]) /\ request'[w].at = "update"
          /\ request'[w].found = doc /\ request'[w].payload = request[w].payload
      BY <2>1, <2>3, RequestFound
    <3>. QED
      BY <2>1, <2>3, <3>1, RequestKeepsDates
  <2>. QED
    BY <1>10, <2>2, <2>3 DEF Form!Find
<1>11. ASSUME NEW w \in Clients, Form!Update(w)
       PROVE  DatesInv'
  <2>1. request[w].at = "update" /\ Form!Consistent(request[w].found, request[w].payload)
    BY <1>11 DEF Form!Update, Form!At, DatesInv
  <2>2. CASE doc = Form!None
    BY <1>8, <1>11, <2>1, <2>2 DEF Form!Update
  <2>3. CASE doc # Form!None
    <3>1. /\ doc' = Form!Stored(doc, request[w].payload)
          /\ raced' = (raced \/ request[w].found # doc)
          /\ Form!Replies(w, "saved")
      BY <1>11, <2>3 DEF Form!Update
    <3>2. Turns(w) /\ IsRequest(request'[w]) /\ request'[w].at = "saved"
      BY <2>1, <3>1, RequestMoves DEF Form!Replies
    <3>3. ASSUME ~ raced' PROVE Form!InOrder(doc')
      <4>1. request[w].found = doc /\ ~ raced
        BY <3>1, <3>3
      <4>2. Form!InOrder(doc)
        BY <2>3, <4>1 DEF DatesInv, Form!DatesAreInOrder
      <4>. QED
        BY <2>1, <3>1, <4>1, <4>2, DatesStay DEF Form!Consistent
    <3>. QED
      BY <3>2, <3>3, WritingKeepsDates
  <2>. QED
    BY <2>2, <2>3
<1>12. ASSUME NEW w \in Clients, Form!Save(w)
       PROVE  DatesInv'
  <2>1. request[w].at = "save" /\ Form!InOrder(Form!Stored(Form!Defaults, request[w].payload))
    BY <1>12 DEF Form!Save, Form!At, DatesInv
  <2>2. doc' = Form!Stored(Form!Defaults, request[w].payload) /\ Form!Replies(w, "saved")
    BY <1>12 DEF Form!Save
  <2>3. Turns(w) /\ IsRequest(request'[w]) /\ request'[w].at = "saved"
    BY <2>1, <2>2, RequestMoves DEF Form!Replies
  <2>4. Form!InOrder(doc')
    BY <2>1, <2>2
  <2>. QED
    BY <2>3, <2>4, WritingKeepsDates
<1>13. ASSUME NEW w \in Clients, Form!Answered(w)
       PROVE  DatesInv'
  <2>1. Turns(w) /\ request'[w] = Form!NoRequest /\ UNCHANGED <<doc, raced>>
    BY <1>13, <1>n, RequestSet DEF Form!Answered
  <2>. QED
    BY <1>n, <2>1, RequestKeepsDates
<1>. QED
  BY <1>1, <1>4, <1>5, <1>6, <1>7, <1>9, <1>10, <1>11, <1>12, <1>13 DEF Form!Next, Clients

(***************************************************************************)
(* The stored birth date is before the hire date, whatever forms and       *)
(* clients send and in whatever order the service takes it, unless an      *)
(* update met another between its check and its write.                     *)
(***************************************************************************)
THEOREM DatesStayInOrder == PageSpec => []DatesAreInOrder
<1>. DEFINE I == part = "form" => DatesInv
<1>1. PageInit => I
  BY InitDates DEF PageInit, Begins
<1>2. I /\ [PageNext]_pageVars => I'
  BY OnePartRuns, NextDates
<1>3. I => DatesAreInOrder
  BY DEF DatesInv, DatesAreInOrder
<1>. QED
  BY <1>1, <1>2, <1>3, PTL DEF PageSpec

-----------------------------------------------------------------------------
(***************************************************************************)
(* The analytics page.  A load that is not of what is chosen was begun by  *)
(* a button before the last choice, and what is shown is of the choice or  *)
(* about to be replaced.                                                   *)
(***************************************************************************)
AnalyticsAssumption == Analytics!Everybody \notin Departments

SummaryKeys == Analytics!AllGlobal \cup Analytics!AllScoped

LoadMap(l) ==
  /\ l \in [Flights -> [by : {"nobody", "effect", "button"}, of : SummaryKeys \cup {Analytics!NoData}]]
  /\ \A f \in Flights : l[f] # Analytics!NoLoad => l[f].by # "nobody" /\ l[f].of \in SummaryKeys

Loads(l, key) == \E f \in Flights : l[f] # Analytics!NoLoad /\ l[f].of = key

LoadsOnly(l, keys) == \A f \in Flights : l[f] # Analytics!NoLoad => l[f].of \in keys

\* What is shown is of the key, is an error, or its load is under way.
Follows(data, key, l) == data \in {Analytics!NoData, key} \/ Loads(l, key)

ChosenYear == Analytics!Global(currentYear)
ChosenScope == <<currentYear, departmentScope>>

AnalyticsInv ==
  /\ currentYear \in YearsShown
  /\ departmentScope \in Departments \cup {Analytics!Everybody}
  /\ LoadMap(load)
  /\ ~ late =>
       /\ LoadsOnly(load, {ChosenYear, ChosenScope})
       /\ Follows(yearShown, ChosenYear, load)
       /\ Follows(scoped, ChosenScope, load)
       /\ departmentScope = Analytics!Everybody => scoped = Analytics!NoData

LEMMA ChosenKeys ==
  ASSUME NEW y \in YearsShown, NEW d \in Departments \cup {Analytics!Everybody}
  PROVE  /\ Analytics!Global(y) \in Analytics!AllGlobal
         /\ <<y, d>> \in SummaryKeys /\ Analytics!Global(y) \in SummaryKeys
         /\ d = Analytics!Everybody <=> <<y, d>> = Analytics!Global(y)
BY DEF Analytics!Global, Analytics!AllGlobal, Analytics!AllScoped, SummaryKeys

LEMMA GlobalOrScoped ==
  ASSUME AnalyticsAssumption, NEW key \in Analytics!AllScoped
  PROVE  key \notin Analytics!AllGlobal
BY DEF AnalyticsAssumption, Analytics!AllScoped, Analytics!AllGlobal, Analytics!Global

\* A load that is begun.
LEMMA LoadBegins ==
  ASSUME NEW l, LoadMap(l), NEW by \in {"effect", "button"}, NEW key \in SummaryKeys,
         NEW after \in Analytics!With(l, by, key)
  PROVE  /\ LoadMap(after) /\ Loads(after, key)
         /\ \A k : Loads(l, k) => Loads(after, k)
         /\ \A keys : LoadsOnly(l, keys) => LoadsOnly(after, keys \cup {key})
<1>1. PICK f \in Flights : /\ l[f] = Analytics!NoLoad
                           /\ after = [l EXCEPT ![f] = [by |-> by, of |-> key]]
  BY DEF Analytics!With, Analytics!Free
<1>2. PICK new : /\ new = [by |-> by, of |-> key] /\ new # Analytics!NoLoad
                 /\ new \in [by : {"nobody", "effect", "button"},
                             of : SummaryKeys \cup {Analytics!NoData}]
                 /\ new.by # "nobody" /\ new.of = key
  <2>1. PICK new : new = [by |-> by, of |-> key]
    OBVIOUS
  <2>2. new.by = by /\ new.of = key /\ by # "nobody"
    BY <2>1
  <2>3. Analytics!NoLoad.by = "nobody"
    BY DEF Analytics!NoLoad
  <2>4. new \in [by : {"nobody", "effect", "button"}, of : SummaryKeys \cup {Analytics!NoData}]
    BY <2>1
  <2>. QED
    BY <2>1, <2>2, <2>3, <2>4
<1>3. /\ after \in [Flights -> [by : {"nobody", "effect", "button"},
                                of : SummaryKeys \cup {Analytics!NoData}]]
      /\ \A g \in Flights : after[g] = IF g = f THEN new ELSE l[g]
  BY <1>1, <1>2 DEF LoadMap
<1>. QED
  BY <1>1, <1>2, <1>3 DEF LoadMap, Loads, LoadsOnly

\* The loads of an effect that is cleaned up are gone.
LEMMA AbortEnds ==
  ASSUME NEW l, LoadMap(l), NEW keys,
         \A f \in Flights : l[f].by # "button"
  PROVE  LET after == Analytics!Abort(l, keys) IN
         /\ LoadMap(after)
         /\ \A S : LoadsOnly(l, S) => LoadsOnly(after, S \ keys)
         /\ \A k : k \notin keys /\ Loads(l, k) => Loads(after, k)
<1>. DEFINE after == Analytics!Abort(l, keys)
<1>1. Analytics!NoLoad \in [by : {"nobody", "effect", "button"},
                            of : SummaryKeys \cup {Analytics!NoData}]
  BY DEF Analytics!NoLoad
<1>2. \A f \in Flights : l[f] # Analytics!NoLoad => l[f].by = "effect"
  BY DEF LoadMap
<1>3. after = [f \in Flights |-> IF l[f].by = "effect" /\ l[f].of \in keys
                                 THEN Analytics!NoLoad ELSE l[f]]
  BY DEF Analytics!Abort
<1>. HIDE DEF after
<1>4. LoadMap(after)
  BY <1>1, <1>3 DEF LoadMap
<1>5. \A S : LoadsOnly(l, S) => LoadsOnly(after, S \ keys)
  BY <1>2, <1>3 DEF LoadsOnly
<1>6. \A k : k \notin keys /\ Loads(l, k) => Loads(after, k)
  BY <1>3 DEF Loads
<1>. QED
  BY <1>4, <1>5, <1>6 DEF after

\* A choice that leaves the history clear found no button's load.
LEMMA NoButtonLoads ==
  ASSUME Analytics!Chosen, ~ late'
  PROVE  ~ late /\ \A f \in Flights : load[f].by # "button"
BY DEF Analytics!Chosen

\* Aborting keeps loads loads, also those of buttons.
LEMMA AbortKeepsMaps ==
  ASSUME NEW l, LoadMap(l), NEW keys
  PROVE  LoadMap(Analytics!Abort(l, keys))
<1>1. Analytics!NoLoad \in [by : {"nobody", "effect", "button"},
                            of : SummaryKeys \cup {Analytics!NoData}]
  BY DEF Analytics!NoLoad
<1>. QED
  BY <1>1 DEF LoadMap, Analytics!Abort

LEMMA ChooseYearKeeps ==
  ASSUME AnalyticsInv, Analytics!ChooseYear
  PROVE  AnalyticsInv'
<1>. DEFINE kept == Analytics!Abort(load, SummaryKeys)
<1>0. PICK y \in YearsShown :
        /\ currentYear' = y
        /\ \E l \in Analytics!With(kept, "effect", Analytics!Global(y)) :
             IF departmentScope = Analytics!Everybody THEN load' = l
             ELSE load' \in Analytics!With(l, "effect", <<y, departmentScope>>)
  BY DEF Analytics!ChooseYear, SummaryKeys
<1>1. PICK l \in Analytics!With(kept, "effect", Analytics!Global(y)) :
        /\ departmentScope = Analytics!Everybody => load' = l
        /\ departmentScope # Analytics!Everybody =>
             load' \in Analytics!With(l, "effect", <<y, departmentScope>>)
        /\ UNCHANGED <<departmentScope, yearShown, scoped>>
  BY <1>0 DEF Analytics!ChooseYear
<1>2. LoadMap(kept)
  BY AbortKeepsMaps DEF AnalyticsInv
<1>. HIDE DEF kept
<1>3. /\ Analytics!Global(y) \in SummaryKeys /\ <<y, departmentScope>> \in SummaryKeys
      /\ departmentScope = Analytics!Everybody <=> <<y, departmentScope>> = Analytics!Global(y)
  BY ChosenKeys DEF AnalyticsInv
<1>4. LoadMap(l) /\ Loads(l, Analytics!Global(y))
  BY <1>2, <1>3, LoadBegins
<1>5. LoadMap(load') /\ Loads(load', Analytics!Global(y)) /\ Loads(load', <<y, departmentScope>>)
  <2>1. CASE departmentScope = Analytics!Everybody
    BY <1>1, <1>3, <1>4, <2>1
  <2>2. CASE departmentScope # Analytics!Everybody
    BY <1>1, <1>3, <1>4, <2>2, LoadBegins
  <2>. QED
    BY <2>1, <2>2
<1>6. ASSUME ~ late'
      PROVE  /\ LoadsOnly(load', {Analytics!Global(y), <<y, departmentScope>>})
             /\ departmentScope = Analytics!Everybody => scoped = Analytics!NoData
  <2>1. ~ late /\ \A f \in Flights : load[f].by # "button"
    BY <1>6, NoButtonLoads DEF Analytics!ChooseYear
  <2>2. LoadsOnly(load, SummaryKeys)
    BY DEF AnalyticsInv, LoadMap, LoadsOnly
  <2>3. LoadsOnly(kept, {})
    <3>1. LoadsOnly(kept, SummaryKeys \ SummaryKeys)
      BY <2>1, <2>2, AbortEnds DEF AnalyticsInv, kept
    <3>. QED
      BY <3>1 DEF LoadsOnly
  <2>4. LoadsOnly(l, {} \cup {Analytics!Global(y)})
    BY <1>2, <1>3, <2>3, LoadBegins
  <2>5. CASE departmentScope = Analytics!Everybody
    BY <1>1, <2>1, <2>4, <2>5 DEF LoadsOnly, AnalyticsInv
  <2>6. CASE departmentScope # Analytics!Everybody
    <3>1. LoadsOnly(load', ({} \cup {Analytics!Global(y)}) \cup {<<y, departmentScope>>})
      BY <1>1, <1>3, <1>4, <2>4, <2>6, LoadBegins
    <3>. QED
      BY <2>6, <3>1 DEF LoadsOnly
  <2>. QED
    BY <2>5, <2>6
<1>. QED
  BY <1>0, <1>1, <1>5, <1>6 DEF AnalyticsInv, Follows, ChosenYear, ChosenScope

LEMMA ChooseDepartmentKeeps ==
  ASSUME AnalyticsAssumption, AnalyticsInv, Analytics!ChooseDepartment
  PROVE  AnalyticsInv'
<1>. DEFINE kept == Analytics!Abort(load, Analytics!AllScoped)
            key == <<currentYear, departmentScope'>>
<1>1. /\ departmentScope' \in Departments \cup {Analytics!Everybody}
      /\ UNCHANGED <<currentYear, yearShown>>
      /\ departmentScope' = Analytics!Everybody => load' = kept /\ scoped' = Analytics!NoData
      /\ departmentScope' # Analytics!Everybody =>
           load' \in Analytics!With(kept, "effect", key)
  BY DEF Analytics!ChooseDepartment
<1>2. LoadMap(kept)
  BY AbortKeepsMaps DEF AnalyticsInv
<1>3. /\ key \in SummaryKeys /\ ChosenYear \in Analytics!AllGlobal
      /\ departmentScope' = Analytics!Everybody <=> key = ChosenYear
  BY <1>1, ChosenKeys DEF AnalyticsInv, ChosenYear
<1>4. ChosenYear \notin Analytics!AllScoped
  BY <1>3, GlobalOrScoped
<1>. HIDE DEF kept
<1>5. LoadMap(load')
  BY <1>1, <1>2, <1>3, LoadBegins
<1>6. ASSUME ~ late'
      PROVE  /\ LoadsOnly(load', {ChosenYear, key})
             /\ Follows(yearShown, ChosenYear, load')
             /\ Follows(scoped', key, load')
             /\ departmentScope' = Analytics!Everybody => scoped' = Analytics!NoData
  <2>1. ~ late /\ \A f \in Flights : load[f].by # "button"
    BY <1>6, NoButtonLoads DEF Analytics!ChooseDepartment
  <2>2. LoadsOnly(kept, {ChosenYear})
    <3>1. LoadsOnly(load, {ChosenYear, ChosenScope})
      BY <2>1 DEF AnalyticsInv
    <3>2. LoadsOnly(kept, {ChosenYear, ChosenScope} \ Analytics!AllScoped)
      BY <2>1, <3>1, AbortEnds DEF AnalyticsInv, kept
    <3>3. ChosenScope = ChosenYear \/ ChosenScope \in Analytics!AllScoped
      BY DEF ChosenScope, ChosenYear, AnalyticsInv, Analytics!Global, Analytics!AllScoped
    <3>. QED
      BY <3>2, <3>3 DEF LoadsOnly
  <2>3. Follows(yearShown, ChosenYear, kept)
    BY <2>1, <1>4, AbortEnds DEF AnalyticsInv, Follows, kept
  <2>4. CASE departmentScope' = Analytics!Everybody
    BY <1>1, <2>2, <2>3, <2>4 DEF LoadsOnly, Follows
  <2>5. CASE departmentScope' # Analytics!Everybody
    <3>1. /\ Loads(load', key) /\ LoadsOnly(load', {ChosenYear} \cup {key})
          /\ Loads(kept, ChosenYear) => Loads(load', ChosenYear)
      BY <1>1, <1>2, <1>3, <2>2, <2>5, LoadBegins
    <3>. QED
      BY <2>3, <2>5, <3>1 DEF LoadsOnly, Follows
  <2>. QED
    BY <2>4, <2>5
<1>. QED
  BY <1>1, <1>5, <1>6 DEF AnalyticsInv, ChosenYear, ChosenScope

\* A button loads again what is shown.
LEMMA ReloadKeeps ==
  ASSUME AnalyticsInv, NEW key \in {ChosenYear, ChosenScope},
         load' \in Analytics!With(load, "button", key),
         UNCHANGED <<currentYear, departmentScope, yearShown, scoped, late>>
  PROVE  AnalyticsInv'
<1>1. key \in SummaryKeys
  BY ChosenKeys DEF AnalyticsInv, ChosenYear, ChosenScope
<1>2. /\ LoadMap(load') /\ \A k : Loads(load, k) => Loads(load', k)
      /\ \A keys : LoadsOnly(load, keys) => LoadsOnly(load', keys \cup {key})
  BY <1>1, LoadBegins DEF AnalyticsInv
<1>3. ~ late => LoadsOnly(load', {ChosenYear, ChosenScope})
  <2>1. ~ late => LoadsOnly(load', {ChosenYear, ChosenScope} \cup {key})
    BY <1>2 DEF AnalyticsInv
  <2>. QED
    BY <2>1 DEF LoadsOnly
<1>. QED
  BY <1>2, <1>3 DEF AnalyticsInv, Follows, ChosenYear, ChosenScope

\* A load that ends, with its summaries or with an error.
LEMMA ShownKeeps ==
  ASSUME AnalyticsInv, NEW f \in Flights,
         NEW data \in {load[f].of, Analytics!NoData}, Analytics!Shown(f, data)
  PROVE  AnalyticsInv'
<1>1. /\ load[f] # Analytics!NoLoad /\ load' = [load EXCEPT ![f] = Analytics!NoLoad]
      /\ UNCHANGED <<currentYear, departmentScope, late>>
      /\ load[f].of \in Analytics!AllGlobal => yearShown' = data /\ UNCHANGED scoped
      /\ load[f].of \notin Analytics!AllGlobal => scoped' = data /\ UNCHANGED yearShown
  BY DEF Analytics!Shown
<1>2. Analytics!NoLoad \in [by : {"nobody", "effect", "button"},
                            of : SummaryKeys \cup {Analytics!NoData}]
  BY DEF Analytics!NoLoad
<1>3. /\ LoadMap(load')
      /\ \A g \in Flights : load'[g] = IF g = f THEN Analytics!NoLoad ELSE load[g]
  BY <1>1, <1>2 DEF AnalyticsInv, LoadMap
<1>4. /\ \A keys : LoadsOnly(load, keys) => LoadsOnly(load', keys)
      /\ \A k : Loads(load, k) /\ load[f].of # k => Loads(load', k)
  BY <1>3 DEF LoadsOnly, Loads
<1>5. /\ ChosenYear \in Analytics!AllGlobal
      /\ departmentScope = Analytics!Everybody <=> ChosenScope = ChosenYear
  BY ChosenKeys DEF AnalyticsInv, ChosenYear, ChosenScope
<1>6. ASSUME ~ late
      PROVE  /\ LoadsOnly(load', {ChosenYear, ChosenScope})
             /\ Follows(yearShown', ChosenYear, load')
             /\ Follows(scoped', ChosenScope, load')
             /\ departmentScope = Analytics!Everybody => scoped' = Analytics!NoData
  <2>1. load[f].of \in {ChosenYear, ChosenScope}
    BY <1>1, <1>6 DEF AnalyticsInv, LoadsOnly
  <2>2. CASE load[f].of \in Analytics!AllGlobal /\ load[f].of = ChosenYear
    BY <1>1, <1>4, <1>5, <1>6, <2>2 DEF AnalyticsInv, Follows
  <2>3. CASE load[f].of \in Analytics!AllGlobal /\ load[f].of = ChosenScope
    <3>1. departmentScope = Analytics!Everybody
      BY <2>3 DEF ChosenScope, Analytics!AllGlobal, Analytics!Global
    <3>. QED
      BY <1>5, <2>2, <2>3, <3>1
  <2>4. CASE load[f].of \notin Analytics!AllGlobal
    BY <1>1, <1>4, <1>5, <1>6, <2>1, <2>4 DEF AnalyticsInv, Follows
  <2>. QED
    BY <2>1, <2>2, <2>3, <2>4
<1>. QED
  BY <1>1, <1>3, <1>6 DEF AnalyticsInv, ChosenYear, ChosenScope

LEMMA NextAnalytics ==
  ASSUME AnalyticsAssumption, AnalyticsInv, [Analytics!Next]_analyticsVars
  PROVE  AnalyticsInv'
<1>1. CASE Analytics!Reload
  BY <1>1, ReloadKeeps DEF Analytics!Reload, ChosenScope
<1>2. CASE Analytics!ReloadAll
  BY <1>2, ReloadKeeps DEF Analytics!ReloadAll, ChosenYear
<1>3. ASSUME NEW f \in Flights, Analytics!Arrives(f) \/ Analytics!Fails(f) PROVE AnalyticsInv'
  BY <1>3, ShownKeeps DEF Analytics!Arrives, Analytics!Fails
<1>4. CASE UNCHANGED analyticsVars
  BY <1>4 DEF analyticsVars, AnalyticsInv, ChosenYear, ChosenScope
<1>. QED
  BY <1>1, <1>2, <1>3, <1>4, ChooseYearKeeps, ChooseDepartmentKeeps DEF Analytics!Next

LEMMA InitAnalytics ==
  ASSUME Analytics!Init
  PROVE  AnalyticsInv
<1>. DEFINE none == [f \in Flights |-> Analytics!NoLoad]
<1>1. LoadMap(none) /\ LoadsOnly(none, {})
  BY DEF LoadMap, LoadsOnly, Analytics!NoLoad
<1>2. load \in Analytics!With(none, "effect", ChosenYear)
  BY DEF Analytics!Init, ChosenYear
<1>. HIDE DEF none
<1>3. ChosenYear \in SummaryKeys
  BY ChosenKeys DEF Analytics!Init, ChosenYear
<1>4. LoadMap(load) /\ LoadsOnly(load, {} \cup {ChosenYear})
  BY <1>1, <1>2, <1>3, LoadBegins
<1>. QED
  BY <1>4 DEF AnalyticsInv, LoadsOnly, Follows, Analytics!Init

(***************************************************************************)
(* SummariesAreChosen of the analytics page, the part of PagesFollowChoice *)
(* that is about it: for any years, departments and loads under way, and   *)
(* whatever arrives in whatever order or fails, the page at rest shows     *)
(* what is chosen, unless a button's load was under way at a choice.       *)
(***************************************************************************)
THEOREM AnalyticsFollowsChoice ==
  AnalyticsAssumption /\ PageSpec => [](part = "analytics" => Analytics!SummariesAreChosen)
<1>. SUFFICES ASSUME AnalyticsAssumption
              PROVE  PageSpec => [](part = "analytics" => Analytics!SummariesAreChosen)
  OBVIOUS
<1>. DEFINE I == part = "analytics" => AnalyticsInv
<1>1. PageInit => I
  BY InitAnalytics DEF PageInit, Begins
<1>2. I /\ [PageNext]_pageVars => I'
  BY OnePartRuns, NextAnalytics
<1>3. AnalyticsInv => Analytics!SummariesAreChosen
  BY DEF AnalyticsInv, Follows, Loads, ChosenYear, ChosenScope, Analytics!SummariesAreChosen
<1>4. I => (part = "analytics" => Analytics!SummariesAreChosen)
  BY <1>3
<1>. QED
  BY <1>1, <1>2, <1>4, PTL DEF PageSpec

-----------------------------------------------------------------------------
(***************************************************************************)
(* The drilldown page.  A list under way, and the rows of the last one     *)
(* that was answered, were asked with what is chosen; had, which a request *)
(* remembers of the totals it found, apart.                                *)
(***************************************************************************)
ViewAssumption == 0 \notin Pages

ListRequest ==
  [filters : Choices, search : Searches, page : Pages \cup {1}, size : Sizes, had : BOOLEAN]

OfChoice(q) ==
  /\ q \in ListRequest
  /\ q.filters = filters /\ q.search = searched /\ q.page = page /\ q.size = size

Totals == [of : (Choices \X Searches) \cup {View!Nowhere}, full : BOOLEAN, updating : BOOLEAN]

ViewInv ==
  /\ filters \in Choices /\ searched \in Searches /\ typed \in Searches
  /\ page \in Pages \cup {1} /\ size \in Sizes
  /\ totalsShown \in Totals
  /\ list # View!NoRequest => OfChoice(list)
  /\ totalling # View!NoRequest => totalling \in ListRequest
  /\ list = View!NoRequest /\ ~ failed =>
       /\ OfChoice(rowsShown)
       /\ ~ overtaken =>
            /\ totalsShown.of = <<filters, searched>>
            /\ totalling = View!NoRequest => ~ totalsShown.updating
            /\ totalling # View!NoRequest => View!Key(totalling) = <<filters, searched>>

\* A request asks for a page, and no request for none.
LEMMA RequestsAsk ==
  ASSUME ViewAssumption, NEW q \in ListRequest
  PROVE  q # View!NoRequest
<1>1. q.page # 0
  BY DEF ViewAssumption, ListRequest
<1>2. View!NoRequest.page = 0
  BY DEF View!NoRequest
<1>. QED
  BY <1>1, <1>2

LEMMA AsksIsOfChoice ==
  ASSUME ViewInv
  PROVE  OfChoice(View!Asks) /\ View!Key(View!Asks) = <<filters, searched>>
BY DEF ViewInv, Totals, OfChoice, ListRequest, View!Asks, View!Key

\* What every change of the choice does.
LEMMA ListLoads ==
  ASSUME ViewAssumption, ViewInv,
         filters' \in Choices, searched' \in Searches, typed' \in Searches,
         page' \in Pages \cup {1}, size' \in Sizes,
         UNCHANGED <<totalling, rowsShown, totalsShown, overtaken>>,
         View!LoadData
  PROVE  ViewInv'
<1>1. totalsShown' \in Totals
  BY DEF ViewInv
<1>2. OfChoice(list)'
  BY <1>1 DEF View!LoadData, View!Asks, OfChoice, ListRequest, Totals
<1>3. list' # View!NoRequest
  BY <1>2, RequestsAsk DEF OfChoice
<1>. QED
  BY <1>1, <1>2, <1>3 DEF ViewInv

\* A step that changes neither the choice nor what is under way or shown.
LEMMA ViewRests ==
  ASSUME ViewInv, typed' \in Searches,
         UNCHANGED <<filters, searched, page, size, list, failed, totalling, rowsShown,
                     totalsShown, overtaken>>
  PROVE  ViewInv'
BY DEF ViewInv, OfChoice

LEMMA ListArrivesKeeps ==
  ASSUME ViewAssumption, ViewInv, View!ListArrives
  PROVE  ViewInv'
<1>. DEFINE fetch == View!Partial(list) /\ list.filters \notin Long
<1>1. /\ OfChoice(list) /\ rowsShown' = list /\ list' = View!NoRequest
      /\ UNCHANGED <<filters, typed, searched, page, size, waiting, failed>>
      /\ totalsShown' = [of |-> View!Key(list), full |-> ~ View!Partial(list),
                         updating |-> fetch]
  BY DEF View!ListArrives, ViewInv
<1>2. \/ totalling' = list
      \/ UNCHANGED totalling /\ (~ overtaken' => ~ fetch /\ totalling = View!NoRequest)
  BY DEF View!ListArrives
<1>3. View!Key(list) = <<filters, searched>> /\ list # View!NoRequest /\ list \in ListRequest
  BY <1>1, RequestsAsk DEF OfChoice, View!Key
<1>4. fetch \in BOOLEAN /\ (~ View!Partial(list)) \in BOOLEAN
  BY DEF View!Partial
<1>. HIDE DEF fetch
<1>5. totalsShown' \in Totals /\ totalsShown'.of = <<filters, searched>>
        /\ totalsShown'.updating = fetch
  BY <1>1, <1>3, <1>4 DEF ViewInv, Totals
<1>6. OfChoice(rowsShown)'
  BY <1>1 DEF OfChoice
<1>7. CASE totalling' = list
  BY <1>1, <1>3, <1>5, <1>6, <1>7 DEF ViewInv
<1>8. CASE UNCHANGED totalling /\ (~ overtaken' => ~ fetch /\ totalling = View!NoRequest)
  BY <1>1, <1>3, <1>5, <1>6, <1>8 DEF ViewInv
<1>. QED
  BY <1>2, <1>7, <1>8

LEMMA NextView ==
  ASSUME ViewAssumption, ViewInv, [View!Next]_drillViewVars
  PROVE  ViewInv'
<1>1. CASE View!ChooseFilters \/ View!ChoosePage \/ View!ChooseSize
  BY <1>1, ListLoads
  DEF View!ChooseFilters, View!ChoosePage, View!ChooseSize, View!screen, ViewInv
<1>2. CASE View!Type
  BY <1>2, ViewRests DEF View!Type, View!screen
<1>3. CASE View!Debounced
  <2>1. CASE <<searched', page'>> = <<searched, page>>
    BY <1>3, <2>1, ViewRests DEF View!Debounced, View!screen, ViewInv
  <2>2. CASE <<searched', page'>> # <<searched, page>>
    BY <1>3, <2>2, ListLoads DEF View!Debounced, View!screen, ViewInv
  <2>. QED
    BY <2>1, <2>2
<1>4. CASE View!ListArrives
  BY <1>4, ListArrivesKeeps
<1>5. CASE View!ListFails
  BY <1>5 DEF View!ListFails, View!screen, ViewInv
<1>6. CASE View!TotalsArrive
  <2>1. totalling \in ListRequest /\ View!Key(totalling) \in Choices \X Searches
    BY <1>6 DEF View!TotalsArrive, ViewInv, View!Key, ListRequest
  <2>2. /\ totalsShown' \in Totals /\ totalsShown'.of = View!Key(totalling)
        /\ ~ totalsShown'.updating
    BY <1>6, <2>1 DEF View!TotalsArrive, Totals
  <2>. QED
    BY <1>6, <2>2 DEF View!TotalsArrive, ViewInv, OfChoice
<1>7. CASE View!TotalsFail
  <2>1. /\ totalsShown' \in Totals /\ totalsShown'.of = totalsShown.of
        /\ ~ totalsShown'.updating
    BY <1>7 DEF View!TotalsFail, ViewInv, Totals
  <2>. QED
    BY <1>7, <2>1 DEF View!TotalsFail, ViewInv, OfChoice
<1>8. CASE UNCHANGED drillViewVars
  BY <1>8, ViewRests DEF drillViewVars, ViewInv
<1>. QED
  BY <1>1, <1>2, <1>3, <1>4, <1>5, <1>6, <1>7, <1>8 DEF View!Next

LEMMA InitView ==
  ASSUME ViewAssumption, View!Init
  PROVE  ViewInv
<1>1. totalsShown \in Totals
  BY DEF View!Init, Totals
<1>2. OfChoice(list)
  BY <1>1 DEF View!Init, View!Asks, OfChoice, ListRequest, Totals
<1>3. list # View!NoRequest
  BY <1>2, RequestsAsk DEF OfChoice
<1>. QED
  BY <1>1, <1>2, <1>3 DEF ViewInv, View!Init

LEMMA RestShowsChoice ==
  ASSUME ViewInv
  PROVE  View!RowsAreChosen
<1>1. ASSUME OfChoice(rowsShown)
      PROVE  [rowsShown EXCEPT !.had = View!Asks.had] = View!Asks
  <2>1. rowsShown \in ListRequest /\ View!Asks \in ListRequest
    BY <1>1, AsksIsOfChoice DEF OfChoice
  <2>2. /\ rowsShown.filters = View!Asks.filters /\ rowsShown.search = View!Asks.search
        /\ rowsShown.page = View!Asks.page /\ rowsShown.size = View!Asks.size
    BY <1>1, AsksIsOfChoice DEF OfChoice
  <2>. QED
    BY <2>1, <2>2 DEF ListRequest
<1>. QED
  BY <1>1, AsksIsOfChoice DEF ViewInv, View!RowsAreChosen

(***************************************************************************)
(* RowsAreChosen of the drilldown page, the part of PagesFollowChoice that *)
(* is about it: for any filters, searches, pages and sizes, at rest the    *)
(* rows are those of the choice and so are the totals, but for the totals  *)
(* that were overtaken.                                                    *)
(***************************************************************************)
THEOREM RowsFollowChoice ==
  ViewAssumption /\ PageSpec => [](part = "view" => View!RowsAreChosen)
<1>. SUFFICES ASSUME ViewAssumption
              PROVE  PageSpec => [](part = "view" => View!RowsAreChosen)
  OBVIOUS
<1>. DEFINE I == part = "view" => ViewInv
<1>1. PageInit => I
  BY InitView DEF PageInit, Begins
<1>2. I /\ [PageNext]_pageVars => I'
  BY OnePartRuns, NextView
<1>3. I => (part = "view" => View!RowsAreChosen)
  BY RestShowsChoice
<1>. QED
  BY <1>1, <1>2, <1>3, PTL DEF PageSpec

-----------------------------------------------------------------------------

\* A behaviour runs one part: the others of which more than their pages or
\* requests is shown.

(***************************************************************************)
(* The payroll console.  While nothing else happens beside what was begun  *)
(* last, one request is under way at most, made with the token and the     *)
(* cookie of the moment, and its answer is the one that the session        *)
(* stored, the token and the cookie allow.                                 *)
(***************************************************************************)
ConsoleAssumption == MaxIssues \in Nat

People == Staff \cup {NoRecord}
ConsoleAnswers == [is : {"none", "ok", "refused", "error", "thrown"}, token : Nat, cookie : Nat]
Requests ==
  [op : {"start", "lookup", "signin", "clear"}, emp : People,
   at : {"ask", "probe", "refresh", "signin", "logout"}, again : BOOLEAN, token : Nat, jar : Nat,
   answer : ConsoleAnswers]

\* What holds of any request: an answer kept from nobody brings no cookie,
\* and new tokens are tokens.
Answerable(f) ==
  /\ f.answer.is = "none" => f.answer = Console!NoAnswer
  /\ f.at = "ask" \/ (f.at = "probe" /\ f.answer.is = "ok") => f.answer.cookie = Console!Keep
  /\ f.at \in {"refresh", "signin"} /\ f.answer.is = "ok" => f.answer.token # 0

Consoles == [token : Nat, signedIn : BOOLEAN, field : People, shown : People, linked : People]

Auths ==
  {a \in [stored : SUBSET Nat, issued : Nat, expired : Nat] :
     0 \notin a.stored /\ a.expired <= a.issued}
Begun == [op : {"start", "lookup", "signin", "clear"}, emp : People, able : BOOLEAN]

ConsoleTypes ==
  /\ auth \in Auths /\ cookie \in Nat
  /\ console \in Consoles /\ console.signedIn = (console.token # 0)
  /\ flows \in [Slots -> {Console!Idle} \cup Requests]
  /\ \A i \in Slots : flows[i] # Console!Idle => Answerable(flows[i])
  /\ last \in Begun /\ alone \in BOOLEAN

SigningIn(f) ==
  \/ /\ f.op = "signin" /\ f.at = "signin" /\ f.answer.is \in {"none", "ok"}
     /\ f.answer.is = "ok" => Console!LiveToken(f.answer.token)
  \/ /\ f.op = "lookup" /\ f.at = "ask" /\ f.answer.is \in {"none", "ok"}
     /\ f.emp = console.field /\ Console!LiveToken(console.token)

LookingUp(f) ==
  /\ f.op = "lookup" /\ f.emp = last.emp
  /\ \/ /\ f.at = "ask" /\ ~ f.again /\ console.token # 0
        /\ last.able = (Console!LiveToken(console.token) \/ cookie \in auth.stored)
        /\ f.answer.is \in {"none", IF Console!LiveToken(console.token) THEN "ok" ELSE "refused"}
     \/ /\ f.at = "probe" /\ f.again
        /\ last.able = (cookie \in auth.stored)
        /\ f.answer.is \in {"none", IF last.able THEN "ok" ELSE "refused"}
     \/ /\ f.at = "refresh" /\ f.again /\ last.able
        /\ \/ f.answer.is = "none" /\ cookie \in auth.stored
           \/ f.answer.is = "ok" /\ Console!LiveToken(f.answer.token)
     \/ /\ f.at = "ask" /\ f.again /\ last.able
        /\ Console!LiveToken(console.token) /\ f.answer.is \in {"none", "ok"}

Clearing(f) ==
  /\ f.op = "clear"
  /\ \/ /\ f.at = "logout"
        /\ \/ /\ f.answer.is = "none"
              /\ f.again => Console!LiveToken(console.token) /\ console.token \in auth.stored
           \/ f.answer.is = "ok" /\ f.answer.cookie = 0
           \/ f.answer.is = "refused" /\ f.answer.cookie = Console!Keep /\ ~ f.again
     \/ /\ f.at = "probe" /\ f.again
        /\ \/ f.answer.is = "none"
           \/ f.answer.is = "ok" /\ cookie \in auth.stored
           \/ /\ f.answer.is = "refused"
              /\ f.answer.cookie = 0 \/ (f.answer.cookie = Console!Keep /\ cookie = 0)
     \/ /\ f.at = "refresh" /\ f.again
        /\ \/ f.answer.is = "none" /\ cookie \in auth.stored
           \/ /\ f.answer.is = "ok" /\ Console!LiveToken(f.answer.token)
              /\ f.answer.token \in auth.stored

OnItsWay(f) ==
  /\ f.token = console.token /\ f.jar = cookie
  /\ last.op = "signin" => SigningIn(f)
  /\ last.op = "lookup" => LookingUp(f)
  /\ last.op = "clear" => Clearing(f)

\* What the console has come to when nothing is under way.
Settled ==
  /\ last.op = "clear" =>
       console.token = 0 /\ console.shown = NoRecord /\ cookie \notin auth.stored
  /\ last.op = "lookup" =>
       /\ console.shown = (IF last.able THEN last.emp ELSE NoRecord)
       /\ console.signedIn = last.able
  /\ last.op = "signin" =>
       console.signedIn /\ (console.linked # NoRecord => console.shown = console.field)

ConsoleInv ==
  /\ ConsoleTypes
  /\ alone => \A i \in Slots : flows[i] # Console!Idle =>
                OnItsWay(flows[i]) /\ \A j \in Slots \ {i} : flows[j] = Console!Idle
  /\ alone /\ Console!Quiet => Settled

LEMMA IdleIsNone == \A f \in Requests : f # Console!Idle /\ f.op # "idle"
<1>. SUFFICES ASSUME NEW f \in Requests PROVE f # Console!Idle /\ f.op # "idle"
  OBVIOUS
<1>1. f.op \in {"start", "lookup", "signin", "clear"}
  BY DEF Requests
<1>2. Console!Idle.op = "idle"
  BY DEF Console!Idle
<1>. QED
  BY <1>1, <1>2

LEMMA NobodyAnswered ==
  ASSUME ConsoleAssumption
  PROVE  /\ Console!NoAnswer \in ConsoleAnswers /\ Console!Keep \in Nat /\ Console!Keep # 0
         /\ Console!NoAnswer.is = "none" /\ Console!NoAnswer.token = 0
         /\ Console!NoAnswer.cookie = Console!Keep
BY DEF ConsoleAssumption, Console!NoAnswer, Console!Keep, ConsoleAnswers

LEMMA SaysThat ==
  ASSUME ConsoleAssumption, NEW is \in {"none", "ok", "refused", "error", "thrown"}
  PROVE  /\ Console!Says(is) \in ConsoleAnswers /\ Console!Says(is).is = is
         /\ Console!Says(is).cookie = Console!Keep
BY NobodyAnswered DEF Console!Says, ConsoleAnswers, Console!NoAnswer

LEMMA ConsoleTurns ==
  ASSUME ConsoleInv, NEW i \in Slots, NEW g \in {Console!Idle} \cup Requests,
         flows' = [flows EXCEPT ![i] = g], g # Console!Idle => Answerable(g),
         auth' \in Auths, cookie' \in Nat,
         console' \in Consoles, (console'.signedIn) = (console'.token # 0),
         last' \in Begun, alone' \in BOOLEAN,
         alone' => /\ \A j \in Slots \ {i} : flows[j] = Console!Idle
                   /\ g # Console!Idle => OnItsWay(g)'
                   /\ g = Console!Idle => Settled'
  PROVE  ConsoleInv'
<1>1. /\ flows' \in [Slots -> {Console!Idle} \cup Requests] /\ flows'[i] = g
      /\ \A j \in Slots \ {i} : flows'[j] = flows[j]
      /\ \A j \in Slots : flows[j] # Console!Idle => Answerable(flows[j])
  BY DEF ConsoleInv, ConsoleTypes
<1>2. \A j \in Slots : flows'[j] # Console!Idle => Answerable(flows'[j])
  BY <1>1
<1>3. ConsoleTypes'
  BY <1>1, <1>2 DEF ConsoleTypes, Answerable
<1>4. ASSUME alone', NEW j \in Slots, flows'[j] # Console!Idle
      PROVE  OnItsWay(flows[j])' /\ \A k \in Slots \ {j} : flows'[k] = Console!Idle
  <2>1. j = i
    BY <1>1, <1>4
  <2>. QED
    BY <1>1, <1>4, <2>1
<1>5. ASSUME alone', Console!Quiet'
      PROVE  Settled'
  BY <1>1, <1>5 DEF Console!Quiet
<1>. QED
  BY <1>3, <1>4, <1>5 DEF ConsoleInv

\* What is known of a request that goes on, or is answered.
LEMMA UnderWay ==
  ASSUME ConsoleInv, NEW i \in Slots, flows[i] # Console!Idle
  PROVE  /\ flows[i] \in Requests /\ Answerable(flows[i])
         /\ alone => OnItsWay(flows[i]) /\ \A j \in Slots \ {i} : flows[j] = Console!Idle
         /\ auth \in Auths /\ cookie \in Nat /\ console \in Consoles
         /\ console.signedIn = (console.token # 0) /\ last \in Begun /\ alone \in BOOLEAN
         /\ flows \in [Slots -> {Console!Idle} \cup Requests]
BY DEF ConsoleInv, ConsoleTypes

\* A request that is answered is the same request.
SameRequest(f, g) ==
  /\ g.op = f.op /\ g.emp = f.emp /\ g.at = f.at /\ g.again = f.again
  /\ g.token = f.token /\ g.jar = f.jar

LEMMA AnswerComes ==
  ASSUME ConsoleInv, NEW i \in Slots, flows[i] # Console!Idle, NEW a \in ConsoleAnswers,
         Console!Answers(i, a)
  PROVE  \E g \in Requests : /\ flows' = [flows EXCEPT ![i] = g] /\ g.answer = a
                             /\ SameRequest(flows[i], g)
<1>. DEFINE g == [flows[i] EXCEPT !.answer = a]
<1>1. flows[i] \in Requests
  BY UnderWay
<1>2. g \in Requests /\ g.answer = a /\ SameRequest(flows[i], g)
  BY <1>1 DEF Requests, SameRequest
<1>3. flows' = [flows EXCEPT ![i] = g]
  BY DEF Console!Answers
<1>. HIDE DEF g
<1>. QED
  BY <1>2, <1>3

\* A new issue, of which only the newest is known.
LEMMA Issued ==
  ASSUME auth \in Auths, NEW gone, Console!Issue(gone)
  PROVE  /\ auth' \in Auths
         /\ \E n \in Nat : /\ n # 0 /\ n \in auth'.stored /\ Console!LiveToken(n)'
                           /\ Console!NewTokens = [is |-> "ok", token |-> n, cookie |-> n]
                           /\ Console!NewTokens \in ConsoleAnswers
<1>1. PICK old \in [stored : SUBSET Nat, issued : Nat, expired : Nat] :
        old = auth /\ 0 \notin old.stored /\ old.expired <= old.issued
  BY DEF Auths
<1>7. PICK next \in Nat : next = old.issued + 1
  OBVIOUS
<1>2. PICK new : new = [old EXCEPT !.issued = next, !.stored = (old.stored \ gone) \cup {next}]
  OBVIOUS
<1>3. new = auth'
  BY <1>1, <1>2, <1>7 DEF Console!Issue
<1>4. /\ new.issued = next /\ new.expired = old.expired
      /\ new.stored = (old.stored \ gone) \cup {next}
      /\ new \in [stored : SUBSET Nat, issued : Nat, expired : Nat]
  <2>1. PICK st \in SUBSET Nat, is \in Nat, ex \in Nat :
          old = [stored |-> st, issued |-> is, expired |-> ex]
    BY ONLY <1>1
  <2>2. new = [stored |-> (st \ gone) \cup {next}, issued |-> next, expired |-> ex]
    BY ONLY <1>2, <2>1
  <2>3. (st \ gone) \cup {next} \in SUBSET Nat /\ next \in Nat
    OBVIOUS
  <2>4. new \in [stored : SUBSET Nat, issued : Nat, expired : Nat]
    BY ONLY <2>2, <2>3, ex \in Nat
  <2>. QED
    BY ONLY <2>1, <2>2, <2>4
<1>6. new \in Auths
  BY <1>1, <1>4, <1>7 DEF Auths
<1>5. Console!LiveToken(next)'
  BY <1>1, <1>3, <1>4, <1>7 DEF Console!LiveToken
<1>. QED
  BY <1>1, <1>3, <1>4, <1>5, <1>6, <1>7 DEF Console!NewTokens, ConsoleAnswers

LEMMA AnswerKeeps ==
  ASSUME ConsoleInv, NEW i \in Slots, flows[i] # Console!Idle, NEW a \in ConsoleAnswers,
         Console!Answers(i, a), auth' \in Auths, UNCHANGED <<cookie, console, last>>,
         alone' \in BOOLEAN, alone' => alone, a.is # "none",
         flows[i].at = "ask" \/ (flows[i].at = "probe" /\ a.is = "ok") => a.cookie = Console!Keep,
         flows[i].at \in {"refresh", "signin"} /\ a.is = "ok" => a.token # 0,
         \A g \in Requests :
           alone' /\ OnItsWay(flows[i]) /\ g.answer = a /\ SameRequest(flows[i], g)
             => OnItsWay(g)'
  PROVE  ConsoleInv'
<1>1. PICK g \in Requests : /\ flows' = [flows EXCEPT ![i] = g] /\ g.answer = a
                            /\ SameRequest(flows[i], g)
  BY AnswerComes
<1>2. g # Console!Idle
  BY IdleIsNone
<1>3. Answerable(g)
  BY <1>1 DEF Answerable, SameRequest
<1>. QED
  BY <1>1, <1>2, <1>3, UnderWay, ConsoleTurns

LEMMA LookupServed ==
  ASSUME ConsoleAssumption, ConsoleInv, NEW i \in Slots, Console!ServeLookup(i),
         UNCHANGED <<cookie, console, last, alone>>
  PROVE  ConsoleInv'
<1>. DEFINE f == flows[i]
<1>1. PICK is \in {"ok", "error", "refused"} :
        /\ is = (IF Console!LiveToken(f.token) THEN "ok"
                 ELSE IF f.token = 0 THEN "error" ELSE "refused")
        /\ Console!Answers(i, Console!Says(is))
  BY DEF Console!ServeLookup
<1>2. f # Console!Idle /\ f.at = "ask" /\ UNCHANGED auth
  BY DEF Console!ServeLookup, Console!Asked
<1>3. PICK a \in ConsoleAnswers : a = Console!Says(is) /\ a.is = is /\ a.cookie = Console!Keep
  BY SaysThat
<1>4. ASSUME NEW g \in Requests, OnItsWay(f), g.answer = a, SameRequest(f, g)
      PROVE  OnItsWay(g)'
  <2>1. g.token = console'.token /\ g.jar = cookie'
    BY <1>4 DEF OnItsWay, SameRequest
  <2>2. last'.op = "signin" => SigningIn(g)'
    BY <1>1, <1>2, <1>3, <1>4 DEF OnItsWay, SameRequest, SigningIn, Console!LiveToken
  <2>3. last'.op = "lookup" => LookingUp(g)'
    BY <1>1, <1>2, <1>3, <1>4 DEF OnItsWay, SameRequest, LookingUp, Console!LiveToken
  <2>4. last'.op = "clear" => Clearing(g)'
    BY <1>2, <1>4 DEF OnItsWay, Clearing
  <2>. QED
    BY <2>1, <2>2, <2>3, <2>4 DEF OnItsWay
<1>. QED
  BY <1>1, <1>2, <1>3, <1>4, AnswerKeeps, UnderWay

LEMMA ProbeServed ==
  ASSUME ConsoleAssumption, ConsoleInv, NEW i \in Slots, Console!ServeProbe(i),
         UNCHANGED <<cookie, console, last, alone>>
  PROVE  ConsoleInv'
<1>. DEFINE f == flows[i]
            said == IF f.jar \in auth.stored THEN Console!Says("ok")
                    ELSE [Console!Says("refused") EXCEPT
                            !.cookie = IF f.jar = 0 THEN Console!Keep ELSE 0]
<1>1. /\ f # Console!Idle /\ f.at = "probe" /\ UNCHANGED auth /\ Console!Answers(i, said)
      /\ f \in Requests
  BY UnderWay DEF Console!ServeProbe, Console!Asked
<1>2. PICK a \in ConsoleAnswers :
        /\ a = said
        /\ a.is = IF f.jar \in auth.stored THEN "ok" ELSE "refused"
        /\ a.is = "ok" => a.cookie = Console!Keep
        /\ a.is = "refused" => a.cookie = IF f.jar = 0 THEN Console!Keep ELSE 0
  <2>1. Console!Keep \in Nat
    BY NobodyAnswered
  <2>2. CASE f.jar \in auth.stored
    BY <2>2, SaysThat
  <2>3. CASE f.jar \notin auth.stored
    <3>1. PICK r \in ConsoleAnswers : r = Console!Says("refused") /\ r.is = "refused"
      BY SaysThat
    <3>2. PICK c \in Nat : c = IF f.jar = 0 THEN Console!Keep ELSE 0
      BY <2>1
    <3>3. [r EXCEPT !.cookie = c] \in ConsoleAnswers /\ [r EXCEPT !.cookie = c].is = "refused"
          /\ [r EXCEPT !.cookie = c].cookie = c
      BY ONLY <3>1 DEF ConsoleAnswers
    <3>4. said = [r EXCEPT !.cookie = c]
      BY <2>3, <3>1, <3>2
    <3>. HIDE DEF said
    <3>. QED
      BY <2>3, <3>2, <3>3, <3>4
  <2>. QED
    BY <2>2, <2>3
<1>. HIDE DEF said
<1>3. ASSUME NEW g \in Requests, OnItsWay(f), g.answer = a, SameRequest(f, g)
      PROVE  OnItsWay(g)'
  <2>1. g.token = console'.token /\ g.jar = cookie' /\ f.jar = cookie
    BY <1>3 DEF OnItsWay, SameRequest
  <2>2. last'.op = "signin" => SigningIn(g)'
    BY <1>1, <1>3 DEF OnItsWay, SigningIn
  <2>3. last'.op = "lookup" => LookingUp(g)'
    BY <1>1, <1>2, <1>3, <2>1 DEF OnItsWay, SameRequest, LookingUp
  <2>4. last'.op = "clear" => Clearing(g)'
    BY <1>1, <1>2, <1>3, <2>1 DEF OnItsWay, SameRequest, Clearing
  <2>. QED
    BY <2>1, <2>2, <2>3, <2>4 DEF OnItsWay
<1>. QED
  BY <1>1, <1>2, <1>3, AnswerKeeps, UnderWay

LEMMA RefreshServed ==
  ASSUME ConsoleAssumption, ConsoleInv, NEW i \in Slots, Console!ServeRefresh(i),
         UNCHANGED <<cookie, console, last, alone>>
  PROVE  ConsoleInv'
<1>. DEFINE f == flows[i]
<1>1. f # Console!Idle /\ f.at = "refresh" /\ f \in Requests /\ f.answer.is = "none"
  BY UnderWay, NobodyAnswered DEF Console!ServeRefresh, Console!Asked
<1>2. CASE f.jar \in auth.stored /\ Console!Issue({f.jar}) /\ Console!Answers(i, Console!NewTokens)
  <2>1. PICK a \in ConsoleAnswers :
          /\ a = Console!NewTokens /\ a.is = "ok" /\ a.token # 0
          /\ Console!LiveToken(a.token)' /\ a.token \in auth'.stored
    <3>1. auth \in Auths /\ Console!Issue({f.jar})
      BY <1>1, <1>2, UnderWay
    <3>3. PICK n \in Nat :
            /\ n # 0 /\ n \in auth'.stored /\ Console!LiveToken(n)'
            /\ Console!NewTokens = [is |-> "ok", token |-> n, cookie |-> n]
            /\ Console!NewTokens \in ConsoleAnswers
      BY <3>1, Issued
    <3>4. Console!NewTokens.is = "ok" /\ Console!NewTokens.token = n
      BY <3>3
    <3>. QED
      BY <3>3, <3>4
  <2>2. ASSUME NEW g \in Requests, OnItsWay(f), g.answer = a, SameRequest(f, g)
        PROVE  OnItsWay(g)'
    <3>1. g.token = console'.token /\ g.jar = cookie'
      BY <2>2 DEF OnItsWay, SameRequest
    <3>2. last'.op = "signin" => SigningIn(g)'
      BY <1>1, <2>2 DEF OnItsWay, SigningIn
    <3>3. last'.op = "lookup" => LookingUp(g)'
      BY <1>1, <2>1, <2>2 DEF OnItsWay, SameRequest, LookingUp
    <3>4. last'.op = "clear" => Clearing(g)'
      BY <1>1, <2>1, <2>2 DEF OnItsWay, SameRequest, Clearing
    <3>. QED
      BY <3>1, <3>2, <3>3, <3>4 DEF OnItsWay
  <2>. QED
    BY <1>1, <1>2, <2>1, <2>2, AnswerKeeps, UnderWay, Issued
<1>3. ASSUME f.jar \notin auth.stored, UNCHANGED auth,
             Console!Answers(i, [Console!Says("refused") EXCEPT
                                   !.cookie = IF f.jar = 0 THEN Console!Keep ELSE 0])
      PROVE  ConsoleInv'
  <2>1. PICK r \in ConsoleAnswers : r = Console!Says("refused") /\ r.is = "refused"
    BY SaysThat
  <2>2. PICK c \in Nat : c = IF f.jar = 0 THEN Console!Keep ELSE 0
    BY NobodyAnswered
  <2>6. [r EXCEPT !.cookie = c] \in ConsoleAnswers /\ [r EXCEPT !.cookie = c].is = "refused"
    BY ONLY <2>1 DEF ConsoleAnswers
  <2>3. PICK a \in ConsoleAnswers : a = [r EXCEPT !.cookie = c] /\ a.is = "refused"
    BY ONLY <2>6
  <2>4. Console!Answers(i, a)
    BY <1>3, <2>1, <2>2, <2>3
  <2>5. ASSUME NEW g \in Requests, OnItsWay(f), g.answer = a, SameRequest(f, g)
        PROVE  OnItsWay(g)'
    BY <1>1, <1>3, <2>5 DEF OnItsWay, SameRequest, SigningIn, LookingUp, Clearing
  <2>. QED
    BY <1>1, <1>3, <2>3, <2>4, <2>5, AnswerKeeps, UnderWay
<1>. QED
  BY <1>2, <1>3 DEF Console!ServeRefresh

LEMMA SigninServed ==
  ASSUME ConsoleAssumption, ConsoleInv, NEW i \in Slots, Console!ServeSignin(i),
         UNCHANGED <<cookie, console, last, alone>>
  PROVE  ConsoleInv'
<1>. DEFINE f == flows[i]
<1>1. /\ f # Console!Idle /\ f.at = "signin" /\ f.answer.is = "none"
      /\ auth \in Auths /\ Console!Issue({}) /\ Console!Answers(i, Console!NewTokens)
  BY UnderWay, NobodyAnswered DEF Console!ServeSignin, Console!Asked
<1>2. PICK n \in Nat : /\ n # 0 /\ n \in auth'.stored /\ Console!LiveToken(n)'
                       /\ Console!NewTokens = [is |-> "ok", token |-> n, cookie |-> n]
                       /\ Console!NewTokens \in ConsoleAnswers
  BY <1>1, Issued
<1>3. PICK a \in ConsoleAnswers : a = Console!NewTokens /\ a.is = "ok" /\ a.token = n
  BY <1>2
<1>4. ASSUME NEW g \in Requests, OnItsWay(f), g.answer = a, SameRequest(f, g)
      PROVE  OnItsWay(g)'
  <2>1. g.token = console'.token /\ g.jar = cookie'
    BY <1>4 DEF OnItsWay, SameRequest
  <2>2. last'.op = "signin" => SigningIn(g)'
    BY <1>1, <1>2, <1>3, <1>4 DEF OnItsWay, SameRequest, SigningIn
  <2>3. last'.op = "lookup" => LookingUp(g)'
    BY <1>1, <1>4 DEF OnItsWay, LookingUp
  <2>4. last'.op = "clear" => Clearing(g)'
    BY <1>1, <1>4 DEF OnItsWay, Clearing
  <2>. QED
    BY <2>1, <2>2, <2>3, <2>4 DEF OnItsWay
<1>. QED
  BY <1>1, <1>2, <1>3, <1>4, AnswerKeeps, UnderWay, Issued

\* A session that ends leaves fewer issues.
LEMMA FewerStored ==
  ASSUME auth \in Auths, NEW gone, auth' = [auth EXCEPT !.stored = auth.stored \ gone]
  PROVE  /\ auth' \in Auths /\ auth'.stored = auth.stored \ gone
         /\ auth'.expired = auth.expired
<1>1. auth \in [stored : SUBSET Nat, issued : Nat, expired : Nat]
  BY DEF Auths
<1>2. /\ auth' \in [stored : SUBSET Nat, issued : Nat, expired : Nat]
      /\ auth'.stored = auth.stored \ gone
      /\ auth'.expired = auth.expired /\ auth'.issued = auth.issued
  BY <1>1
<1>. QED
  BY <1>2 DEF Auths

LEMMA LogoutServed ==
  ASSUME ConsoleAssumption, ConsoleInv, NEW i \in Slots, Console!ServeLogout(i),
         UNCHANGED <<cookie, console, last, alone>>
  PROVE  ConsoleInv'
<1>. DEFINE f == flows[i]
<1>1. /\ f # Console!Idle /\ f.at = "logout" /\ f \in Requests /\ auth \in Auths
  BY UnderWay DEF Console!ServeLogout, Console!Asked
<1>2. CASE /\ Console!LiveToken(f.token) /\ f.token \in auth.stored
           /\ auth' = [auth EXCEPT !.stored = @ \ {f.token, f.jar}]
           /\ Console!Answers(i, [Console!Says("ok") EXCEPT !.cookie = 0])
  <2>1. PICK r \in ConsoleAnswers : r = Console!Says("ok") /\ r.is = "ok"
    BY SaysThat
  <2>2. /\ [r EXCEPT !.cookie = 0] \in ConsoleAnswers /\ [r EXCEPT !.cookie = 0].is = "ok"
        /\ [r EXCEPT !.cookie = 0].cookie = 0
    BY ONLY <2>1 DEF ConsoleAnswers
  <2>3. PICK a \in ConsoleAnswers : a = [r EXCEPT !.cookie = 0] /\ a.is = "ok" /\ a.cookie = 0
    BY ONLY <2>2
  <2>4. Console!Answers(i, a) /\ auth' \in Auths
    BY <1>1, <1>2, <2>1, <2>3, FewerStored
  <2>5. ASSUME NEW g \in Requests, OnItsWay(f), g.answer = a, SameRequest(f, g)
        PROVE  OnItsWay(g)'
    <3>1. g.token = console'.token /\ g.jar = cookie'
      BY <2>5 DEF OnItsWay, SameRequest
    <3>2. last'.op = "signin" => SigningIn(g)'
      BY <1>1, <2>5 DEF OnItsWay, SigningIn
    <3>3. last'.op = "lookup" => LookingUp(g)'
      BY <1>1, <2>5 DEF OnItsWay, LookingUp
    <3>4. last'.op = "clear" => Clearing(g)'
      BY <1>1, <2>3, <2>5 DEF OnItsWay, SameRequest, Clearing
    <3>. QED
      BY <3>1, <3>2, <3>3, <3>4 DEF OnItsWay
  <2>. QED
    BY <1>1, <2>3, <2>4, <2>5, AnswerKeeps, UnderWay
<1>3. CASE /\ ~ (Console!LiveToken(f.token) /\ f.token \in auth.stored)
           /\ Console!Answers(i, Console!Says("refused")) /\ UNCHANGED auth
  <2>1. PICK a \in ConsoleAnswers :
          a = Console!Says("refused") /\ a.is = "refused" /\ a.cookie = Console!Keep
    BY SaysThat
  <2>2. ASSUME NEW g \in Requests, OnItsWay(f), g.answer = a, SameRequest(f, g)
        PROVE  OnItsWay(g)'
    <3>1. g.token = console'.token /\ g.jar = cookie' /\ f.token = console.token
      BY <2>2 DEF OnItsWay, SameRequest
    <3>2. last'.op = "signin" => SigningIn(g)'
      BY <1>1, <2>2 DEF OnItsWay, SigningIn
    <3>3. last'.op = "lookup" => LookingUp(g)'
      BY <1>1, <2>2 DEF OnItsWay, LookingUp
    <3>4. last'.op = "clear" => Clearing(g)'
      <4>1. f.answer.is = "none"
        BY NobodyAnswered DEF Console!ServeLogout, Console!Asked
      <4>2. last'.op = "clear" => ~ f.again
        BY <1>1, <1>3, <2>2, <3>1, <4>1 DEF OnItsWay, Clearing
      <4>. QED
        BY <1>1, <2>1, <2>2, <4>2 DEF OnItsWay, SameRequest, Clearing
    <3>. QED
      BY <3>1, <3>2, <3>3, <3>4 DEF OnItsWay
  <2>. QED
    BY <1>1, <1>3, <2>1, <2>2, AnswerKeeps, UnderWay
<1>. QED
  BY <1>2, <1>3 DEF Console!ServeLogout

LEMMA FailureKeeps ==
  ASSUME ConsoleAssumption, ConsoleInv, NEW i \in Slots, Console!Fails(i)
  PROVE  ConsoleInv'
<1>1. PICK is \in {"error", "thrown"} : Console!Answers(i, Console!Says(is))
  BY DEF Console!Fails
<1>2. /\ flows[i] # Console!Idle /\ alone' = FALSE /\ UNCHANGED <<auth, cookie, console, last>>
      /\ auth \in Auths
  BY UnderWay DEF Console!Fails
<1>3. PICK a \in ConsoleAnswers : a = Console!Says(is) /\ a.is = is /\ a.cookie = Console!Keep
  BY SaysThat
<1>. QED
  BY <1>1, <1>2, <1>3, AnswerKeeps

\* A request as it is sent.
IsSent(g, op, emp, at, again, token, jar) ==
  /\ g = Console!Sends(op, emp, at, again, token, jar)
  /\ g.op = op /\ g.emp = emp /\ g.at = at /\ g.again = again
  /\ g.token = token /\ g.jar = jar /\ g.answer.is = "none" /\ Answerable(g)

LEMMA Sent ==
  ASSUME ConsoleAssumption, NEW op \in {"start", "lookup", "signin", "clear"},
         NEW emp \in People, NEW at \in {"ask", "probe", "refresh", "signin", "logout"},
         NEW again \in BOOLEAN, NEW token \in Nat, NEW jar \in Nat
  PROVE  \E g \in Requests : IsSent(g, op, emp, at, again, token, jar)
<1>. DEFINE g == Console!Sends(op, emp, at, again, token, jar)
<1>1. PICK a \in ConsoleAnswers : a = Console!NoAnswer /\ a.is = "none" /\ a.cookie = Console!Keep
  BY NobodyAnswered
<1>2. g = [op |-> op, emp |-> emp, at |-> at, again |-> again, token |-> token, jar |-> jar,
           answer |-> a]
  BY <1>1 DEF Console!Sends
<1>. HIDE DEF g
<1>3. /\ g \in Requests /\ g.op = op /\ g.emp = emp /\ g.at = at /\ g.again = again
      /\ g.token = token /\ g.jar = jar /\ g.answer = a
  BY <1>2 DEF Requests
<1>4. Answerable(g)
  BY <1>1, <1>3 DEF Answerable
<1>. QED
  BY <1>1, <1>3, <1>4 DEF g, IsSent

LEMMA BeginsAlone ==
  ASSUME ConsoleAssumption, ConsoleInv, NEW i \in Slots,
         NEW op \in {"start", "lookup", "signin", "clear"},
         NEW emp \in People, NEW at \in {"ask", "probe", "refresh", "signin", "logout"},
         Console!Begins(i, op, emp, at),
         console' \in Consoles, UNCHANGED <<console.token, console.signedIn>>,
         op = "signin" => at = "signin",
         op = "lookup" => at = "ask" /\ console.token # 0,
         op = "clear" => at = "logout"
  PROVE  ConsoleInv'
<1>1. /\ auth \in Auths /\ cookie \in Nat /\ console \in Consoles
      /\ console.signedIn = (console.token # 0)
      /\ flows \in [Slots -> {Console!Idle} \cup Requests]
  BY DEF ConsoleInv, ConsoleTypes
<1>7. console.token \in Nat /\ FALSE \in BOOLEAN
  BY <1>1 DEF Consoles
<1>8. PICK g \in Requests : IsSent(g, op, emp, at, FALSE, console.token, cookie)
  BY <1>1, <1>7, Sent
<1>2. /\ g = Console!Sends(op, emp, at, FALSE, console.token, cookie)
      /\ g.op = op /\ g.emp = emp /\ g.at = at /\ g.again = FALSE
      /\ g.token = console.token /\ g.jar = cookie /\ g.answer.is = "none" /\ Answerable(g)
  BY <1>8 DEF IsSent
<1>3. /\ flows' = [flows EXCEPT ![i] = g] /\ UNCHANGED <<auth, cookie>>
      /\ last' = [op |-> op, emp |-> emp,
                  able |-> Console!LiveToken(console.token) \/ cookie \in auth.stored]
      /\ alone' = Console!Quiet
  BY <1>2 DEF Console!Begins
<1>4. last' \in Begun /\ alone' \in BOOLEAN
  <2>1. (Console!LiveToken(console.token) \/ cookie \in auth.stored) \in BOOLEAN
    OBVIOUS
  <2>. QED
    BY <1>3, <2>1 DEF Begun, Console!Quiet
<1>5. g # Console!Idle
  BY IdleIsNone
<1>6. OnItsWay(g)'
  <2>1. g.token = console'.token /\ g.jar = cookie'
    BY <1>2, <1>3
  <2>2. last'.op = op /\ last'.emp = emp
        /\ last'.able = (Console!LiveToken(console.token) \/ cookie \in auth.stored)
    BY <1>3
  <2>3. op = "signin" => SigningIn(g)'
    BY <1>2 DEF SigningIn
  <2>4. op = "lookup" => LookingUp(g)'
    BY <1>2, <1>3, <2>2 DEF LookingUp, Console!LiveToken
  <2>5. op = "clear" => Clearing(g)'
    BY <1>2 DEF Clearing
  <2>. QED
    BY <2>1, <2>2, <2>3, <2>4, <2>5 DEF OnItsWay
<1>. QED
  BY <1>1, <1>2, <1>3, <1>4, <1>5, <1>6, ConsoleTurns DEF Console!Quiet

\* What the answers bring: the cookie, and the next request.
LEMMA JarIsCookie ==
  ASSUME ConsoleAssumption, ConsoleInv, NEW i \in Slots, flows[i] # Console!Idle,
         cookie' = Console!Jar(i)
  PROVE  /\ cookie' \in Nat
         /\ flows[i].answer.cookie = Console!Keep => cookie' = cookie
         /\ flows[i].answer.cookie = 0 => cookie' = 0
<1>1. flows[i].answer.cookie \in Nat /\ cookie \in Nat
  BY UnderWay DEF Requests, ConsoleAnswers
<1>. QED
  BY <1>1, NobodyAnswered DEF Console!Jar

\* The flow ends: what was asked for has come about.
LEMMA FlowEnds ==
  ASSUME ConsoleAssumption, ConsoleInv, NEW i \in Slots, flows[i] # Console!Idle,
         cookie' = Console!Jar(i), Console!Ends(i), UNCHANGED <<auth, last, alone>>,
         console' \in Consoles, (console'.signedIn) = (console'.token # 0),
         alone /\ OnItsWay(flows[i]) => Settled'
  PROVE  ConsoleInv'
BY UnderWay, JarIsCookie, ConsoleTurns DEF Console!Ends

\* The flow goes on with another request, of the token and the cookie that
\* there are now.
NextRequest(i, g, op, emp, at, again) ==
  /\ flows' = [flows EXCEPT ![i] = g] /\ Answerable(g)
  /\ g.op = op /\ g.emp = emp /\ g.at = at /\ g.again = again
  /\ g.token = console'.token /\ g.jar = cookie' /\ g.answer.is = "none"

LEMMA FlowGoesOn ==
  ASSUME ConsoleAssumption, ConsoleInv, NEW i \in Slots, flows[i] # Console!Idle,
         cookie' = Console!Jar(i), console' \in Consoles,
         NEW op \in {"start", "lookup", "signin", "clear"},
         NEW emp \in People, NEW at \in {"ask", "probe", "refresh", "signin", "logout"},
         NEW again \in BOOLEAN, Console!GoesOn(i, op, emp, at, again)
  PROVE  \E g \in Requests : NextRequest(i, g, op, emp, at, again)
<1>1. cookie' \in Nat /\ console'.token \in Nat
  BY JarIsCookie DEF Consoles
<1>2. PICK g \in Requests : IsSent(g, op, emp, at, again, console'.token, cookie')
  BY <1>1, Sent
<1>3. NextRequest(i, g, op, emp, at, again)
  BY <1>2 DEF IsSent, NextRequest, Console!GoesOn
<1>. QED
  BY <1>3

LEMMA FlowTurns ==
  ASSUME ConsoleAssumption, ConsoleInv, NEW i \in Slots, flows[i] # Console!Idle,
         cookie' = Console!Jar(i), UNCHANGED <<auth, last, alone>>,
         console' \in Consoles, (console'.signedIn) = (console'.token # 0),
         NEW g \in Requests, NEW op, NEW emp, NEW at, NEW again,
         NextRequest(i, g, op, emp, at, again),
         alone /\ OnItsWay(flows[i]) =>
           /\ last.op = "signin" => SigningIn(g)'
           /\ last.op = "lookup" => LookingUp(g)'
           /\ last.op = "clear" => Clearing(g)'
  PROVE  ConsoleInv'
<1>1. cookie' \in Nat
  BY JarIsCookie
<1>2. g # Console!Idle
  BY IdleIsNone
<1>3. alone => OnItsWay(g)'
  BY UnderWay DEF OnItsWay, NextRequest
<1>. QED
  BY <1>1, <1>2, <1>3, UnderWay, ConsoleTurns DEF NextRequest

LEMMA SessionsShown ==
  ASSUME NEW p \in Consoles, NEW token \in Nat
  PROVE  /\ Console!NoSession(p) \in Consoles /\ Console!NoSession(p).token = 0
         /\ Console!NoSession(p).signedIn = FALSE
         /\ Console!NoSession(p).shown = p.shown
         /\ Console!ResetRecordView(p) \in Consoles /\ Console!ResetRecordView(p).shown = NoRecord
         /\ Console!ResetRecordView(p).token = p.token
         /\ Console!ResetRecordView(p).signedIn = p.signedIn
         /\ Console!Session(p, token) \in Consoles /\ Console!Session(p, token).token = token
         /\ Console!Session(p, token).signedIn = TRUE
         /\ Console!Session(p, token).field = p.field
BY DEF Consoles, People, Console!NoSession, Console!ResetRecordView, Console!Session

LEMMA LookupReceived ==
  ASSUME ConsoleAssumption, ConsoleInv, NEW i \in Slots, flows[i] # Console!Idle,
         cookie' = Console!Jar(i), UNCHANGED <<auth, last, alone>>, Console!LookupAnswered(i)
  PROVE  ConsoleInv'
<1>. DEFINE f == flows[i]
<1>1. /\ f \in Requests /\ Answerable(f) /\ console \in Consoles /\ last \in Begun
      /\ console.signedIn = (console.token # 0) /\ f.emp \in People
  BY UnderWay DEF Requests
<1>2. f.op = "lookup" /\ f.at = "ask" /\ cookie' = cookie
  BY <1>1, JarIsCookie DEF Console!LookupAnswered, Console!Is, Answerable
<1>3. CASE Console!Is(i, {"lookup"}, "ask", {"ok"}) /\ Console!Ends(i)
           /\ console' = [console EXCEPT !.shown = f.emp]
  <2>1. /\ console' \in Consoles /\ console'.signedIn = console.signedIn
        /\ console'.token = console.token /\ console'.field = console.field
        /\ console'.shown = f.emp /\ f.answer.is = "ok"
    BY <1>1, <1>3 DEF Consoles, Console!Is
  <2>2. ASSUME OnItsWay(f)
        PROVE  Settled'
    <3>1. last.op = "signin" => SigningIn(f)
      BY <2>2 DEF OnItsWay
    <3>2. last.op = "lookup" => LookingUp(f)
      BY <2>2 DEF OnItsWay
    <3>3. last.op # "clear"
      BY <1>2, <2>2 DEF OnItsWay, Clearing
    <3>4. last.op = "signin" => console.signedIn /\ f.emp = console.field
      BY <1>1, <1>2, <3>1 DEF SigningIn, Console!LiveToken
    <3>5. last.op = "lookup" => last.able /\ console.signedIn /\ f.emp = last.emp
      BY <1>1, <1>2, <2>1, <3>2 DEF LookingUp, Console!LiveToken, Begun
    <3>. QED
      BY <2>1, <3>3, <3>4, <3>5 DEF Settled
  <2>. QED
    BY <1>1, <1>3, <2>1, <2>2, FlowEnds
<1>4. CASE /\ Console!Is(i, {"lookup"}, "ask", {"refused"}) /\ ~ f.again
           /\ UNCHANGED console /\ Console!GoesOn(i, "lookup", f.emp, "probe", TRUE)
  <2>1. console' \in Consoles /\ (console'.signedIn) = (console'.token # 0) /\ f.answer.is = "refused"
    BY <1>1, <1>4 DEF Console!Is
  <2>2. PICK g \in Requests : NextRequest(i, g, "lookup", f.emp, "probe", TRUE)
    BY <1>1, <1>4, <2>1, FlowGoesOn
  <2>3. ASSUME OnItsWay(f)
        PROVE  /\ last.op = "signin" => SigningIn(g)'
               /\ last.op = "lookup" => LookingUp(g)'
               /\ last.op = "clear" => Clearing(g)'
    <3>1. last.op # "clear" /\ last.op # "signin"
      BY <1>2, <2>1, <2>3 DEF OnItsWay, Clearing, SigningIn
    <3>2. last.op = "lookup" => last.able = (cookie \in auth.stored) /\ f.emp = last.emp
      BY <1>1, <1>2, <1>4, <2>1, <2>3 DEF OnItsWay, LookingUp
    <3>. QED
      BY <1>2, <2>2, <3>1, <3>2 DEF LookingUp, NextRequest
  <2>. QED
    BY <1>1, <2>1, <2>2, <2>3, FlowTurns
<1>5. CASE /\ Console!Is(i, {"lookup"}, "ask", Console!Failed) /\ Console!Ends(i)
           /\ f.answer.is = "refused" => f.again
           /\ console' = Console!ResetRecordView(console)
  <2>1. /\ console' \in Consoles /\ console'.token = console.token
        /\ console'.signedIn = console.signedIn
    BY <1>1, <1>5, SessionsShown DEF Consoles
  <2>2. f.answer.is \in {"refused", "error", "thrown"}
    BY <1>5 DEF Console!Is, Console!Failed
  <2>3. OnItsWay(f) => last.op = "start"
    BY <1>1, <1>2, <1>5, <2>2 DEF OnItsWay, LookingUp, SigningIn, Clearing, Begun
  <2>4. OnItsWay(f) => Settled'
    BY <2>3 DEF Settled
  <2>. QED
    BY <1>1, <1>5, <2>1, <2>4, FlowEnds
<1>. QED
  BY <1>3, <1>4, <1>5 DEF Console!LookupAnswered

LEMMA LogoutReceived ==
  ASSUME ConsoleAssumption, ConsoleInv, NEW i \in Slots, flows[i] # Console!Idle,
         cookie' = Console!Jar(i), UNCHANGED <<auth, last, alone>>, Console!LogoutAnswered(i)
  PROVE  ConsoleInv'
<1>. DEFINE f == flows[i]
<1>1. /\ f \in Requests /\ Answerable(f) /\ console \in Consoles /\ last \in Begun
      /\ console.signedIn = (console.token # 0) /\ auth \in Auths
  BY UnderWay
<1>2. f.op = "clear" /\ f.at = "logout"
  BY DEF Console!LogoutAnswered, Console!Is
<1>3. OnItsWay(f) => last.op \in {"start", "clear"}
  BY <1>1, <1>2 DEF OnItsWay, SigningIn, LookingUp, Begun
<1>4. CASE /\ Console!Is(i, {"clear"}, "logout", {"refused"}) /\ ~ f.again
           /\ UNCHANGED console /\ Console!GoesOn(i, "clear", NoRecord, "probe", TRUE)
  <2>1. console' \in Consoles /\ (console'.signedIn) = (console'.token # 0) /\ f.answer.is = "refused"
    BY <1>1, <1>4 DEF Console!Is
  <2>2. NoRecord \in People
    BY DEF People
  <2>3. PICK g \in Requests : NextRequest(i, g, "clear", NoRecord, "probe", TRUE)
    BY <1>4, <2>1, <2>2, FlowGoesOn
  <2>4. ASSUME OnItsWay(f)
        PROVE  /\ last.op = "signin" => SigningIn(g)'
               /\ last.op = "lookup" => LookingUp(g)'
               /\ last.op = "clear" => Clearing(g)'
    BY <1>3, <2>3, <2>4 DEF Clearing, NextRequest
  <2>. QED
    BY <2>1, <2>3, <2>4, FlowTurns
<1>5. CASE /\ f.answer.is \in {"ok", "refused", "error", "thrown"}
           /\ f.answer.is = "refused" => f.again
           /\ Console!Cleared(i)
  <2>1. Console!NoSession(console) \in Consoles
    BY <1>1, SessionsShown, 0 \in Nat
  <2>2. /\ console' \in Consoles /\ console'.token = 0 /\ console'.signedIn = FALSE
        /\ console'.shown = NoRecord /\ Console!Ends(i)
    BY <1>1, <1>5, <2>1, SessionsShown, 0 \in Nat DEF Console!Cleared
  <2>3. OnItsWay(f) /\ last.op = "clear" => cookie' = 0
    BY <1>2, <1>5, JarIsCookie DEF OnItsWay, Clearing
  <2>4. OnItsWay(f) => Settled'
    BY <1>1, <1>3, <2>2, <2>3 DEF Settled, Auths
  <2>. QED
    BY <2>2, <2>4, FlowEnds
<1>. QED
  BY <1>4, <1>5 DEF Console!LogoutAnswered, Console!Is

LEMMA ProbeReceived ==
  ASSUME ConsoleAssumption, ConsoleInv, NEW i \in Slots, flows[i] # Console!Idle,
         cookie' = Console!Jar(i), UNCHANGED <<auth, last, alone>>, Console!ProbeAnswered(i)
  PROVE  ConsoleInv'
<1>. DEFINE f == flows[i]
<1>1. /\ f \in Requests /\ Answerable(f) /\ console \in Consoles /\ last \in Begun
      /\ console.signedIn = (console.token # 0) /\ f.emp \in People /\ f.again \in BOOLEAN
      /\ f.op \in {"start", "lookup", "signin", "clear"}
  BY UnderWay DEF Requests
<1>2. /\ f.at = "probe" /\ f.answer.is = "ok" /\ UNCHANGED console
      /\ Console!GoesOn(i, f.op, f.emp, "refresh", f.again)
      /\ f.answer.cookie = Console!Keep
  BY <1>1 DEF Console!ProbeAnswered, Console!Is, Answerable
<1>3. cookie' = cookie /\ console' \in Consoles /\ (console'.signedIn) = (console'.token # 0)
  BY <1>1, <1>2, JarIsCookie
<1>4. PICK g \in Requests : NextRequest(i, g, f.op, f.emp, "refresh", f.again)
  BY <1>1, <1>2, <1>3, FlowGoesOn
<1>5. ASSUME OnItsWay(f)
      PROVE  /\ last.op = "signin" => SigningIn(g)'
             /\ last.op = "lookup" => LookingUp(g)'
             /\ last.op = "clear" => Clearing(g)'
  <2>1. last.op # "signin"
    BY <1>2, <1>5 DEF OnItsWay, SigningIn
  <2>2. last.op = "lookup" => LookingUp(g)'
    BY <1>1, <1>2, <1>3, <1>4, <1>5 DEF OnItsWay, LookingUp, NextRequest, Begun
  <2>3. last.op = "clear" => Clearing(g)'
    BY <1>2, <1>3, <1>4, <1>5 DEF OnItsWay, Clearing, NextRequest
  <2>. QED
    BY <2>1, <2>2, <2>3
<1>. QED
  BY <1>3, <1>4, <1>5, FlowTurns

\* The look-up at the end of a start and of a sign-in.
LEMMA AutoLookupKeeps ==
  ASSUME ConsoleAssumption, ConsoleInv, NEW i \in Slots, flows[i] # Console!Idle,
         cookie' = Console!Jar(i), UNCHANGED <<auth, last, alone>>,
         NEW p \in Consoles, p.token # 0, p.signedIn = TRUE, Console!AutoLookup(i, p),
         OnItsWay(flows[i]) =>
           last.op = "start" \/ (last.op = "signin" /\ Console!LiveToken(p.token))
  PROVE  ConsoleInv'
<1>1. console' = p /\ console' \in Consoles /\ (console'.signedIn) = (console'.token # 0)
  BY DEF Console!AutoLookup
<1>2. CASE (p.linked = NoRecord \/ p.shown = p.field) /\ Console!Ends(i)
  <2>1. OnItsWay(flows[i]) => Settled'
    BY <1>1, <1>2 DEF Settled
  <2>. QED
    BY <1>1, <1>2, <2>1, FlowEnds
<1>3. CASE Console!GoesOn(i, "lookup", p.field, "ask", FALSE)
  <2>1. p.field \in People
    BY DEF Consoles
  <2>2. PICK g \in Requests : NextRequest(i, g, "lookup", p.field, "ask", FALSE)
    BY <1>1, <1>3, <2>1, FlowGoesOn
  <2>3. ASSUME OnItsWay(flows[i])
        PROVE  /\ last.op = "signin" => SigningIn(g)'
               /\ last.op = "lookup" => LookingUp(g)'
               /\ last.op = "clear" => Clearing(g)'
    BY <1>1, <2>2, <2>3 DEF SigningIn, NextRequest, Console!LiveToken
  <2>. QED
    BY <1>1, <2>2, <2>3, FlowTurns
<1>. QED
  BY <1>2, <1>3 DEF Console!AutoLookup

LEMMA RestoreReceived ==
  ASSUME ConsoleAssumption, ConsoleInv, NEW i \in Slots, flows[i] # Console!Idle,
         cookie' = Console!Jar(i), UNCHANGED <<auth, last, alone>>, Console!Restored(i)
  PROVE  ConsoleInv'
<1>. DEFINE f == flows[i]
            p == Console!Session(console, f.answer.token)
<1>1. /\ f \in Requests /\ Answerable(f) /\ console \in Consoles /\ last \in Begun
      /\ f.emp \in People /\ f.again \in BOOLEAN /\ f.answer.token \in Nat /\ NoRecord \in People
  BY UnderWay DEF Requests, ConsoleAnswers, People
<1>2. f.at = "refresh" /\ f.answer.is = "ok" /\ f.answer.token # 0
  BY <1>1 DEF Console!Restored, Console!Is, Answerable
<1>3. p \in Consoles /\ p.token = f.answer.token /\ p.token # 0 /\ p.signedIn = TRUE
  BY <1>1, <1>2, SessionsShown
<1>4. OnItsWay(f) => last.op # "signin"
  BY <1>2 DEF OnItsWay, SigningIn
<1>5. \/ f.op = "start" /\ Console!AutoLookup(i, p)
      \/ f.op = "lookup" /\ console' = p /\ Console!GoesOn(i, "lookup", f.emp, "ask", TRUE)
      \/ f.op = "clear" /\ console' = p /\ Console!GoesOn(i, "clear", NoRecord, "logout", f.again)
  BY DEF Console!Restored
<1>. HIDE DEF p
<1>6. CASE f.op = "start" /\ Console!AutoLookup(i, p)
  <2>1. OnItsWay(f) => last.op = "start"
    BY <1>1, <1>4, <1>6 DEF OnItsWay, LookingUp, Clearing, Begun
  <2>. QED
    BY <1>3, <1>6, <2>1, AutoLookupKeeps
<1>7. CASE f.op = "lookup" /\ console' = p /\ Console!GoesOn(i, "lookup", f.emp, "ask", TRUE)
  <2>1. PICK g \in Requests : NextRequest(i, g, "lookup", f.emp, "ask", TRUE)
    BY <1>1, <1>3, <1>7, FlowGoesOn
  <2>2. ASSUME OnItsWay(f)
        PROVE  /\ last.op = "signin" => SigningIn(g)'
               /\ last.op = "lookup" => LookingUp(g)'
               /\ last.op = "clear" => Clearing(g)'
    <3>1. last.op # "clear"
      BY <1>7, <2>2 DEF OnItsWay, Clearing
    <3>2. last.op = "lookup" =>
            last.able /\ Console!LiveToken(f.answer.token) /\ f.emp = last.emp
      BY <1>2, <2>2 DEF OnItsWay, LookingUp
    <3>. QED
      BY <1>3, <1>4, <1>7, <2>1, <2>2, <3>1, <3>2 DEF LookingUp, NextRequest, Console!LiveToken
  <2>. QED
    BY <1>3, <1>7, <2>1, <2>2, FlowTurns
<1>8. CASE /\ f.op = "clear" /\ console' = p
           /\ Console!GoesOn(i, "clear", NoRecord, "logout", f.again)
  <2>1. PICK g \in Requests : NextRequest(i, g, "clear", NoRecord, "logout", f.again)
    BY <1>1, <1>3, <1>8, FlowGoesOn
  <2>2. ASSUME OnItsWay(f)
        PROVE  /\ last.op = "signin" => SigningIn(g)'
               /\ last.op = "lookup" => LookingUp(g)'
               /\ last.op = "clear" => Clearing(g)'
    <3>1. last.op # "lookup"
      BY <1>8, <2>2 DEF OnItsWay, LookingUp
    <3>2. last.op = "clear" =>
            Console!LiveToken(f.answer.token) /\ f.answer.token \in auth.stored
      BY <1>2, <2>2 DEF OnItsWay, Clearing
    <3>. QED
      BY <1>3, <1>4, <1>8, <2>1, <2>2, <3>1, <3>2 DEF Clearing, NextRequest, Console!LiveToken
  <2>. QED
    BY <1>3, <1>8, <2>1, <2>2, FlowTurns
<1>. QED
  BY <1>5, <1>6, <1>7, <1>8

LEMMA NotRestoredReceived ==
  ASSUME ConsoleAssumption, ConsoleInv, NEW i \in Slots, flows[i] # Console!Idle,
         cookie' = Console!Jar(i), UNCHANGED <<auth, last, alone>>, Console!NotRestored(i)
  PROVE  ConsoleInv'
<1>. DEFINE f == flows[i]
<1>1. /\ f \in Requests /\ Answerable(f) /\ console \in Consoles /\ last \in Begun
      /\ console.signedIn = (console.token # 0) /\ auth \in Auths /\ cookie \in Nat
  BY UnderWay
<1>2. f.at \in {"probe", "refresh"} /\ f.answer.is \in {"refused", "error", "thrown"}
  BY DEF Console!NotRestored, Console!Is, Console!Failed
<1>3. /\ Console!NoSession(console) \in Consoles /\ Console!NoSession(console).token = 0
      /\ Console!NoSession(console).signedIn = FALSE
  BY <1>1, SessionsShown, 0 \in Nat
<1>4. PICK q \in Consoles : /\ q = Console!ResetRecordView(Console!NoSession(console))
                            /\ q.token = 0 /\ q.signedIn = FALSE /\ q.shown = NoRecord
  <2>1. PICK p \in Consoles :
          p = Console!NoSession(console) /\ p.token = 0 /\ p.signedIn = FALSE
    BY <1>3
  <2>2. PICK q \in Consoles : q = Console!ResetRecordView(p) /\ q.token = p.token
                              /\ q.signedIn = p.signedIn /\ q.shown = NoRecord
    <3>1. /\ Console!ResetRecordView(p) \in Consoles
          /\ Console!ResetRecordView(p).token = p.token
          /\ Console!ResetRecordView(p).signedIn = p.signedIn
          /\ Console!ResetRecordView(p).shown = NoRecord
      BY DEF Consoles, People, Console!ResetRecordView
    <3>. QED
      BY ONLY <3>1
  <2>. QED
    BY <2>1, <2>2
<1>5. Console!Ends(i)
  BY DEF Console!NotRestored, Console!Cleared
<1>6. /\ f.op = "start" => console' \in {console, Console!NoSession(console)}
      /\ f.op \in {"lookup", "clear"} => console' = q
      /\ f.op \in {"start", "lookup", "clear"}
  BY <1>4 DEF Console!NotRestored, Console!Cleared
<1>7. console' \in Consoles /\ (console'.signedIn) = (console'.token # 0)
  BY <1>1, <1>3, <1>4, <1>6
<1>8. ASSUME OnItsWay(f)
      PROVE  Settled'
  <2>1. last.op # "signin"
    BY <1>2, <1>8 DEF OnItsWay, SigningIn
  <2>2. last.op = "lookup" => ~ last.able /\ f.op = "lookup"
    BY <1>1, <1>2, <1>8 DEF OnItsWay, LookingUp, Begun
  <2>3. last.op = "clear" => f.op = "clear" /\ cookie' = 0
    BY <1>1, <1>2, <1>8, JarIsCookie DEF OnItsWay, Clearing
  <2>. QED
    BY <1>1, <1>4, <1>6, <2>1, <2>2, <2>3 DEF Settled, Auths, Begun
<1>. QED
  BY <1>5, <1>7, <1>8, FlowEnds

LEMMA SigninReceived ==
  ASSUME ConsoleAssumption, ConsoleInv, NEW i \in Slots, flows[i] # Console!Idle,
         cookie' = Console!Jar(i), UNCHANGED <<auth, last, alone>>, Console!SigninAnswered(i)
  PROVE  ConsoleInv'
<1>. DEFINE f == flows[i]
            p == Console!Session(console, f.answer.token)
<1>1. /\ f \in Requests /\ Answerable(f) /\ console \in Consoles /\ last \in Begun
      /\ console.signedIn = (console.token # 0) /\ f.answer.token \in Nat
  BY UnderWay DEF Requests, ConsoleAnswers
<1>2. f.op = "signin" /\ f.at = "signin"
  BY DEF Console!SigninAnswered, Console!Is
<1>3. OnItsWay(f) => last.op \in {"start", "signin"}
  BY <1>1, <1>2 DEF OnItsWay, LookingUp, Clearing, Begun
<1>4. CASE f.answer.is = "ok" /\ Console!AutoLookup(i, p)
  <2>1. p \in Consoles /\ p.token = f.answer.token /\ p.token # 0 /\ p.signedIn = TRUE
    BY <1>1, <1>2, <1>4, SessionsShown DEF Answerable
  <2>2. OnItsWay(f) /\ last.op = "signin" => Console!LiveToken(f.answer.token)
    BY <1>2, <1>4 DEF OnItsWay, SigningIn
  <2>. HIDE DEF p
  <2>3. OnItsWay(f) => last.op = "start" \/ (last.op = "signin" /\ Console!LiveToken(p.token))
    BY <1>3, <2>1, <2>2
  <2>. QED
    BY <1>4, <2>1, <2>3, AutoLookupKeeps
<1>5. CASE f.answer.is \in {"refused", "error", "thrown"} /\ UNCHANGED console /\ Console!Ends(i)
  <2>1. OnItsWay(f) => last.op # "signin"
    BY <1>2, <1>5 DEF OnItsWay, SigningIn
  <2>2. OnItsWay(f) => Settled'
    BY <1>3, <2>1 DEF Settled
  <2>3. console' \in Consoles /\ (console'.signedIn) = (console'.token # 0)
    BY <1>1, <1>5
  <2>. QED
    BY <1>5, <2>2, <2>3, FlowEnds
<1>. QED
  BY <1>4, <1>5 DEF Console!SigninAnswered, Console!Is, Console!Failed

LEMMA ElsewhereKeeps ==
  ASSUME ConsoleAssumption, ConsoleInv, Console!Elsewhere
  PROVE  ConsoleInv'
<1>1. /\ UNCHANGED <<console, flows, last>> /\ alone' = (alone /\ Console!Quiet)
      /\ auth \in Auths /\ alone \in BOOLEAN /\ cookie \in Nat
  BY DEF Console!Elsewhere, Console!Event, ConsoleInv, ConsoleTypes
<1>2. /\ auth' \in Auths /\ cookie' \in Nat
      /\ cookie \notin auth.stored => cookie' \notin auth'.stored
  <2>1. ASSUME Console!DashboardRefreshes
        PROVE  auth' \in Auths /\ cookie' \in Nat /\ cookie \in auth.stored
    <3>1. /\ Console!Issue({cookie}) /\ cookie \in auth.stored /\ cookie' = auth.issued + 1
          /\ auth.issued \in Nat
      BY <1>1, <2>1 DEF Console!DashboardRefreshes, Auths
    <3>. QED
      BY <1>1, <3>1, Issued
  <2>2. ASSUME Console!DashboardSignsOut
        PROVE  auth' \in Auths /\ cookie' \in Nat /\ cookie \in auth.stored
    BY <1>1, <2>2, FewerStored DEF Console!DashboardSignsOut
  <2>3. ASSUME Console!SessionDropped
        PROVE  auth' \in Auths /\ UNCHANGED cookie /\ auth'.stored \subseteq auth.stored
    BY <1>1, <2>3, FewerStored DEF Console!SessionDropped
  <2>4. ASSUME Console!TokensExpire
        PROVE  auth' \in Auths /\ UNCHANGED cookie /\ auth'.stored = auth.stored
    <3>1. /\ auth \in [stored : SUBSET Nat, issued : Nat, expired : Nat] /\ 0 \notin auth.stored
          /\ auth' = [auth EXCEPT !.expired = auth.issued]
      BY <1>1, <2>4 DEF Console!TokensExpire, Auths
    <3>2. /\ auth' \in [stored : SUBSET Nat, issued : Nat, expired : Nat]
          /\ auth'.stored = auth.stored /\ auth'.issued = auth.issued
          /\ auth'.expired = auth.issued
      BY <3>1
    <3>. QED
      BY <2>4, <3>1, <3>2 DEF Console!TokensExpire, Auths
  <2>. QED
    BY <1>1, <2>1, <2>2, <2>3, <2>4 DEF Console!Elsewhere
<1>3. ConsoleTypes'
  BY <1>1, <1>2 DEF ConsoleInv, ConsoleTypes, Answerable
<1>4. ASSUME alone'
      PROVE  Settled' /\ \A i \in Slots : flows'[i] = Console!Idle
  BY <1>1, <1>2, <1>4 DEF ConsoleInv, Settled, Console!Quiet
<1>. QED
  BY <1>3, <1>4 DEF ConsoleInv

LEMMA InitConsole ==
  ASSUME ConsoleAssumption, Console!Init
  PROVE  ConsoleInv
<1>1. PICK e \in People :
        /\ console = [token |-> 0, signedIn |-> FALSE, field |-> e, shown |-> NoRecord, linked |-> e]
        /\ flows = [i \in Slots |-> IF i = 1 THEN Console!Sends("start", e, "probe", FALSE, 0, cookie)
                                    ELSE Console!Idle]
  BY DEF Console!Init, People
<1>2. PICK live \in SUBSET {1} : auth = [stored |-> live, issued |-> 1, expired |-> 0]
  BY DEF Console!Init
<1>3. /\ cookie \in Nat /\ alone = TRUE
      /\ last = [op |-> "start", emp |-> NoRecord, able |-> FALSE]
  BY DEF Console!Init
<1>4. auth \in Auths
  <2>1. live \in SUBSET Nat /\ 0 \notin live
    OBVIOUS
  <2>. QED
    BY <1>2, <2>1 DEF Auths
<1>5. console \in Consoles /\ console.signedIn = (console.token # 0)
  BY <1>1 DEF Consoles, People
<1>6. last \in Begun /\ last.op = "start"
  BY <1>3 DEF Begun, People
<1>7. 0 \in Nat /\ FALSE \in BOOLEAN
  OBVIOUS
<1>8. PICK g \in Requests : IsSent(g, "start", e, "probe", FALSE, 0, cookie)
  BY <1>3, <1>7, Sent
<1>9. flows = [i \in Slots |-> IF i = 1 THEN g ELSE Console!Idle]
      /\ Answerable(g) /\ g.token = 0 /\ g.jar = cookie
  BY <1>1, <1>8 DEF IsSent
<1>10. ConsoleTypes
  <2>1. flows \in [Slots -> {Console!Idle} \cup Requests]
    BY <1>9
  <2>2. \A i \in Slots : flows[i] # Console!Idle => Answerable(flows[i])
    BY <1>9
  <2>. QED
    BY <1>3, <1>4, <1>5, <1>6, <2>1, <2>2 DEF ConsoleTypes
<1>11. OnItsWay(g)
  BY <1>1, <1>6, <1>9 DEF OnItsWay
<1>12. Settled
  BY <1>6 DEF Settled
<1>. QED
  BY <1>9, <1>10, <1>11, <1>12 DEF ConsoleInv

LEMMA NextConsole ==
  ASSUME ConsoleAssumption, ConsoleInv, [Console!Next]_consoleVars
  PROVE  ConsoleInv'
<1>1. CASE UNCHANGED consoleVars
  BY <1>1 DEF consoleVars, ConsoleInv, ConsoleTypes, Answerable, OnItsWay, SigningIn, LookingUp,
              Clearing, Settled, Console!LiveToken, Console!Quiet
<1>2. ASSUME NEW i \in Slots, NEW e \in Staff, Console!Lookup(i, e)
      PROVE  ConsoleInv'
  <2>1. /\ Console!Begins(i, "lookup", e, "ask") /\ console.token # 0
        /\ console' = [console EXCEPT !.field = e] /\ e \in People
    BY <1>2 DEF Console!Lookup, People
  <2>2. console \in Consoles
    BY DEF ConsoleInv, ConsoleTypes
  <2>3. /\ console' \in Consoles /\ console'.token = console.token
        /\ console'.signedIn = console.signedIn
    BY <2>1, <2>2 DEF Consoles
  <2>. QED
    BY <2>1, <2>3, BeginsAlone
<1>3. ASSUME NEW i \in Slots, Console!SignIn(i) \/ Console!ClearSession(i)
      PROVE  ConsoleInv'
  <2>1. /\ console \in Consoles /\ console.signedIn = (console.token # 0)
        /\ UNCHANGED console /\ NoRecord \in People
    BY <1>3 DEF ConsoleInv, ConsoleTypes, Console!SignIn, Console!ClearSession, People
  <2>2. \/ Console!Begins(i, "signin", NoRecord, "signin")
        \/ Console!Begins(i, "clear", NoRecord, "logout")
    BY <1>3, <2>1 DEF Console!SignIn, Console!ClearSession
  <2>. QED
    BY <2>1, <2>2, BeginsAlone
<1>4. ASSUME NEW i \in Slots, Console!Serve(i)
      PROVE  ConsoleInv'
  BY <1>4, LookupServed, ProbeServed, RefreshServed, SigninServed, LogoutServed DEF Console!Serve
<1>5. ASSUME NEW i \in Slots, Console!Fails(i)
      PROVE  ConsoleInv'
  BY <1>5, FailureKeeps
<1>6. ASSUME NEW i \in Slots, Console!Receive(i)
      PROVE  ConsoleInv'
  BY <1>6, LookupReceived, LogoutReceived, ProbeReceived, RestoreReceived, NotRestoredReceived,
     SigninReceived DEF Console!Receive
<1>7. CASE Console!Elsewhere
  BY <1>7, ElsewhereKeeps
<1>. QED
  BY <1>1, <1>2, <1>3, <1>4, <1>5, <1>6, <1>7 DEF Console!Next

LEMMA ConsoleSettles == ConsoleInv => Console!SettlesAsAsked
BY DEF ConsoleInv, ConsoleTypes, Settled, Console!SettlesAsAsked

(***************************************************************************)
(* SettlesAsAsked of the payroll console, the part of PagesFollowChoice    *)
(* that is about it: for any employees and any number of issues, what was  *)
(* begun while nothing else was under way has come about when it ends.     *)
(***************************************************************************)
THEOREM ConsoleDoesAsAsked ==
  ConsoleAssumption /\ PageSpec => [](part = "console" => Console!SettlesAsAsked)
<1>. SUFFICES ASSUME ConsoleAssumption
              PROVE  PageSpec => [](part = "console" => Console!SettlesAsAsked)
  OBVIOUS
<1>. DEFINE I == part = "console" => ConsoleInv
<1>1. PageInit => I
  BY InitConsole DEF PageInit, Begins
<1>2. I /\ [PageNext]_pageVars => I'
  BY OnePartRuns, OnePartRuns, NextConsole
<1>3. I => (part = "console" => Console!SettlesAsAsked)
  BY ConsoleSettles
<1>. QED
  BY <1>1, <1>2, <1>3, PTL DEF PageSpec

-----------------------------------------------------------------------------

(***************************************************************************)
(* The page of the alerts.  The load of employees asked for last is of     *)
(* what is chosen; while a note or a load of the list is alone under way   *)
(* it is known what it will bring; and the words in the field are those    *)
(* of the open alert.                                                      *)
(***************************************************************************)
Selections == Alerts \cup {NoAlert}
RowRequests ==
  [alert : Selections, page : Pages \cup {1}, size : Sizes \cup {1, Detail!Fresh.size},
   search : Searches \cup {NoSearch}]
Panels ==
  [sel : Selections, note : Nat, draft : Selections, typed : Searches \cup {NoSearch},
   search : Searches \cup {NoSearch}, waiting : BOOLEAN, page : Pages \cup {1},
   size : Sizes \cup {1, Detail!Fresh.size}, busy : BOOLEAN, rows : RowRequests,
   loading : BOOLEAN, failed : BOOLEAN]

ListsOfNotes == {<<>>} \cup [Alerts -> Nat]
AlertFeeds == [notes : ListsOfNotes, loading : BOOLEAN, error : BOOLEAN]
Caches == [notes : ListsOfNotes, old : BOOLEAN]
Reloads == [at : {"asked", "read", "done"}, notes : ListsOfNotes, old : BOOLEAN]
OwnerNotes ==
  [alert : Alerts, words : Selections, number : Nat, here : BOOLEAN,
   at : {"sent", "done", "failed"}]

DetailTypes ==
  /\ panel \in Panels /\ fetches \in Seq(RowRequests) /\ rowsOvertaken \in BOOLEAN
  /\ notes \in Seq(OwnerNotes) /\ reloads \in Seq(Reloads) /\ crossed \in BOOLEAN
  /\ alertFeed \in AlertFeeds /\ alertCache \in Caches /\ stored \in [Alerts -> Nat] /\ sent \in Nat

\* Of the panel p with the loads fs: the last of them is of what is chosen.
Awaits(p, fs, over) ==
  (p.sel # NoAlert /\ ~ over) =>
    /\ fs # <<>> => fs[Len(fs)] = Detail!Wanted(p)
    /\ fs = <<>> /\ ~ p.failed => p.rows = Detail!Wanted(p)

\* Of the list f and the panel p: they show the notes them.
ShowNotes(f, p, them) == f.notes = them /\ (p.sel # NoAlert => p.note = them[p.sel])

\* With one note under way at most, and no load of the list.
NotesFollow ==
  (reloads = <<>> /\ Detail!Mounted(alertFeed)) =>
    IF notes # <<>> /\ notes[1].at = "done"
    THEN stored = [alertFeed.notes EXCEPT ![notes[1].alert] = notes[1].number]
    ELSE ShowNotes(alertFeed, panel, stored)

ListsAreCurrent ==
  /\ alertCache.notes # <<>> /\ ~ alertCache.old => alertCache.notes = stored
  /\ \A i \in 1..Len(reloads) :
       ~ reloads[i].old /\ (reloads[i].at = "read" \/ (reloads[i].at = "done" /\ ~ crossed)) =>
         reloads[i].notes = stored

DetailInv ==
  /\ DetailTypes
  /\ panel.draft = panel.sel
  /\ \A i \in 1..Len(notes) : notes[i].words = notes[i].alert
  /\ Awaits(panel, fetches, rowsOvertaken)
  /\ ListsAreCurrent
  /\ ~ crossed => Len(notes) + Len(reloads) <= 1 /\ NotesFollow

\* A sequence without its element at i.
LEMMA Removal ==
  ASSUME NEW S, NEW s \in Seq(S), NEW i \in 1..Len(s)
  PROVE  /\ Detail!RemoveAt(s, i) \in Seq(S)
         /\ Len(Detail!RemoveAt(s, i)) = Len(s) - 1
         /\ \A j \in 1..(Len(s) - 1) :
              Detail!RemoveAt(s, i)[j] = IF j < i THEN s[j] ELSE s[j + 1]
<1>. DEFINE front == SubSeq(s, 1, i - 1)
            back == SubSeq(s, i + 1, Len(s))
<1>1. /\ front \in Seq(S) /\ Len(front) = i - 1
      /\ \A j \in 1..(i - 1) : front[j] = s[j]
  OBVIOUS
<1>2. /\ back \in Seq(S) /\ Len(back) = Len(s) - i
      /\ \A j \in 1..(Len(s) - i) : back[j] = s[i + j]
  OBVIOUS
<1>3. Detail!RemoveAt(s, i) = front \o back
  BY DEF Detail!RemoveAt
<1>. HIDE DEF front, back
<1>4. /\ front \o back \in Seq(S) /\ Len(front \o back) = Len(s) - 1
      /\ \A j \in 1..(Len(s) - 1) :
           (front \o back)[j] = IF j < i THEN front[j] ELSE back[j - (i - 1)]
  <2>1. front \o back \in Seq(S) /\ Len(front \o back) = Len(front) + Len(back)
    BY <1>1, <1>2
  <2>2. Len(front) + Len(back) = Len(s) - 1
    BY <1>1, <1>2
  <2>3. ASSUME NEW j \in 1..(Len(s) - 1)
        PROVE  (front \o back)[j] = IF j < i THEN front[j] ELSE back[j - (i - 1)]
    <3>1. (front \o back)[j] = IF j <= Len(front) THEN front[j] ELSE back[j - Len(front)]
      BY <1>1, <1>2, <2>2
    <3>2. j <= Len(front) <=> j < i
      BY <1>1
    <3>. QED
      BY <1>1, <3>1, <3>2
  <2>. QED
    BY <2>1, <2>2, <2>3
<1>5. \A j \in 1..(Len(s) - 1) : j >= i =>
        j - (i - 1) \in 1..(Len(s) - i) /\ back[j - (i - 1)] = s[j + 1]
  <2>. TAKE j \in 1..(Len(s) - 1)
  <2>. HAVE j >= i
  <2>1. j - (i - 1) \in 1..(Len(s) - i) /\ i + (j - (i - 1)) = j + 1
    OBVIOUS
  <2>. QED
    BY <1>2, <2>1
<1>. QED
  BY <1>1, <1>3, <1>4, <1>5

\* The panel becomes the one that p stands for.
Rendered(p) ==
  /\ panel' \in Panels /\ panel'.sel = p.sel /\ panel'.note = p.note
  /\ panel'.draft = panel'.sel
  /\ fetches' \in Seq(RowRequests) /\ rowsOvertaken' \in BOOLEAN
  /\ Awaits(panel', fetches', rowsOvertaken')

LEMMA PanelRenders ==
  ASSUME DetailInv, NEW p \in Panels, NEW renewed \in BOOLEAN, p.draft = panel.draft,
         p.sel # NoAlert /\ ~ renewed => p.rows = panel.rows /\ p.failed = panel.failed,
         Detail!Renders(p, renewed, fetches)
  PROVE  Rendered(p)
<1>. DEFINE asks == p.sel # NoAlert /\ (renewed \/ Detail!Wanted(p) # Detail!Wanted(panel))
<1>1. /\ panel \in Panels /\ fetches \in Seq(RowRequests) /\ rowsOvertaken \in BOOLEAN
      /\ panel.draft = panel.sel /\ Awaits(panel, fetches, rowsOvertaken)
  BY DEF DetailInv, DetailTypes
<1>2. /\ panel' = [p EXCEPT !.draft = Detail!WordsOf(p), !.loading = @ \/ asks,
                           !.failed = @ /\ ~ asks]
      /\ fetches' = IF asks THEN Append(fetches, Detail!Wanted(p)) ELSE fetches
      /\ rowsOvertaken' = (rowsOvertaken /\ ~ asks)
  BY DEF Detail!Renders
<1>3. Detail!WordsOf(p) = p.sel
  BY <1>1 DEF Detail!WordsOf
<1>4. Detail!Wanted(p) \in RowRequests
  BY DEF Detail!Wanted, RowRequests, Panels
<1>5. asks \in BOOLEAN
  OBVIOUS
<1>6. PICK q \in Panels : /\ q = panel' /\ q.sel = p.sel /\ q.note = p.note /\ q.draft = p.sel
                          /\ q.rows = p.rows /\ q.failed = (p.failed /\ ~ asks)
                          /\ q.page = p.page /\ q.size = p.size /\ q.search = p.search
  <2>. HIDE DEF asks
  <2>1. /\ panel' \in Panels /\ panel'.sel = p.sel /\ panel'.note = p.note /\ panel'.draft = p.sel
        /\ panel'.rows = p.rows /\ panel'.failed = (p.failed /\ ~ asks)
        /\ panel'.page = p.page /\ panel'.size = p.size /\ panel'.search = p.search
    BY <1>2, <1>3, <1>5 DEF Panels
  <2>. QED
    BY ONLY <2>1
<1>7. Detail!Wanted(q) = Detail!Wanted(p)
  BY <1>6 DEF Detail!Wanted
<1>8. CASE asks
  <2>1. /\ fetches' = Append(fetches, Detail!Wanted(p)) /\ rowsOvertaken' = FALSE
    BY <1>2, <1>8
  <2>2. /\ fetches' \in Seq(RowRequests) /\ fetches' # <<>>
        /\ fetches'[Len(fetches')] = Detail!Wanted(p)
    BY <1>1, <1>4, <2>1
  <2>. QED
    BY <1>6, <1>7, <2>1, <2>2 DEF Rendered, Awaits
<1>9. CASE ~ asks
  <2>1. fetches' = fetches /\ rowsOvertaken' = rowsOvertaken /\ q.failed = p.failed
    <3>. HIDE DEF asks
    <3>1. p.failed \in BOOLEAN
      BY DEF Panels
    <3>. QED
      BY <1>1, <1>2, <1>6, <1>9, <3>1
  <2>2. p.sel # NoAlert => ~ renewed /\ Detail!Wanted(p) = Detail!Wanted(panel)
    BY <1>9
  <2>3. p.sel # NoAlert => p.sel = panel.sel
    BY <2>2 DEF Detail!Wanted
  <2>4. Awaits(q, fetches, rowsOvertaken)
    BY <1>1, <1>6, <1>7, <2>1, <2>2, <2>3 DEF Awaits
  <2>. QED
    BY <1>1, <1>6, <2>1, <2>4 DEF Rendered
<1>. QED
  BY <1>8, <1>9

\* The panel as it is made shows nothing.
LEMMA FreshPanel ==
  /\ Detail!Fresh \in Panels /\ Detail!Fresh.sel = NoAlert /\ Detail!Fresh.draft = NoAlert
<1>1. Detail!Nothing \in RowRequests
  BY DEF Detail!Nothing, RowRequests, Selections
<1>. DEFINE least == CHOOSE s \in Sizes : \A z \in Sizes : s =< z
<1>2. Detail!Fresh.size = least
  BY DEF Detail!Fresh
<1>. HIDE DEF least
<1>3. Detail!Fresh =
        [sel |-> NoAlert, note |-> 0, draft |-> NoAlert, typed |-> NoSearch,
         search |-> NoSearch, waiting |-> TRUE, page |-> 1, size |-> least,
         busy |-> FALSE, rows |-> Detail!Nothing, loading |-> FALSE, failed |-> FALSE]
  BY DEF Detail!Fresh, least
<1>. QED
  BY <1>1, <1>2, <1>3 DEF Panels, Selections

LEMMA PanelRemoved ==
  ASSUME Detail!Removed
  PROVE  Rendered(Detail!Fresh) /\ panel'.sel = NoAlert
<1>1. panel' = Detail!Fresh /\ fetches' = <<>> /\ rowsOvertaken' = FALSE
  BY DEF Detail!Removed
<1>2. fetches' \in Seq(RowRequests)
  BY <1>1
<1>. QED
  BY <1>1, <1>2, FreshPanel DEF Rendered, Awaits

\* What the panel shows of a note does not change, or is the list's.
LEMMA PanelTurns ==
  ASSUME DetailInv, NEW p \in Panels, Rendered(p),
         p.sel # NoAlert => \/ p.sel = panel.sel /\ p.note = panel.note
                            \/ Detail!Mounted(alertFeed) /\ p.note = alertFeed.notes[p.sel],
         UNCHANGED <<stored, alertCache, alertFeed, notes, reloads, sent, crossed>>
  PROVE  DetailInv'
<1>1. DetailTypes'
  BY DEF DetailInv, DetailTypes, Rendered
<1>2. Awaits(panel, fetches, rowsOvertaken)' /\ panel'.draft = panel'.sel
  BY DEF Rendered
<1>3. ListsAreCurrent'
  BY DEF DetailInv, ListsAreCurrent
<1>4. NotesFollow => NotesFollow'
  BY DEF NotesFollow, ShowNotes, Rendered, Detail!Mounted
<1>. QED
  BY <1>1, <1>2, <1>3, <1>4 DEF DetailInv

LEMMA PanelTypes ==
  ASSUME DetailInv
  PROVE  /\ panel \in Panels /\ panel.draft = panel.sel
         /\ fetches \in Seq(RowRequests) /\ rowsOvertaken \in BOOLEAN
         /\ Awaits(panel, fetches, rowsOvertaken)
BY DEF DetailInv, DetailTypes

LEMMA OpenKeeps ==
  ASSUME DetailInv, NEW a \in Alerts, Detail!Open(a)
  PROVE  DetailInv'
<1>. DEFINE p == [panel EXCEPT !.sel = a, !.note = alertFeed.notes[a], !.typed = NoSearch,
                    !.search = NoSearch, !.waiting = @ \/ panel.typed # NoSearch, !.page = 1,
                    !.rows = Detail!Nothing, !.failed = FALSE]
<1>1. /\ Detail!Renders(p, TRUE, fetches) /\ Detail!Mounted(alertFeed)
      /\ UNCHANGED <<stored, alertCache, alertFeed, notes, reloads, sent, crossed>>
  BY DEF Detail!Open
<1>2. alertFeed.notes \in [Alerts -> Nat]
  BY <1>1 DEF DetailInv, DetailTypes, AlertFeeds, ListsOfNotes, Detail!Mounted
<1>3. Detail!Nothing \in RowRequests
  BY DEF Detail!Nothing, RowRequests, Selections
<1>4. p \in Panels /\ p.draft = panel.draft /\ p.sel = a /\ p.note = alertFeed.notes[a]
  BY <1>2, <1>3, PanelTypes DEF Panels, Selections
<1>. HIDE DEF p
<1>. QED
  BY <1>1, <1>4, PanelRenders, PanelTurns

LEMMA CloseKeeps ==
  ASSUME DetailInv, Detail!Close
  PROVE  DetailInv'
<1>. DEFINE p == [panel EXCEPT !.sel = NoAlert, !.typed = NoSearch, !.search = NoSearch,
                    !.waiting = @ \/ panel.typed # NoSearch, !.page = 1,
                    !.rows = Detail!Nothing, !.failed = FALSE]
<1>1. /\ Detail!Renders(p, FALSE, fetches)
      /\ UNCHANGED <<stored, alertCache, alertFeed, notes, reloads, sent, crossed>>
  BY DEF Detail!Close
<1>2. Detail!Nothing \in RowRequests
  BY DEF Detail!Nothing, RowRequests, Selections
<1>3. p \in Panels /\ p.draft = panel.draft /\ p.sel = NoAlert
  BY <1>2, PanelTypes DEF Panels, Selections
<1>. HIDE DEF p
<1>. QED
  BY <1>1, <1>3, PanelRenders, PanelTurns

\* The search, the pages and the sizes leave the alert and its rows.
LEMMA ChoiceKeeps ==
  ASSUME DetailInv, NEW p \in Panels, Detail!Renders(p, FALSE, fetches),
         p.sel = panel.sel, p.note = panel.note, p.draft = panel.draft, p.rows = panel.rows,
         p.failed = panel.failed,
         UNCHANGED <<stored, alertCache, alertFeed, notes, reloads, sent, crossed>>
  PROVE  DetailInv'
BY PanelRenders, PanelTurns

LEMMA ChoicesKeep ==
  ASSUME DetailInv,
         \/ Detail!Debounced
         \/ \E s \in Searches : Detail!TypeSearch(s)
         \/ \E n \in Pages : Detail!TurnPage(n)
         \/ \E n \in Sizes : Detail!ChangeSize(n)
  PROVE  DetailInv'
<1>1. CASE Detail!Debounced
  <2>. DEFINE p == [panel EXCEPT !.search = panel.typed, !.page = 1, !.waiting = FALSE]
  <2>1. /\ Detail!Renders(p, FALSE, fetches)
        /\ UNCHANGED <<stored, alertCache, alertFeed, notes, reloads, sent, crossed>>
    BY <1>1 DEF Detail!Debounced
  <2>2. /\ p \in Panels /\ p.sel = panel.sel /\ p.note = panel.note /\ p.draft = panel.draft
        /\ p.rows = panel.rows /\ p.failed = panel.failed
    BY PanelTypes DEF Panels
  <2>. HIDE DEF p
  <2>. QED
    BY <2>1, <2>2, ChoiceKeeps
<1>2. ASSUME NEW s \in Searches, Detail!TypeSearch(s)
      PROVE  DetailInv'
  <2>. DEFINE p == [panel EXCEPT !.typed = s, !.waiting = TRUE]
  <2>1. /\ Detail!Renders(p, FALSE, fetches)
        /\ UNCHANGED <<stored, alertCache, alertFeed, notes, reloads, sent, crossed>>
    BY <1>2 DEF Detail!TypeSearch
  <2>2. /\ p \in Panels /\ p.sel = panel.sel /\ p.note = panel.note /\ p.draft = panel.draft
        /\ p.rows = panel.rows /\ p.failed = panel.failed
    BY PanelTypes DEF Panels
  <2>. HIDE DEF p
  <2>. QED
    BY <2>1, <2>2, ChoiceKeeps
<1>3. ASSUME NEW n \in Pages, Detail!TurnPage(n)
      PROVE  DetailInv'
  <2>. DEFINE p == [panel EXCEPT !.page = n]
  <2>1. /\ Detail!Renders(p, FALSE, fetches)
        /\ UNCHANGED <<stored, alertCache, alertFeed, notes, reloads, sent, crossed>>
    BY <1>3 DEF Detail!TurnPage
  <2>2. /\ p \in Panels /\ p.sel = panel.sel /\ p.note = panel.note /\ p.draft = panel.draft
        /\ p.rows = panel.rows /\ p.failed = panel.failed
    BY PanelTypes DEF Panels
  <2>. HIDE DEF p
  <2>. QED
    BY <2>1, <2>2, ChoiceKeeps
<1>4. ASSUME NEW n \in Sizes, Detail!ChangeSize(n)
      PROVE  DetailInv'
  <2>. DEFINE p == [panel EXCEPT !.size = n, !.page = 1]
  <2>1. /\ Detail!Renders(p, FALSE, fetches)
        /\ UNCHANGED <<stored, alertCache, alertFeed, notes, reloads, sent, crossed>>
    BY <1>4 DEF Detail!ChangeSize
  <2>2. /\ p \in Panels /\ p.sel = panel.sel /\ p.note = panel.note /\ p.draft = panel.draft
        /\ p.rows = panel.rows /\ p.failed = panel.failed
    BY PanelTypes DEF Panels
  <2>. HIDE DEF p
  <2>. QED
    BY <2>1, <2>2, ChoiceKeeps
<1>. QED
  BY <1>1, <1>2, <1>3, <1>4

\* What is left to be answered, when the i-th is not the last of several, is
\* still of what is chosen.
LEMMA RowsCome ==
  ASSUME DetailInv, NEW i \in 1..Len(fetches),
         fetches' = Detail!RemoveAt(fetches, i),
         rowsOvertaken' = (rowsOvertaken \/ (i = Len(fetches) /\ i > 1)),
         NEW rows_, rows_ = fetches[i],
         \/ panel' = [panel EXCEPT !.rows = rows_, !.loading = FALSE]
         \/ panel' = [panel EXCEPT !.failed = TRUE, !.loading = FALSE],
         UNCHANGED <<stored, alertCache, alertFeed, notes, reloads, sent, crossed>>
  PROVE  DetailInv'
<1>1. /\ panel \in Panels /\ fetches \in Seq(RowRequests) /\ rowsOvertaken \in BOOLEAN
      /\ panel.draft = panel.sel /\ Awaits(panel, fetches, rowsOvertaken)
  BY PanelTypes
<1>2. /\ fetches' \in Seq(RowRequests) /\ Len(fetches') = Len(fetches) - 1
      /\ \A j \in 1..(Len(fetches) - 1) :
           fetches'[j] = IF j < i THEN fetches[j] ELSE fetches[j + 1]
  BY <1>1, Removal
<1>3. rows_ \in RowRequests
  BY <1>1
<1>4. PICK q \in Panels : /\ q = panel' /\ q.sel = panel.sel /\ q.note = panel.note
                          /\ q.draft = panel.draft /\ Detail!Wanted(q) = Detail!Wanted(panel)
                          /\ q.failed \/ q.rows = rows_
  <2>1. /\ panel' \in Panels /\ panel'.sel = panel.sel /\ panel'.note = panel.note
        /\ panel'.draft = panel.draft /\ panel'.page = panel.page /\ panel'.size = panel.size
        /\ panel'.search = panel.search /\ (panel'.failed \/ panel'.rows = rows_)
    BY <1>1, <1>3 DEF Panels
  <2>2. PICK q \in Panels :
          /\ q = panel' /\ q.sel = panel.sel /\ q.note = panel.note
          /\ q.draft = panel.draft /\ q.page = panel.page /\ q.size = panel.size
          /\ q.search = panel.search /\ (q.failed \/ q.rows = rows_)
    BY ONLY <2>1
  <2>. QED
    BY <2>2 DEF Detail!Wanted
<1>5. Awaits(q, fetches', rowsOvertaken')
  <2>. SUFFICES ASSUME q.sel # NoAlert, ~ rowsOvertaken'
                PROVE  /\ fetches' # <<>> => fetches'[Len(fetches')] = Detail!Wanted(q)
                       /\ fetches' = <<>> /\ ~ q.failed => q.rows = Detail!Wanted(q)
    BY DEF Awaits
  <2>1. fetches[Len(fetches)] = Detail!Wanted(panel) /\ ~ (i = Len(fetches) /\ i > 1)
    <3>1. fetches # <<>>
      BY <1>1
    <3>2. ~ rowsOvertaken /\ ~ (i = Len(fetches) /\ i > 1)
      OBVIOUS
    <3>. QED
      BY <1>1, <1>4, <3>1, <3>2 DEF Awaits
  <2>2. fetches' # <<>> => fetches'[Len(fetches')] = Detail!Wanted(q)
    BY <1>1, <1>2, <1>4, <2>1
  <2>3. fetches' = <<>> => i = Len(fetches)
    <3>. HAVE fetches' = <<>>
    <3>1. Len(fetches') = 0
      OBVIOUS
    <3>2. Len(fetches) \in Nat /\ Len(fetches) = 1
      <4>1. Len(fetches) \in Nat /\ Len(fetches') = Len(fetches) - 1
        BY <1>1, <1>2
      <4>. QED
        BY ONLY <3>1, <4>1
    <3>. QED
      BY <3>2
  <2>. QED
    BY <1>4, <2>1, <2>2, <2>3
<1>6. Rendered(panel)
  BY <1>1, <1>2, <1>4, <1>5 DEF Rendered
<1>. QED
  BY <1>1, <1>6, PanelTurns

LEMMA NoteTypes ==
  ASSUME DetailInv
  PROVE  /\ notes \in Seq(OwnerNotes) /\ reloads \in Seq(Reloads) /\ crossed \in BOOLEAN
         /\ alertFeed \in AlertFeeds /\ alertCache \in Caches /\ stored \in [Alerts -> Nat]
         /\ sent \in Nat /\ Len(notes) \in Nat /\ Len(reloads) \in Nat
BY DEF DetailInv, DetailTypes

\* With another note or a load under way it is known that they cross.
LEMMA AcknowledgeKeeps ==
  ASSUME DetailInv, Detail!Acknowledge
  PROVE  DetailInv'
<1>1. /\ panel \in Panels /\ panel.draft = panel.sel /\ panel.sel # NoAlert
      /\ fetches \in Seq(RowRequests) /\ rowsOvertaken \in BOOLEAN
      /\ Awaits(panel, fetches, rowsOvertaken)
  BY PanelTypes DEF Detail!Acknowledge
<1>2. /\ sent' = sent + 1 /\ panel' = [panel EXCEPT !.busy = TRUE]
      /\ crossed' = (crossed \/ notes # <<>> \/ reloads # <<>>)
      /\ UNCHANGED <<stored, alertCache, alertFeed, fetches, reloads, rowsOvertaken>>
  BY DEF Detail!Acknowledge
<1>. DEFINE n == [alert |-> panel.sel, words |-> panel.draft, number |-> sent + 1,
                  here |-> TRUE, at |-> "sent"]
<1>3. notes' = Append(notes, n)
  BY DEF Detail!Acknowledge
<1>4. panel.sel \in Alerts
  BY <1>1 DEF Panels, Selections
<1>5. n \in OwnerNotes /\ n.words = n.alert /\ n.at = "sent"
  BY <1>1, <1>4, NoteTypes DEF OwnerNotes, Selections
<1>. HIDE DEF n
<1>6. PICK q \in Panels : /\ q = panel' /\ q.sel = panel.sel /\ q.note = panel.note
                          /\ q.draft = panel.draft /\ q.failed = panel.failed
                          /\ q.rows = panel.rows /\ Detail!Wanted(q) = Detail!Wanted(panel)
  <2>1. /\ panel' \in Panels /\ panel'.sel = panel.sel /\ panel'.note = panel.note
        /\ panel'.draft = panel.draft /\ panel'.failed = panel.failed
        /\ panel'.rows = panel.rows /\ panel'.page = panel.page /\ panel'.size = panel.size
        /\ panel'.search = panel.search
    BY <1>1, <1>2 DEF Panels
  <2>2. Detail!Wanted(panel') = Detail!Wanted(panel)
    BY <2>1 DEF Detail!Wanted
  <2>. QED
    BY ONLY <2>1, <2>2
<1>7. /\ notes' \in Seq(OwnerNotes) /\ Len(notes') = Len(notes) + 1
      /\ \A i \in 1..Len(notes') : notes'[i] = IF i <= Len(notes) THEN notes[i] ELSE n
  BY <1>3, <1>5, NoteTypes
<1>8. DetailTypes'
  BY <1>1, <1>2, <1>6, <1>7, NoteTypes DEF DetailTypes
<1>9. \A i \in 1..Len(notes') : notes'[i].words = notes'[i].alert
  BY <1>5, <1>7, NoteTypes DEF DetailInv
<1>10. Awaits(panel, fetches, rowsOvertaken)'
  BY <1>1, <1>2, <1>6 DEF Awaits
<1>11. ListsAreCurrent'
  BY <1>2 DEF DetailInv, ListsAreCurrent
<1>12. ~ crossed' => Len(notes') + Len(reloads') <= 1 /\ NotesFollow'
  <2>. SUFFICES ASSUME ~ crossed'
                PROVE  Len(notes') + Len(reloads') <= 1 /\ NotesFollow'
    OBVIOUS
  <2>1. ~ crossed /\ notes = <<>> /\ reloads = <<>>
    BY <1>2
  <2>2. NotesFollow
    BY <2>1 DEF DetailInv
  <2>3. Len(notes') = 1 /\ Len(reloads') = 0 /\ notes'[1] = n
    BY <1>2, <1>7, <2>1, NoteTypes
  <2>4. Detail!Mounted(alertFeed) => ShowNotes(alertFeed, panel, stored)
    BY <2>1, <2>2 DEF NotesFollow
  <2>5. Detail!Mounted(alertFeed)' => ShowNotes(alertFeed, panel, stored)'
    BY <1>2, <1>6, <2>4 DEF ShowNotes, Detail!Mounted
  <2>6. NotesFollow'
    BY <1>5, <2>3, <2>5 DEF NotesFollow
  <2>. QED
    BY <2>3, <2>6
<1>. QED
  BY <1>1, <1>2, <1>6, <1>8, <1>9, <1>10, <1>11, <1>12 DEF DetailInv

\* The rest of the state, in whatever step leaves the panel alone.
LEMMA PanelStays ==
  ASSUME DetailInv, UNCHANGED <<panel, fetches, rowsOvertaken>>
  PROVE  /\ panel' \in Panels /\ panel'.draft = panel'.sel
         /\ fetches' \in Seq(RowRequests) /\ rowsOvertaken' \in BOOLEAN
         /\ Awaits(panel, fetches, rowsOvertaken)'
BY DEF DetailInv, DetailTypes, Awaits, Detail!Wanted

\* The note is served: what was read of the list before is older than it.
LEMMA ServeNoteKeeps ==
  ASSUME DetailInv, NEW i \in DOMAIN notes, Detail!ServeNote(i)
  PROVE  DetailInv'
<1>1. /\ notes \in Seq(OwnerNotes) /\ i \in 1..Len(notes) /\ notes[i] \in OwnerNotes /\ notes[i].at = "sent"
      /\ reloads \in Seq(Reloads) /\ stored \in [Alerts -> Nat] /\ Len(notes) \in Nat
      /\ Len(reloads) \in Nat
  BY NoteTypes DEF Detail!ServeNote
<1>2. UNCHANGED <<alertFeed, panel, fetches, alertActs, sent, crossed, rowsOvertaken>>
  BY DEF Detail!ServeNote
<1>3. PICK at \in {"done", "failed"} :
        /\ notes' = [notes EXCEPT ![i].at = at]
        /\ at = "done" => /\ stored' = [stored EXCEPT ![notes[i].alert] = notes[i].number]
                          /\ Detail!ClearCache
        /\ at = "failed" => UNCHANGED <<stored, alertCache, reloads>>
  BY DEF Detail!ServeNote
<1>4. [notes[i] EXCEPT !.at = at] \in OwnerNotes
  BY <1>1, <1>3 DEF OwnerNotes
<1>5. PICK n \in OwnerNotes : n = [notes[i] EXCEPT !.at = at]
  BY <1>4
<1>6. n.at = at /\ n.alert = notes[i].alert /\ n.words = notes[i].words /\ n.number = notes[i].number
  BY <1>1, <1>5 DEF OwnerNotes
<1>7. notes' = [notes EXCEPT ![i] = n]
  BY <1>1, <1>3, <1>5
<1>8. /\ notes' \in Seq(OwnerNotes) /\ Len(notes') = Len(notes)
      /\ \A j \in 1..Len(notes) : notes'[j] = IF j = i THEN n ELSE notes[j]
  BY <1>1, <1>7
<1>9. /\ reloads' \in Seq(Reloads) /\ Len(reloads') = Len(reloads)
      /\ \A j \in 1..Len(reloads) :
           /\ reloads'[j].at = reloads[j].at /\ reloads'[j].notes = reloads[j].notes
           /\ at = "done" => reloads'[j].old = (reloads[j].old \/ reloads[j].at = "read")
  <2>1. CASE at = "failed"
    BY <1>1, <1>3, <2>1
  <2>2. CASE at = "done"
    <3>1. reloads' = [j \in DOMAIN reloads |->
                        [reloads[j] EXCEPT !.old = @ \/ reloads[j].at = "read"]]
      BY <1>3, <2>2 DEF Detail!ClearCache
    <3>2. DOMAIN reloads = 1..Len(reloads)
      BY <1>1
    <3>3. ASSUME NEW j \in 1..Len(reloads)
          PROVE  /\ reloads'[j] \in Reloads /\ reloads'[j].at = reloads[j].at
                 /\ reloads'[j].notes = reloads[j].notes
                 /\ reloads'[j].old = (reloads[j].old \/ reloads[j].at = "read")
      <4>1. reloads[j] \in Reloads
        BY <1>1, <3>3
      <4>2. reloads'[j] = [reloads[j] EXCEPT !.old = @ \/ reloads[j].at = "read"]
        BY <3>1, <3>2, <3>3
      <4>. QED
        BY ONLY <4>1, <4>2 DEF Reloads
    <3>4. reloads' \in [1..Len(reloads) -> Reloads]
      BY <3>1, <3>2, <3>3
    <3>5. reloads' \in Seq(Reloads) /\ Len(reloads') = Len(reloads)
      BY <1>1, <3>4
    <3>. QED
      BY <3>3, <3>5
  <2>. QED
    BY <1>3, <2>1, <2>2
<1>10. stored' \in [Alerts -> Nat] /\ alertCache' \in Caches
  <2>1. Detail!NoList \in Caches
    BY DEF Detail!NoList, Caches, ListsOfNotes
  <2>. QED
    BY <1>1, <1>3, <2>1, NoteTypes DEF OwnerNotes, Detail!ClearCache
<1>11. DetailTypes'
  BY <1>2, <1>8, <1>9, <1>10, PanelStays, NoteTypes DEF DetailTypes
<1>12. \A j \in 1..Len(notes') : notes'[j].words = notes'[j].alert
  BY <1>1, <1>6, <1>8 DEF DetailInv
<1>13. ~ crossed => Len(notes) = 1 /\ i = 1 /\ Len(reloads) = 0
  <2>1. ~ crossed => Len(notes) + Len(reloads) <= 1
    BY DEF DetailInv
  <2>2. Len(notes) \in Nat /\ Len(reloads) \in Nat /\ 1 <= i /\ i <= Len(notes) /\ i \in Int
    BY <1>1
  <2>3. ASSUME ~ crossed
        PROVE  Len(notes) = 1 /\ i = 1 /\ Len(reloads) = 0
    <3>1. Len(notes) <= 1 /\ Len(reloads) = 0
      BY <2>1, <2>2, <2>3
    <3>2. i = 1
      BY <2>2, <3>1
    <3>3. 1 <= Len(notes)
      BY <2>2
    <3>4. \A k \in Nat : 1 <= k /\ k <= 1 => k = 1
      OBVIOUS
    <3>. QED
      BY ONLY <2>2, <3>1, <3>2, <3>3, <3>4
  <2>. QED
    BY <2>3
<1>14. ListsAreCurrent'
  <2>1. CASE at = "failed"
    <3>1. reloads' = reloads /\ alertCache' = alertCache /\ stored' = stored /\ crossed' = crossed
      BY <1>2, <1>3, <2>1
    <3>. QED
      BY <3>1 DEF DetailInv, ListsAreCurrent
  <2>2. CASE at = "done"
    <3>1. alertCache'.notes = <<>>
      BY <1>3, <2>2 DEF Detail!ClearCache, Detail!NoList
    <3>2. ASSUME NEW j \in 1..Len(reloads'), ~ reloads'[j].old,
                 reloads'[j].at = "read" \/ (reloads'[j].at = "done" /\ ~ crossed')
          PROVE  FALSE
      <4>1. reloads[j].at = "read" \/ (reloads[j].at = "done" /\ Len(reloads) = 0)
        BY <1>2, <1>9, <1>13, <3>2
      <4>2. Len(reloads) # 0 /\ reloads[j].at = "read"
        BY <1>1, <1>9, <3>2, <4>1
      <4>3. reloads'[j].old = (reloads[j].old \/ reloads[j].at = "read")
        BY <1>9, <2>2, <3>2
      <4>. QED
        BY <3>2, <4>2, <4>3
    <3>. QED
      BY <3>1, <3>2 DEF ListsAreCurrent
  <2>. QED
    BY <1>3, <2>1, <2>2
<1>15. ASSUME ~ crossed
       PROVE  NotesFollow'
  <2>1. /\ Len(notes) = 1 /\ i = 1 /\ reloads = <<>> /\ NotesFollow
        /\ notes' # <<>> /\ notes'[1] = n
    BY <1>1, <1>8, <1>13, <1>15 DEF DetailInv
  <2>2. Detail!Mounted(alertFeed) => ShowNotes(alertFeed, panel, stored)
    BY <1>1, <2>1 DEF NotesFollow
  <2>3. CASE at = "failed"
    BY <1>2, <1>3, <1>6, <2>1, <2>2, <2>3 DEF NotesFollow, ShowNotes, Detail!Mounted
  <2>4. CASE at = "done"
    <3>1. Detail!Mounted(alertFeed)' => Detail!Mounted(alertFeed) /\ alertFeed'.notes = stored
      BY <1>2, <2>2 DEF ShowNotes, Detail!Mounted
    <3>2. stored' = [stored EXCEPT ![n.alert] = n.number] /\ n.at = "done"
      BY <1>3, <1>6, <2>4
    <3>. QED
      BY <2>1, <3>1, <3>2 DEF NotesFollow
  <2>. QED
    BY <1>3, <2>3, <2>4
<1>. QED
  BY <1>1, <1>2, <1>8, <1>9, <1>11, <1>12, <1>14, <1>15, PanelStays, NoteTypes DEF DetailInv

\* The note is answered: the list and the open alert take it over.
LEMMA NoteAnsweredKeeps ==
  ASSUME DetailInv, NEW i \in DOMAIN notes, Detail!NoteAnswered(i)
  PROVE  DetailInv'
<1>. DEFINE n == notes[i]
            f == IF alertFeed.notes = <<>> THEN alertFeed
                 ELSE [alertFeed EXCEPT !.notes[n.alert] = n.number]
            idle == IF n.here THEN [panel EXCEPT !.busy = FALSE] ELSE panel
            told == IF n.here /\ panel.sel # NoAlert THEN [idle EXCEPT !.note = n.number] ELSE idle
<1>1. /\ n.at # "sent" /\ notes' = Detail!RemoveAt(notes, i)
      /\ UNCHANGED <<stored, alertCache, reloads, sent, crossed>>
      /\ n.at = "done" =>
           /\ alertFeed' = f
           /\ IF Detail!Mounted(f) THEN Detail!Renders(Detail!Synced(told, f), TRUE, fetches)
              ELSE UNCHANGED <<panel, fetches, rowsOvertaken>>
      /\ n.at # "done" => panel' = idle /\ UNCHANGED <<alertFeed, fetches, rowsOvertaken>>
  BY DEF Detail!NoteAnswered
<1>2. /\ notes \in Seq(OwnerNotes) /\ i \in 1..Len(notes) /\ n \in OwnerNotes /\ Len(notes) \in Nat
      /\ reloads \in Seq(Reloads) /\ alertFeed \in AlertFeeds /\ Len(reloads) \in Nat
      /\ panel \in Panels /\ panel.draft = panel.sel /\ Awaits(panel, fetches, rowsOvertaken)
      /\ fetches \in Seq(RowRequests) /\ rowsOvertaken \in BOOLEAN
  BY NoteTypes, PanelTypes
<1>3. /\ notes' \in Seq(OwnerNotes) /\ Len(notes') = Len(notes) - 1
      /\ \A j \in 1..(Len(notes) - 1) : notes'[j] = IF j < i THEN notes[j] ELSE notes[j + 1]
  BY <1>1, <1>2, Removal
<1>4. /\ f \in AlertFeeds
      /\ Detail!Mounted(f) => Detail!Mounted(alertFeed)
      /\ Detail!Mounted(alertFeed) => f.notes = [alertFeed.notes EXCEPT ![n.alert] = n.number]
  <2>1. CASE alertFeed.notes = <<>>
    BY <1>2, <2>1 DEF Detail!Mounted
  <2>2. CASE alertFeed.notes # <<>>
    <3>1. alertFeed.notes \in [Alerts -> Nat] /\ n.alert \in Alerts /\ n.number \in Nat
      BY <1>2, <2>2 DEF AlertFeeds, ListsOfNotes, OwnerNotes
    <3>2. PICK them \in [Alerts -> Nat] : them = [alertFeed.notes EXCEPT ![n.alert] = n.number]
      BY <3>1
    <3>3. f = [alertFeed EXCEPT !.notes = them]
      BY <2>2, <3>2
    <3>. HIDE DEF f
    <3>4. /\ f \in AlertFeeds /\ f.notes = them /\ f.loading = alertFeed.loading
          /\ f.error = alertFeed.error
      BY <1>2, <3>3 DEF AlertFeeds, ListsOfNotes
    <3>. QED
      BY <2>2, <3>2, <3>4 DEF Detail!Mounted
  <2>. QED
    BY <2>1, <2>2
<1>5. idle \in Panels /\ idle.sel = panel.sel /\ idle.note = panel.note /\ idle.draft = panel.draft
      /\ idle.rows = panel.rows /\ idle.failed = panel.failed /\ idle.page = panel.page
      /\ idle.size = panel.size /\ idle.search = panel.search
  BY <1>2 DEF Panels
<1>. HIDE DEF f, idle
<1>6. told \in Panels /\ told.sel = panel.sel /\ told.draft = panel.draft
  BY <1>2, <1>5 DEF Panels, OwnerNotes
<1>. HIDE DEF told
<1>7. \A j \in 1..Len(notes') : notes'[j].words = notes'[j].alert
  BY <1>2, <1>3 DEF DetailInv
<1>8. ListsAreCurrent'
  BY <1>1 DEF DetailInv, ListsAreCurrent
<1>9. ~ crossed => Len(notes) = 1 /\ i = 1 /\ notes' = <<>> /\ Len(reloads) = 0 /\ reloads = <<>>
                   /\ NotesFollow
  BY <1>2, <1>3 DEF DetailInv
<1>. HIDE DEF n
<1>10. CASE n.at # "done"
  <2>1. panel' = idle /\ UNCHANGED <<alertFeed, fetches, rowsOvertaken>>
    BY <1>1, <1>10
  <2>2. Detail!Wanted(idle) = Detail!Wanted(panel)
    BY <1>5 DEF Detail!Wanted
  <2>3. Awaits(panel, fetches, rowsOvertaken)'
    BY <1>2, <1>5, <2>1, <2>2 DEF Awaits
  <2>4. DetailTypes'
    BY <1>1, <1>2, <1>3, <1>5, <2>1, NoteTypes DEF DetailTypes
  <2>5. ASSUME ~ crossed
        PROVE  NotesFollow'
    <3>1. Detail!Mounted(alertFeed) => ShowNotes(alertFeed, panel, stored)
      BY <1>9, <1>10, <2>5 DEF NotesFollow, n
    <3>. QED
      BY <1>1, <1>5, <1>9, <2>1, <2>5, <3>1 DEF NotesFollow, ShowNotes, Detail!Mounted
  <2>. QED
    BY <1>1, <1>2, <1>3, <1>5, <1>7, <1>8, <1>9, <2>1, <2>3, <2>4, <2>5 DEF DetailInv
<1>11. CASE n.at = "done" /\ ~ Detail!Mounted(f)
  <2>1. alertFeed' = f /\ UNCHANGED <<panel, fetches, rowsOvertaken>>
    BY <1>1, <1>11
  <2>2. DetailTypes'
    BY <1>1, <1>3, <1>4, <2>1, PanelStays, NoteTypes DEF DetailTypes
  <2>3. ~ Detail!Mounted(alertFeed)'
    BY <1>11, <2>1 DEF Detail!Mounted
  <2>4. NotesFollow'
    BY <2>3 DEF NotesFollow, Detail!Mounted
  <2>. QED
    BY <1>1, <1>2, <1>3, <1>7, <1>8, <1>9, <2>1, <2>2, <2>4, PanelStays DEF DetailInv
<1>12. CASE n.at = "done" /\ Detail!Mounted(f)
  <2>. DEFINE p == Detail!Synced(told, f)
  <2>1. f.notes \in [Alerts -> Nat]
    BY <1>4, <1>12 DEF Detail!Mounted, AlertFeeds, ListsOfNotes
  <2>2. /\ p \in Panels /\ p.sel = panel.sel /\ p.draft = panel.draft
        /\ p.sel # NoAlert => p.note = f.notes[p.sel]
    BY <1>6, <2>1 DEF Detail!Synced, Panels, Selections
  <2>3. Detail!Renders(p, TRUE, fetches) /\ alertFeed' = f
    BY <1>1, <1>12
  <2>. HIDE DEF p
  <2>4. Rendered(p)
    BY <2>2, <2>3, PanelRenders
  <2>5. DetailTypes'
    BY <1>1, <1>3, <1>4, <2>3, <2>4, NoteTypes DEF DetailTypes, Rendered
  <2>6. ASSUME ~ crossed
        PROVE  NotesFollow'
    <3>1. stored = f.notes
      BY <1>4, <1>9, <1>12, <2>6 DEF NotesFollow, n
    <3>2. ShowNotes(alertFeed, panel, stored)'
      BY <1>1, <2>2, <2>3, <2>4, <3>1 DEF ShowNotes, Rendered
    <3>. QED
      BY <1>9, <2>6, <3>2 DEF NotesFollow
  <2>. QED
    BY <1>1, <1>2, <1>3, <1>7, <1>8, <1>9, <2>4, <2>5, <2>6 DEF DetailInv, Rendered
<1>. QED
  BY <1>10, <1>11, <1>12

\* The list is asked for: the panel is gone, and the notes under way with it.
LEMMA ListAskedKeeps ==
  ASSUME DetailInv, Detail!Reload
  PROVE  DetailInv'
<1>1. /\ reloads' = Append(reloads, Detail!Asked)
      /\ alertFeed' = [alertFeed EXCEPT !.loading = TRUE, !.error = FALSE]
      /\ Detail!Removed
      /\ notes' = [i \in DOMAIN notes |-> [notes[i] EXCEPT !.here = FALSE]]
      /\ crossed' = (notes # <<>> \/ reloads # <<>>)
      /\ UNCHANGED <<stored, alertCache, sent>>
  BY DEF Detail!Reload
<1>2. Detail!Asked \in Reloads /\ Detail!Asked.at = "asked"
  BY DEF Detail!Asked, Reloads, ListsOfNotes
<1>3. /\ reloads' \in Seq(Reloads) /\ Len(reloads') = Len(reloads) + 1
      /\ \A i \in 1..Len(reloads') :
           reloads'[i] = IF i <= Len(reloads) THEN reloads[i] ELSE Detail!Asked
  BY <1>1, <1>2, NoteTypes
<1>4. /\ notes' \in Seq(OwnerNotes) /\ Len(notes') = Len(notes)
      /\ \A i \in 1..Len(notes') : notes'[i].words = notes'[i].alert
  <2>1. DOMAIN notes = 1..Len(notes)
    BY NoteTypes
  <2>2. ASSUME NEW i \in 1..Len(notes)
        PROVE  notes'[i] \in OwnerNotes /\ notes'[i].words = notes'[i].alert
    <3>1. notes[i] \in OwnerNotes /\ notes[i].words = notes[i].alert
      BY <2>2, NoteTypes DEF DetailInv
    <3>2. notes'[i] = [notes[i] EXCEPT !.here = FALSE]
      BY <1>1, <2>1, <2>2
    <3>. QED
      BY ONLY <3>1, <3>2 DEF OwnerNotes
  <2>3. notes' \in [1..Len(notes) -> OwnerNotes]
    BY <1>1, <2>1, <2>2
  <2>4. notes' \in Seq(OwnerNotes) /\ Len(notes') = Len(notes)
    BY <2>3, NoteTypes
  <2>. QED
    BY <2>2, <2>4
<1>5. alertFeed' \in AlertFeeds
  BY <1>1, NoteTypes DEF AlertFeeds
<1>6. Rendered(Detail!Fresh)
  BY <1>1, PanelRemoved
<1>7. DetailTypes'
  BY <1>1, <1>3, <1>4, <1>5, <1>6, NoteTypes DEF DetailTypes, Rendered
<1>8. reloads' # <<>>
  BY <1>3, NoteTypes
<1>9. ASSUME NEW i \in 1..Len(reloads'), ~ reloads'[i].old,
             reloads'[i].at = "read" \/ (reloads'[i].at = "done" /\ ~ crossed')
      PROVE  reloads'[i].notes = stored
  <2>1. i \in 1..Len(reloads) /\ reloads'[i] = reloads[i]
    BY <1>2, <1>3, <1>9, NoteTypes
  <2>2. reloads[i].at = "done" => crossed'
    <3>1. reloads # <<>>
      BY <2>1, NoteTypes
    <3>. QED
      BY <1>1, <3>1
  <2>3. reloads[i].at = "read" /\ ~ reloads[i].old
    BY <1>9, <2>1, <2>2
  <2>. QED
    BY <2>1, <2>3 DEF DetailInv, ListsAreCurrent
<1>10. ListsAreCurrent'
  BY <1>1, <1>9 DEF DetailInv, ListsAreCurrent
<1>11. ~ crossed' => Len(notes') + Len(reloads') <= 1
  <2>1. ~ crossed' => Len(notes) = 0 /\ Len(reloads) = 0
    BY <1>1
  <2>. QED
    BY <1>3, <1>4, <2>1
<1>. QED
  BY <1>4, <1>6, <1>7, <1>8, <1>10, <1>11 DEF DetailInv, NotesFollow, Rendered

\* One load of the list goes on: read from the notes stored, or kept.
LEMMA LoadGoesOn ==
  ASSUME DetailInv, NEW i \in 1..Len(reloads), NEW r \in Reloads,
         reloads' = [reloads EXCEPT ![i] = r], alertCache' \in Caches,
         alertCache'.notes # <<>> /\ ~ alertCache'.old => alertCache'.notes = stored,
         ~ r.old => r.notes = stored,
         UNCHANGED <<panel, fetches, rowsOvertaken, stored, alertFeed, notes, sent, crossed>>
  PROVE  DetailInv'
<1>1. /\ reloads' \in Seq(Reloads) /\ Len(reloads') = Len(reloads)
      /\ \A j \in 1..Len(reloads) : reloads'[j] = IF j = i THEN r ELSE reloads[j]
  BY NoteTypes
<1>2. DetailTypes'
  BY <1>1, PanelStays, NoteTypes DEF DetailTypes
<1>3. ListsAreCurrent'
  BY <1>1 DEF DetailInv, ListsAreCurrent
<1>4. reloads' # <<>>
  BY <1>1, NoteTypes
<1>. QED
  BY <1>1, <1>2, <1>3, <1>4, PanelStays DEF DetailInv, NotesFollow

LEMMA ReadAlertsKeeps ==
  ASSUME DetailInv, NEW i \in DOMAIN reloads, Detail!ReadAlerts(i)
  PROVE  DetailInv'
<1>. DEFINE r == IF alertCache.notes = <<>> THEN [at |-> "read", notes |-> stored, old |-> FALSE]
                 ELSE [at |-> "done", notes |-> alertCache.notes, old |-> alertCache.old]
<1>1. reloads' = [reloads EXCEPT ![i] = r]
  BY DEF Detail!ReadAlerts
<1>2. UNCHANGED <<panel, fetches, rowsOvertaken, stored, alertCache, alertFeed, notes, sent, crossed>>
  BY DEF Detail!ReadAlerts
<1>3. alertCache.notes # <<>> /\ ~ alertCache.old => alertCache.notes = stored
  BY DEF DetailInv, ListsAreCurrent
<1>4. r \in Reloads /\ (~ r.old => r.notes = stored)
  BY <1>3, NoteTypes DEF Reloads, Caches, ListsOfNotes
<1>5. i \in 1..Len(reloads) /\ alertCache' \in Caches
  BY <1>2, NoteTypes
<1>. HIDE DEF r
<1>. QED
  BY <1>1, <1>2, <1>3, <1>4, <1>5, LoadGoesOn

LEMMA KeepAlertsKeeps ==
  ASSUME DetailInv, NEW i \in DOMAIN reloads, Detail!KeepAlerts(i)
  PROVE  DetailInv'
<1>1. /\ reloads[i].at = "read"
      /\ alertCache' = [notes |-> reloads[i].notes, old |-> reloads[i].old]
      /\ reloads' = [reloads EXCEPT ![i].at = "done"]
      /\ UNCHANGED <<panel, fetches, rowsOvertaken, stored, alertFeed, notes, sent, crossed>>
  BY DEF Detail!KeepAlerts
<1>2. i \in 1..Len(reloads) /\ reloads[i] \in Reloads /\ reloads \in Seq(Reloads)
  BY NoteTypes
<1>3. ~ reloads[i].old => reloads[i].notes = stored
  BY <1>1, <1>2 DEF DetailInv, ListsAreCurrent
<1>4. PICK r \in Reloads : /\ r = [reloads[i] EXCEPT !.at = "done"]
                           /\ r.old = reloads[i].old /\ r.notes = reloads[i].notes
  <2>1. PICK was \in Reloads : was = reloads[i]
    BY <1>2
  <2>2. /\ [was EXCEPT !.at = "done"] \in Reloads /\ [was EXCEPT !.at = "done"].old = was.old
        /\ [was EXCEPT !.at = "done"].notes = was.notes
    BY DEF Reloads
  <2>. QED
    BY <2>1, <2>2
<1>5. reloads' = [reloads EXCEPT ![i] = r]
  BY <1>1, <1>2, <1>4
<1>6. alertCache' \in Caches /\ alertCache'.notes = reloads[i].notes
      /\ alertCache'.old = reloads[i].old
  BY <1>1, <1>2 DEF Reloads, Caches
<1>. QED
  BY <1>1, <1>2, <1>3, <1>4, <1>5, <1>6, LoadGoesOn

LEMMA CacheAgesKeeps ==
  ASSUME DetailInv, Detail!CacheAges
  PROVE  DetailInv'
<1>1. /\ alertCache' = Detail!NoList
      /\ UNCHANGED <<panel, fetches, rowsOvertaken, stored, alertFeed, notes, reloads, sent, crossed>>
  BY DEF Detail!CacheAges
<1>2. alertCache' \in Caches /\ alertCache'.notes = <<>>
  BY <1>1 DEF Detail!NoList, Caches, ListsOfNotes
<1>3. DetailTypes'
  BY <1>1, <1>2, PanelStays, NoteTypes DEF DetailTypes
<1>4. ListsAreCurrent' /\ (NotesFollow => NotesFollow')
  BY <1>1, <1>2 DEF DetailInv, ListsAreCurrent, NotesFollow, ShowNotes, Detail!Mounted
<1>. QED
  BY <1>1, <1>3, <1>4, PanelStays DEF DetailInv

\* The list becomes f: the panel takes its notes over, or is gone.
LEMMA ListShows ==
  ASSUME DetailInv, NEW f \in AlertFeeds, Detail!ListBecomes(f)
  PROVE  /\ alertFeed' = f
         /\ panel' \in Panels /\ panel'.draft = panel'.sel
         /\ fetches' \in Seq(RowRequests) /\ rowsOvertaken' \in BOOLEAN
         /\ Awaits(panel, fetches, rowsOvertaken)'
         /\ Detail!Mounted(f) /\ panel'.sel # NoAlert => panel'.note = f.notes[panel'.sel]
         /\ notes' \in Seq(OwnerNotes) /\ Len(notes') = Len(notes)
         /\ \A i \in 1..Len(notes') :
              notes'[i].words = notes'[i].alert /\ notes'[i].at = notes[i].at
<1>1. /\ alertFeed' = f
      /\ IF Detail!Mounted(alertFeed) /\ Detail!Mounted(f)
         THEN Detail!Renders(Detail!Synced(panel, f), TRUE, fetches) ELSE Detail!Removed
      /\ notes' = IF Detail!Mounted(f) THEN notes
                  ELSE [i \in DOMAIN notes |-> [notes[i] EXCEPT !.here = FALSE]]
  BY DEF Detail!ListBecomes
<1>2. PICK p \in Panels : Rendered(p) /\ (Detail!Mounted(f) /\ p.sel # NoAlert => p.note = f.notes[p.sel])
  <2>1. CASE Detail!Mounted(alertFeed) /\ Detail!Mounted(f)
    <3>. DEFINE p == Detail!Synced(panel, f)
    <3>1. f.notes \in [Alerts -> Nat]
      BY <2>1 DEF Detail!Mounted, AlertFeeds, ListsOfNotes
    <3>2. /\ p \in Panels /\ p.draft = panel.draft
          /\ p.sel # NoAlert => p.note = f.notes[p.sel]
      BY <3>1, PanelTypes DEF Detail!Synced, Panels, Selections
    <3>3. Detail!Renders(p, TRUE, fetches)
      BY <1>1, <2>1
    <3>. HIDE DEF p
    <3>. QED
      BY <3>2, <3>3, PanelRenders
  <2>2. CASE ~ (Detail!Mounted(alertFeed) /\ Detail!Mounted(f))
    BY <1>1, <2>2, PanelRemoved, FreshPanel
  <2>. QED
    BY <2>1, <2>2
<1>3. /\ notes' \in Seq(OwnerNotes) /\ Len(notes') = Len(notes)
      /\ \A i \in 1..Len(notes') :
           notes'[i].words = notes'[i].alert /\ notes'[i].at = notes[i].at
  <2>1. CASE notes' = notes
    BY <2>1, NoteTypes DEF DetailInv
  <2>2. CASE notes' = [i \in DOMAIN notes |-> [notes[i] EXCEPT !.here = FALSE]]
    <3>1. DOMAIN notes = 1..Len(notes)
      BY NoteTypes
    <3>2. ASSUME NEW i \in 1..Len(notes)
          PROVE  /\ notes'[i] \in OwnerNotes /\ notes'[i].words = notes'[i].alert
                 /\ notes'[i].at = notes[i].at
      <4>1. notes[i] \in OwnerNotes /\ notes[i].words = notes[i].alert
        BY <3>2, NoteTypes DEF DetailInv
      <4>2. notes'[i] = [notes[i] EXCEPT !.here = FALSE]
        BY <2>2, <3>1, <3>2
      <4>. QED
        BY ONLY <4>1, <4>2 DEF OwnerNotes
    <3>3. notes' \in [1..Len(notes) -> OwnerNotes]
      BY <2>2, <3>1, <3>2
    <3>4. notes' \in Seq(OwnerNotes) /\ Len(notes') = Len(notes)
      BY <3>3, NoteTypes
    <3>. QED
      BY <3>2, <3>4
  <2>. QED
    BY <1>1, <2>1, <2>2
<1>. QED
  BY <1>1, <1>2, <1>3 DEF Rendered

\* What is left of the loads of the list.
LEMMA LoadsRemain ==
  ASSUME DetailInv, NEW i \in DOMAIN reloads, reloads' = Detail!RemoveAt(reloads, i),
         crossed => crossed', UNCHANGED <<stored, alertCache>>
  PROVE  /\ reloads' \in Seq(Reloads) /\ Len(reloads') = Len(reloads) - 1
         /\ ListsAreCurrent'
         /\ ~ crossed' => reloads = <<reloads[i]>> /\ reloads' = <<>> /\ notes = <<>>
<1>1. /\ reloads \in Seq(Reloads) /\ i \in 1..Len(reloads) /\ Len(reloads) \in Nat
      /\ Len(notes) \in Nat /\ notes \in Seq(OwnerNotes)
  BY NoteTypes
<1>2. /\ reloads' \in Seq(Reloads) /\ Len(reloads') = Len(reloads) - 1
      /\ \A j \in 1..(Len(reloads) - 1) :
           reloads'[j] = IF j < i THEN reloads[j] ELSE reloads[j + 1]
  BY <1>1, Removal
<1>3. ASSUME NEW j \in 1..Len(reloads'), ~ reloads'[j].old,
             reloads'[j].at = "read" \/ (reloads'[j].at = "done" /\ ~ crossed')
      PROVE  reloads'[j].notes = stored
  <2>1. PICK k \in 1..Len(reloads) : reloads'[j] = reloads[k]
    <3>1. j \in 1..(Len(reloads) - 1)
      BY <1>2, <1>3
    <3>2. j \in 1..Len(reloads) /\ j + 1 \in 1..Len(reloads)
      BY <1>1, <3>1
    <3>. QED
      BY <1>2, <3>1, <3>2
  <2>. QED
    BY <1>3, <2>1 DEF DetailInv, ListsAreCurrent
<1>4. ListsAreCurrent'
  BY <1>3 DEF DetailInv, ListsAreCurrent
<1>5. ASSUME ~ crossed'
      PROVE  reloads = <<reloads[i]>> /\ reloads' = <<>> /\ notes = <<>>
  <2>1. Len(notes) + Len(reloads) <= 1
    BY <1>5 DEF DetailInv
  <2>2. i = 1 /\ Len(notes) = 0 /\ Len(reloads) <= 1 /\ 1 <= Len(reloads)
    BY <1>1, <2>1
  <2>3. \A n \in Nat : 1 <= n /\ n <= 1 => n = 1
    OBVIOUS
  <2>4. Len(reloads) = 1
    BY ONLY <1>1, <2>2, <2>3
  <2>5. Len(reloads') = 0
    BY <1>2, <2>4
  <2>. QED
    BY <1>1, <1>2, <2>2, <2>4, <2>5
<1>. QED
  BY <1>2, <1>4, <1>5

\* The list is answered, or fails.
LEMMA ListEndsKeeps ==
  ASSUME DetailInv, NEW i \in DOMAIN reloads, Detail!AlertsAnswered(i) \/ Detail!AlertsFail(i)
  PROVE  DetailInv'
<1>1. /\ reloads \in Seq(Reloads) /\ i \in 1..Len(reloads) /\ reloads[i] \in Reloads
      /\ alertFeed \in AlertFeeds /\ crossed \in BOOLEAN
  BY NoteTypes
<1>. DEFINE good == [alertFeed EXCEPT !.notes = reloads[i].notes, !.loading = FALSE]
            bad == [notes |-> <<>>, loading |-> FALSE, error |-> TRUE]
<1>2. good \in AlertFeeds /\ good.notes = reloads[i].notes
  BY <1>1 DEF AlertFeeds, Reloads
<1>3. bad \in AlertFeeds /\ ~ Detail!Mounted(bad)
  BY DEF AlertFeeds, ListsOfNotes, Detail!Mounted
<1>4. PICK f \in AlertFeeds :
        /\ Detail!ListBecomes(f) /\ reloads' = Detail!RemoveAt(reloads, i)
        /\ UNCHANGED <<stored, alertCache, sent>> /\ crossed' \in BOOLEAN /\ (crossed => crossed')
        /\ \/ ~ Detail!Mounted(f)
           \/ /\ f.notes = reloads[i].notes /\ reloads[i].at = "done"
              /\ ~ crossed' => ~ reloads[i].old
  <2>1. CASE Detail!AlertsAnswered(i)
    <3>1. /\ reloads[i].at = "done" /\ reloads' = Detail!RemoveAt(reloads, i)
          /\ Detail!ListBecomes(good) /\ crossed' = (crossed \/ reloads[i].old)
          /\ UNCHANGED <<stored, alertCache, sent>>
      BY <2>1 DEF Detail!AlertsAnswered
    <3>2. reloads[i].old \in BOOLEAN
      BY <1>1 DEF Reloads
    <3>. HIDE DEF good
    <3>. QED
      BY <1>1, <1>2, <3>1, <3>2
  <2>2. CASE Detail!AlertsFail(i)
    <3>1. /\ reloads' = Detail!RemoveAt(reloads, i) /\ Detail!ListBecomes(bad)
          /\ UNCHANGED <<stored, alertCache, sent, crossed>>
      BY <2>2 DEF Detail!AlertsFail
    <3>. HIDE DEF bad
    <3>. QED
      BY <1>1, <1>3, <3>1
  <2>. QED
    BY <2>1, <2>2
<1>5. /\ reloads' \in Seq(Reloads) /\ ListsAreCurrent'
      /\ ~ crossed' => reloads' = <<>> /\ notes = <<>>
  BY <1>4, LoadsRemain
<1>6. /\ alertFeed' = f
      /\ panel' \in Panels /\ panel'.draft = panel'.sel
      /\ fetches' \in Seq(RowRequests) /\ rowsOvertaken' \in BOOLEAN
      /\ Awaits(panel, fetches, rowsOvertaken)'
      /\ Detail!Mounted(f) /\ panel'.sel # NoAlert => panel'.note = f.notes[panel'.sel]
      /\ notes' \in Seq(OwnerNotes) /\ Len(notes') = Len(notes)
      /\ \A j \in 1..Len(notes') :
           notes'[j].words = notes'[j].alert /\ notes'[j].at = notes[j].at
  BY <1>4, ListShows
<1>7. DetailTypes'
  BY <1>4, <1>5, <1>6, NoteTypes DEF DetailTypes
<1>8. ASSUME ~ crossed'
      PROVE  Len(notes') + Len(reloads') <= 1 /\ NotesFollow'
  <2>1. notes' = <<>> /\ reloads' = <<>>
    <3>1. notes = <<>> /\ reloads' = <<>>
      BY <1>5, <1>8
    <3>2. Len(notes) = 0
      BY <3>1
    <3>3. notes' \in Seq(OwnerNotes) /\ Len(notes') = 0
      BY <1>6, <3>2
    <3>. QED
      BY <3>1, <3>3
  <2>2. Len(notes') + Len(reloads') <= 1
    BY <2>1
  <2>3. Detail!Mounted(f) => f.notes = stored
    BY <1>1, <1>4, <1>8 DEF DetailInv, ListsAreCurrent
  <2>4. ASSUME Detail!Mounted(f)
        PROVE  ShowNotes(alertFeed, panel, stored)'
    BY <1>4, <1>6, <2>3, <2>4 DEF ShowNotes
  <2>5. Detail!Mounted(alertFeed)' => Detail!Mounted(f)
    BY <1>6 DEF Detail!Mounted
  <2>. QED
    BY <2>1, <2>2, <2>4, <2>5 DEF NotesFollow
<1>. QED
  BY <1>5, <1>6, <1>7, <1>8 DEF DetailInv

LEMMA InitDetail == Detail!Init => DetailInv
<1>. SUFFICES ASSUME Detail!Init
              PROVE  DetailInv
  OBVIOUS
<1>1. /\ stored = [a \in Alerts |-> 0]
      /\ alertFeed = [notes |-> <<>>, loading |-> TRUE, error |-> FALSE]
      /\ panel = Detail!Fresh /\ fetches = <<>> /\ notes = <<>>
      /\ reloads = <<Detail!Asked>> /\ alertCache = Detail!NoList
      /\ sent = 0 /\ crossed = FALSE /\ rowsOvertaken = FALSE
  BY DEF Detail!Init
<1>2. Detail!Asked \in Reloads /\ Detail!Asked.at = "asked"
  BY DEF Detail!Asked, Reloads, ListsOfNotes
<1>3. /\ reloads \in Seq(Reloads) /\ Len(reloads) = 1 /\ reloads[1].at = "asked"
      /\ reloads # <<>>
  BY <1>1, <1>2
<1>4. /\ notes \in Seq(OwnerNotes) /\ Len(notes) = 0 /\ fetches \in Seq(RowRequests)
  BY <1>1
<1>5. /\ alertFeed \in AlertFeeds /\ alertCache \in Caches /\ alertCache.notes = <<>>
      /\ stored \in [Alerts -> Nat] /\ sent \in Nat
  BY <1>1 DEF AlertFeeds, Caches, ListsOfNotes, Detail!NoList
<1>6. DetailTypes
  BY <1>1, <1>3, <1>4, <1>5, FreshPanel DEF DetailTypes
<1>7. ListsAreCurrent
  BY <1>3, <1>5 DEF ListsAreCurrent
<1>8. NotesFollow
  BY <1>3 DEF NotesFollow
<1>9. Awaits(panel, fetches, rowsOvertaken)
  BY <1>1, FreshPanel DEF Awaits
<1>. QED
  BY <1>1, <1>3, <1>4, <1>6, <1>7, <1>8, <1>9, FreshPanel DEF DetailInv

LEMMA NextDetail ==
  ASSUME DetailInv, [Detail!Next]_alertsPageVars
  PROVE  DetailInv'
<1>1. CASE UNCHANGED alertsPageVars
  <2>1. UNCHANGED <<panel, fetches, rowsOvertaken, stored, alertCache, alertFeed, notes, reloads,
                    sent, crossed>>
    BY <1>1 DEF alertsPageVars
  <2>2. DetailTypes' /\ ListsAreCurrent' /\ (NotesFollow => NotesFollow')
    BY <2>1 DEF DetailInv, DetailTypes, ListsAreCurrent, NotesFollow, ShowNotes, Detail!Mounted
  <2>. QED
    BY <2>1, <2>2, PanelStays DEF DetailInv
<1>2. CASE Detail!TypeNote
  BY <1>2 DEF DetailInv, Detail!TypeNote
<1>3. ASSUME NEW i \in DOMAIN fetches, Detail!RowsAnswered(i) \/ Detail!RowsFail(i)
      PROVE  DetailInv'
  <2>1. i \in 1..Len(fetches)
    BY <1>3, PanelTypes
  <2>2. /\ fetches' = Detail!RemoveAt(fetches, i)
        /\ rowsOvertaken' = (rowsOvertaken \/ (i = Len(fetches) /\ i > 1))
        /\ \/ panel' = [panel EXCEPT !.rows = fetches[i], !.loading = FALSE]
           \/ panel' = [panel EXCEPT !.failed = TRUE, !.loading = FALSE]
        /\ UNCHANGED <<stored, alertCache, alertFeed, notes, reloads, sent, crossed>>
    BY <1>3 DEF Detail!RowsAnswered, Detail!RowsFail
  <2>. QED
    BY <2>1, <2>2, RowsCome
<1>4. CASE Detail!Next /\ ~ Detail!TypeNote
            /\ ~ \E i \in DOMAIN fetches : Detail!RowsAnswered(i) \/ Detail!RowsFail(i)
  BY <1>4, OpenKeeps, CloseKeeps, ChoicesKeep, AcknowledgeKeeps, ServeNoteKeeps,
     NoteAnsweredKeeps, ListAskedKeeps, ReadAlertsKeeps, KeepAlertsKeeps, CacheAgesKeeps,
     ListEndsKeeps DEF Detail!Next
<1>. QED
  BY <1>1, <1>2, <1>3, <1>4

LEMMA DetailShows ==
  DetailInv => /\ Detail!NotesShownAreStored /\ Detail!EmployeesAreOfAlert
               /\ Detail!WordsReachTheirAlert
<1>. SUFFICES ASSUME DetailInv
              PROVE  /\ Detail!NotesShownAreStored /\ Detail!EmployeesAreOfAlert
                     /\ Detail!WordsReachTheirAlert
  OBVIOUS
<1>1. Detail!NotesShownAreStored
  BY DEF DetailInv, NotesFollow, ShowNotes, Detail!NotesShownAreStored
<1>2. Detail!EmployeesAreOfAlert
  BY DEF DetailInv, Awaits, Detail!EmployeesAreOfAlert
<1>3. Detail!WordsReachTheirAlert
  BY NoteTypes DEF DetailInv, Detail!WordsReachTheirAlert
<1>. QED
  BY <1>1, <1>2, <1>3

LEMMA DetailInvariant == PageSpec => [](part = "alertsPage" => DetailInv)
<1>1. PageInit => (part = "alertsPage" => DetailInv)
  BY InitDetail DEF PageInit, Begins
<1>2. (part = "alertsPage" => DetailInv) /\ [PageNext]_pageVars => (part = "alertsPage" => DetailInv)'
  BY OnePartRuns, OnePartRuns, NextDetail
<1>. QED
  BY <1>1, <1>2, PTL DEF PageSpec

(***************************************************************************)
(* The page of the alerts, its part of PagesFollowChoice: for any alerts,  *)
(* pages and searches, and any number of requests, the notes shown are     *)
(* those stored and the employees those of the open alert, but for the     *)
(* races its two properties name.                                          *)
(***************************************************************************)
THEOREM AlertsPageFollows ==
  PageSpec => [](part = "alertsPage" => Detail!NotesShownAreStored /\ Detail!EmployeesAreOfAlert)
<1>1. (part = "alertsPage" => DetailInv) =>
        (part = "alertsPage" => Detail!NotesShownAreStored /\ Detail!EmployeesAreOfAlert)
  BY DetailShows
<1>. QED
  BY <1>1, DetailInvariant, PTL

(***************************************************************************)
(* The settings of the alerts.  A load that is alone under way brings the  *)
(* rules as they are when it is answered, unless a save was written after  *)
(* it; and between a save and the load that follows it no other is begun.  *)
(* So the drafts are those of the rules but while a load that will make    *)
(* them so is under way, and their ids even where they were edited.        *)
(***************************************************************************)
SettingsValues == {NoValue, 0, 3, 10, 40, 800}
Rules == [id : Nat \ {0}, type : Kinds, th : SettingsValues, active : BOOLEAN]
RuleDrafts == [id : Nat, th : SettingsValues, active : BOOLEAN]
Modals ==
  [drafts : [Kinds -> RuleDrafts], selected : Kinds, loading : BOOLEAN, refreshing : BOOLEAN,
   saving : BOOLEAN]
RuleLoads ==
  [by : {"mount", "refresh", "save"}, alone : BOOLEAN, read : BOOLEAN, list : Seq(Rules)]
Saves ==
  [at : {"asked", "refused", "done"}, odd : BOOLEAN,
   do : [id : Nat, type : Kinds, th : SettingsValues, active : BOOLEAN]]

SettingsTypes ==
  /\ rules \in Seq(Rules) /\ made \in Nat /\ modal \in Modals /\ loads \in Seq(RuleLoads)
  /\ save \in {Settings!NoSave} \cup Saves /\ settingsOdd \in BOOLEAN

LoadOf(by) == \E n \in 1..Len(loads) : loads[n].by = by

\* Of a draft d of the type t: it is the rule's, or what was edited of it.
OfRule(d, t, changed) ==
  /\ d.id = Settings!DraftOf(rules, t).id
  /\ t \notin changed => d = Settings!DraftOf(rules, t)

\* One load of its kind at most, and what is known of one that is alone.
Single(by) ==
  \A m, n \in 1..Len(loads) : loads[m].by = by /\ loads[n].by = by => m = n
AloneIsCurrent ==
  \A n \in 1..Len(loads) : loads[n].alone =>
    Len(loads) = 1 /\ (loads[n].read /\ save.at # "done" => loads[n].list = rules)
LoadsInOrder ==
  /\ LoadOf("mount") => modal.loading
  /\ LoadOf("save") => modal.saving /\ save = Settings!NoSave
  /\ save # Settings!NoSave => modal.saving
  /\ Single("mount") /\ Single("save") /\ AloneIsCurrent

DraftsFollow ==
  (~ settingsOdd /\ save.at # "done" /\ ~ LoadOf("mount") /\ ~ LoadOf("save")) =>
    \A t \in Kinds : OfRule(modal.drafts[t], t, edited)

MakesMissing ==
  (save.at = "asked" /\ ~ save.odd /\ save.do.id = 0) =>
    Settings!OfType(rules, save.do.type) = {}

SettingsInv == SettingsTypes /\ LoadsInOrder /\ DraftsFollow /\ MakesMissing

\* A set of numbers has a smallest one.
LEMMA Smallest ==
  ASSUME NEW T, T \subseteq Nat, T # {}
  PROVE  \E x \in T : \A y \in T : x <= y
<1>. DEFINE R == {ss \in Nat \X Nat : ss[1] < ss[2]}
<1>1. IsWellFoundedOn(R, Nat)
  BY NatLessThanWellFounded DEF OpToRel
<1>2. \A x, y \in Nat : x < y => <<x, y>> \in R
  OBVIOUS
<1>. HIDE DEF R
<1>3. PICK x \in T : \A y \in T : ~ (<<y, x>> \in R)
  BY <1>1, WFMin
<1>4. ASSUME NEW y \in T PROVE x <= y
  <2>1. x \in Nat /\ y \in Nat
    OBVIOUS
  <2>2. ~ (y < x)
    BY <1>2, <1>3, <2>1
  <2>. QED
    BY <2>1, <2>2
<1>. QED
  BY <1>4

\* The greatest of a set of places is one of them.
LEMMA GreatestIsOne ==
  ASSUME NEW n \in Nat, NEW S \in SUBSET (1..n), S # {}
  PROVE  Settings!Max(S) \in S
<1>. DEFINE back == {k \in 0..n : n - k \in S}
<1>1. PICK s \in S : TRUE
  OBVIOUS
<1>2. n - s \in back
  BY <1>1
<1>3. back \subseteq Nat /\ back # {}
  <2>1. \A k \in back : k \in Nat
    OBVIOUS
  <2>. HIDE DEF back
  <2>. QED
    BY <1>2, <2>1
<1>4. PICK k \in back : \A j \in back : k <= j
  <2>. HIDE DEF back
  <2>. QED
    BY <1>3, Smallest
<1>5. n - k \in S /\ \A y \in S : n - k >= y
  <2>1. k \in 0..n /\ n - k \in S
    BY <1>4
  <2>2. ASSUME NEW y \in S
        PROVE  n - k >= y
    <3>1. y \in 1..n /\ n - y \in back
      BY <2>2
    <3>2. k <= n - y
      BY <1>4, <3>1
    <3>. QED
      BY <2>1, <3>1, <3>2
  <2>. QED
    BY <2>1, <2>2
<1>6. \E x \in S : \A y \in S : x >= y
  BY <1>5
<1>. QED
  BY <1>6 DEF Settings!Max

LEMMA SettingsRemoval ==
  ASSUME NEW S, NEW s \in Seq(S), NEW i \in 1..Len(s)
  PROVE  /\ Settings!RemoveAt(s, i) \in Seq(S)
         /\ Len(Settings!RemoveAt(s, i)) = Len(s) - 1
         /\ \A j \in 1..(Len(s) - 1) :
              Settings!RemoveAt(s, i)[j] = IF j < i THEN s[j] ELSE s[j + 1]
<1>1. Settings!RemoveAt(s, i) = Detail!RemoveAt(s, i)
  BY DEF Settings!RemoveAt, Detail!RemoveAt
<1>. QED
  BY <1>1, Removal

\* What buildDrafts makes of the rules of a type: none of none, the active
\* one of several.
LEMMA DraftOfRules ==
  ASSUME NEW list_ \in Seq(Rules), NEW t \in Kinds
  PROVE  LET d == Settings!DraftOf(list_, t)
             mine == Settings!OfType(list_, t)
         IN /\ d \in RuleDrafts
            /\ mine = {} => d.id = 0
            /\ mine # {} => /\ d.id # 0
                            /\ \E n \in mine : list_[n] = Settings!Rule(d.id, t, d.th, d.active)
                            /\ (\E n \in mine : list_[n].active) => d.active
<1>. DEFINE mine == Settings!OfType(list_, t)
            active == {n \in mine : list_[n].active}
            best == IF active # {} THEN active ELSE mine
            d == Settings!DraftOf(list_, t)
<1>1. /\ DOMAIN list_ = 1..Len(list_) /\ Len(list_) \in Nat
      /\ \A n \in mine : n \in 1..Len(list_) /\ list_[n] \in Rules /\ list_[n].type = t
  BY DEF Settings!OfType
<1>2. CASE mine = {}
  <2>1. d = [id |-> 0, th |-> Settings!DefaultThreshold(t), active |-> TRUE]
    BY <1>2 DEF Settings!DraftOf
  <2>2. Settings!DefaultThreshold(t) \in SettingsValues
    BY DEF Settings!DefaultThreshold, SettingsValues
  <2>. HIDE DEF d
  <2>. QED
    BY <1>2, <2>1, <2>2 DEF RuleDrafts, d
<1>3. CASE mine # {}
  <2>1. best # {} /\ best \in SUBSET (1..Len(list_)) /\ best \subseteq mine
    BY <1>1, <1>3
  <2>2. PICK n \in best : n = Settings!Max(best)
    <3>. HIDE DEF best
    <3>. QED
      BY <1>1, <2>1, GreatestIsOne
  <2>3. PICK r \in Rules : r = list_[n] /\ r.type = t /\ n \in mine
    BY <1>1, <2>1, <2>2
  <2>4. d = [id |-> r.id, th |-> r.th, active |-> r.active]
    BY <1>3, <2>2, <2>3 DEF Settings!DraftOf, Settings!PickPrimary
  <2>5. (\E k \in mine : list_[k].active) => r.active
    BY <2>2, <2>3
  <2>. HIDE DEF d, mine, best, active
  <2>6. d \in RuleDrafts /\ d.id # 0 /\ r = Settings!Rule(d.id, t, d.th, d.active)
        /\ d.active = r.active
    BY <2>3, <2>4 DEF Rules, RuleDrafts, Settings!Rule
  <2>. QED
    BY <1>3, <2>3, <2>5, <2>6 DEF d, mine
<1>. QED
  BY <1>2, <1>3

\* What is written is a rule beside the others.
LEMMA WrittenRules ==
  ASSUME rules \in Seq(Rules), NEW r \in Rules, Settings!Has(r.id)
  PROVE  Settings!Written(r) \in Seq(Rules)
<1>. DEFINE place == CHOOSE n \in DOMAIN rules : rules[n].id = r.id
<1>1. place \in DOMAIN rules
  BY DEF Settings!Has
<1>2. Settings!Written(r) = Append(Settings!RemoveAt(rules, place), r)
  BY DEF Settings!Written
<1>. HIDE DEF place
<1>3. place \in 1..Len(rules)
  BY <1>1
<1>4. Settings!RemoveAt(rules, place) \in Seq(Rules)
  BY <1>3, SettingsRemoval
<1>. QED
  BY <1>2, <1>4

LEMMA SettingsKnown ==
  ASSUME SettingsInv
  PROVE  /\ rules \in Seq(Rules) /\ made \in Nat /\ modal \in Modals /\ loads \in Seq(RuleLoads)
         /\ save \in {Settings!NoSave} \cup Saves /\ settingsOdd \in BOOLEAN
         /\ Len(loads) \in Nat /\ DOMAIN loads = 1..Len(loads)
         /\ save.at \in {"none", "asked", "refused", "done"}
         /\ save.at # "none" => save \in Saves
         /\ save = Settings!NoSave <=> save.at = "none"
BY DEF SettingsInv, SettingsTypes, Saves, Settings!NoSave

\* A step of the user that neither loads nor saves.
LEMMA DraftsTurn ==
  ASSUME SettingsInv, modal' \in Modals,
         modal'.loading = modal.loading, modal'.saving = modal.saving,
         UNCHANGED <<rules, made, loads, save, settingsOdd>>,
         \A t \in Kinds : /\ modal'.drafts[t].id = modal.drafts[t].id
                          /\ t \notin edited' =>
                               t \notin edited /\ modal'.drafts[t] = modal.drafts[t]
  PROVE  SettingsInv'
<1>1. SettingsTypes' /\ LoadsInOrder' /\ MakesMissing'
  BY DEF SettingsInv, SettingsTypes, LoadsInOrder, LoadOf, Single, AloneIsCurrent, MakesMissing
<1>2. DraftsFollow'
  BY DEF SettingsInv, DraftsFollow, LoadOf, OfRule
<1>. QED
  BY <1>1, <1>2 DEF SettingsInv

LEMMA SelectKeeps ==
  ASSUME SettingsInv, NEW t \in Kinds, Settings!Select(t)
  PROVE  SettingsInv'
<1>1. /\ modal' = [modal EXCEPT !.selected = t]
      /\ UNCHANGED <<rules, made, loads, save, edited, settingsOdd>>
  BY DEF Settings!Select, Settings!Same
<1>2. /\ modal' \in Modals /\ modal'.loading = modal.loading /\ modal'.saving = modal.saving
      /\ modal'.drafts = modal.drafts
  BY <1>1, SettingsKnown DEF Modals
<1>. QED
  BY <1>1, <1>2, DraftsTurn

LEMMA ChangesKeep ==
  ASSUME SettingsInv, Settings!Change
  PROVE  SettingsInv'
<1>1. PICK field \in {"th", "active"}, v \in SettingsValues \cup BOOLEAN :
        /\ field = "th" => v \in SettingsValues
        /\ field = "active" => v \in BOOLEAN
        /\ modal' = [modal EXCEPT !.drafts[modal.selected][field] = v]
        /\ edited' = edited \cup {modal.selected}
        /\ UNCHANGED <<rules, made, loads, save, settingsOdd>>
  <2>1. ASSUME NEW field \in {"th", "active"}, NEW v, Settings!Changes(field, v)
        PROVE  /\ modal' = [modal EXCEPT !.drafts[modal.selected][field] = v]
               /\ edited' = edited \cup {modal.selected}
               /\ UNCHANGED <<rules, made, loads, save, settingsOdd>>
    BY <2>1 DEF Settings!Changes, Settings!Same
  <2>2. CASE \E v \in Settings!Inputs : Settings!Changes("th", v)
    <3>1. PICK v \in Settings!Inputs : Settings!Changes("th", v)
      BY <2>2
    <3>2. v \in SettingsValues
      BY DEF Settings!Inputs, SettingsValues
    <3>. QED
      BY <2>1, <3>1, <3>2
  <2>3. CASE \E v \in BOOLEAN : Settings!Changes("active", v)
    BY <2>1, <2>3
  <2>. QED
    BY <2>2, <2>3 DEF Settings!Change
<1>2. modal \in Modals /\ modal.selected \in Kinds /\ modal.drafts \in [Kinds -> RuleDrafts]
  BY SettingsKnown DEF Modals
<1>3. PICK d \in RuleDrafts : d = modal.drafts[modal.selected]
  BY <1>2
<1>4. PICK e \in RuleDrafts : e = [d EXCEPT ![field] = v] /\ e.id = d.id
  BY <1>1, <1>3 DEF RuleDrafts
<1>5. PICK ds \in [Kinds -> RuleDrafts] : ds = [modal.drafts EXCEPT ![modal.selected] = e]
  BY <1>2
<1>6. modal' = [modal EXCEPT !.drafts = ds]
  BY <1>1, <1>2, <1>3, <1>4, <1>5
<1>7. /\ modal' \in Modals /\ modal'.loading = modal.loading /\ modal'.saving = modal.saving
      /\ modal'.drafts = ds
  BY <1>2, <1>6 DEF Modals
<1>8. \A t \in Kinds : /\ modal'.drafts[t].id = modal.drafts[t].id
                       /\ t \notin edited' =>
                            t \notin edited /\ modal'.drafts[t] = modal.drafts[t]
  BY <1>1, <1>2, <1>3, <1>4, <1>5, <1>7
<1>. QED
  BY <1>1, <1>7, <1>8, DraftsTurn

LEMMA DisturbedLoads ==
  ASSUME SettingsInv
  PROVE  /\ Settings!Disturbed(loads) \in Seq(RuleLoads)
         /\ Len(Settings!Disturbed(loads)) = Len(loads)
         /\ \A n \in 1..Len(loads) :
              /\ Settings!Disturbed(loads)[n].by = loads[n].by
              /\ ~ Settings!Disturbed(loads)[n].alone
<1>1. loads \in Seq(RuleLoads) /\ DOMAIN loads = 1..Len(loads) /\ Len(loads) \in Nat
  BY SettingsKnown
<1>2. Settings!Disturbed(loads) = [n \in 1..Len(loads) |-> [loads[n] EXCEPT !.alone = FALSE]]
  BY <1>1 DEF Settings!Disturbed
<1>3. ASSUME NEW n \in 1..Len(loads)
      PROVE  /\ Settings!Disturbed(loads)[n] \in RuleLoads
             /\ Settings!Disturbed(loads)[n].by = loads[n].by
             /\ ~ Settings!Disturbed(loads)[n].alone
  <2>1. loads[n] \in RuleLoads
    BY <1>1
  <2>2. Settings!Disturbed(loads)[n] = [loads[n] EXCEPT !.alone = FALSE]
    BY <1>2
  <2>. QED
    BY ONLY <2>1, <2>2 DEF RuleLoads
<1>4. Settings!Disturbed(loads) \in [1..Len(loads) -> RuleLoads]
  BY <1>2, <1>3
<1>5. Settings!Disturbed(loads) \in Seq(RuleLoads) /\ Len(Settings!Disturbed(loads)) = Len(loads)
  BY <1>1, <1>4
<1>. QED
  BY <1>3, <1>5

\* A load begins, alone if there is none.
LEMMA RulesLoadBegins ==
  ASSUME SettingsInv, NEW by \in {"refresh", "save"}, Settings!Loads(by)
  PROVE  /\ loads' \in Seq(RuleLoads) /\ Len(loads') = Len(loads) + 1
         /\ \A n \in 1..Len(loads') :
              IF n = Len(loads) + 1
              THEN /\ loads'[n].by = by /\ ~ loads'[n].read
                   /\ loads'[n].alone => Len(loads') = 1
              ELSE n \in 1..Len(loads) /\ loads'[n].by = loads[n].by /\ ~ loads'[n].alone
<1>. DEFINE new == Settings!Load(by, loads = <<>>)
            before == Settings!Disturbed(loads)
<1>1. loads' = Append(before, new)
  BY DEF Settings!Loads
<1>2. /\ new \in RuleLoads /\ new.by = by /\ ~ new.read /\ (new.alone <=> loads = <<>>)
  <2>1. <<>> \in Seq(Rules)
    OBVIOUS
  <2>2. PICK first \in BOOLEAN : first <=> loads = <<>>
    OBVIOUS
  <2>3. new = [by |-> by, alone |-> first, read |-> FALSE, list |-> <<>>]
    BY <2>2 DEF Settings!Load
  <2>. HIDE DEF new
  <2>. QED
    BY <2>1, <2>2, <2>3 DEF RuleLoads
<1>3. /\ before \in Seq(RuleLoads) /\ Len(before) = Len(loads)
      /\ \A n \in 1..Len(loads) : before[n].by = loads[n].by /\ ~ before[n].alone
  BY DisturbedLoads
<1>4. loads = <<>> => Len(loads) = 0
  OBVIOUS
<1>5. Len(loads) \in Nat
  BY SettingsKnown
<1>. HIDE DEF new, before
<1>6. /\ loads' \in Seq(RuleLoads) /\ Len(loads') = Len(loads) + 1
      /\ \A n \in 1..Len(loads') : loads'[n] = IF n = Len(loads) + 1 THEN new ELSE before[n]
  BY <1>1, <1>2, <1>3, <1>5
<1>. QED
  BY <1>2, <1>3, <1>4, <1>5, <1>6

LEMMA RefreshKeeps ==
  ASSUME SettingsInv, Settings!Refresh
  PROVE  SettingsInv'
<1>1. /\ Settings!Loads("refresh") /\ modal' = [modal EXCEPT !.refreshing = TRUE]
      /\ UNCHANGED <<rules, made, save, edited, settingsOdd>>
  BY DEF Settings!Refresh, Settings!Same
<1>2. /\ modal' \in Modals /\ modal'.loading = modal.loading /\ modal'.saving = modal.saving
      /\ modal'.drafts = modal.drafts
  BY <1>1, SettingsKnown DEF Modals
<1>3. /\ loads' \in Seq(RuleLoads) /\ Len(loads') = Len(loads) + 1
      /\ \A n \in 1..Len(loads') :
           IF n = Len(loads) + 1
           THEN /\ loads'[n].by = "refresh" /\ ~ loads'[n].read
                /\ loads'[n].alone => Len(loads') = 1
           ELSE n \in 1..Len(loads) /\ loads'[n].by = loads[n].by /\ ~ loads'[n].alone
  BY <1>1, RulesLoadBegins
<1>4. Len(loads) \in Nat
  BY SettingsKnown
<1>5. ASSUME NEW by \in {"mount", "save"}
      PROVE  (LoadOf(by)' => LoadOf(by)) /\ (LoadOf(by) => LoadOf(by)') /\ (Single(by) => Single(by)')
  <2>1. \A n \in 1..Len(loads) :
          n \in 1..Len(loads') /\ n # Len(loads) + 1 /\ loads'[n].by = loads[n].by
    BY <1>3, <1>4
  <2>. QED
    BY <1>3, <2>1 DEF LoadOf, Single
<1>6. AloneIsCurrent'
  BY <1>3 DEF AloneIsCurrent
<1>7. LoadsInOrder'
  BY <1>1, <1>2, <1>5, <1>6 DEF SettingsInv, LoadsInOrder
<1>8. DraftsFollow' /\ MakesMissing'
  BY <1>1, <1>2, <1>5 DEF SettingsInv, DraftsFollow, OfRule, MakesMissing
<1>. QED
  BY <1>1, <1>2, <1>3, <1>7, <1>8, SettingsKnown DEF SettingsInv, SettingsTypes

LEMMA DraftsAreTyped ==
  ASSUME SettingsInv
  PROVE  modal.drafts \in [Kinds -> RuleDrafts] /\ modal.selected \in Kinds
BY SettingsKnown DEF Modals

\* The draft of a type that has no rule has no id.
LEMMA SaveKeeps ==
  ASSUME SettingsInv, Settings!Save
  PROVE  SettingsInv'
<1>. DEFINE t == modal.selected
            d == modal.drafts[t]
<1>1. /\ ~ modal.saving /\ ~ modal.loading
      /\ save' = [at |-> "asked", odd |-> settingsOdd,
                  do |-> Settings!Rule(d.id, t, Settings!DraftThreshold(t, d.th), d.active)]
      /\ modal' = [modal EXCEPT !.saving = TRUE]
      /\ UNCHANGED <<rules, made, loads, edited, settingsOdd>>
  BY DEF Settings!Save, Settings!Acts, Settings!Same
<1>2. t \in Kinds /\ d \in RuleDrafts
  BY DraftsAreTyped
<1>3. /\ modal' \in Modals /\ modal'.loading = modal.loading /\ modal'.saving
      /\ modal'.drafts = modal.drafts
  BY <1>1, SettingsKnown DEF Modals
<1>4. Settings!DraftThreshold(t, d.th) \in SettingsValues
  BY <1>2 DEF Settings!DraftThreshold, Settings!DefaultThreshold, SettingsValues, RuleDrafts
<1>. HIDE DEF d, t
<1>5. /\ save' \in Saves /\ save'.at = "asked" /\ save'.odd = settingsOdd /\ save'.do.id = d.id
      /\ save'.do.type = t
  <2>1. PICK th \in SettingsValues : th = Settings!DraftThreshold(t, d.th)
    BY <1>4
  <2>. QED
    BY <1>1, <1>2, <2>1, SettingsKnown DEF Saves, Settings!Rule, RuleDrafts
<1>6. save = Settings!NoSave /\ ~ LoadOf("mount") /\ ~ LoadOf("save") /\ save.at # "done"
  BY <1>1, SettingsKnown DEF SettingsInv, LoadsInOrder
<1>7. SettingsTypes'
  BY <1>1, <1>3, <1>5, SettingsKnown DEF SettingsTypes
<1>8. LoadsInOrder'
  BY <1>1, <1>3, <1>6 DEF SettingsInv, LoadsInOrder, LoadOf, Single, AloneIsCurrent
<1>9. DraftsFollow'
  BY <1>1, <1>3, <1>6 DEF SettingsInv, DraftsFollow, OfRule
<1>10. ASSUME ~ settingsOdd, d.id = 0
       PROVE  Settings!OfType(rules, t) = {}
  <2>1. d.id = Settings!DraftOf(rules, t).id
    BY <1>2, <1>6, <1>10 DEF SettingsInv, DraftsFollow, OfRule, d
  <2>. QED
    BY <1>2, <1>10, <2>1, DraftOfRules, SettingsKnown
<1>11. MakesMissing'
  BY <1>1, <1>5, <1>10 DEF MakesMissing
<1>. QED
  BY <1>7, <1>8, <1>9, <1>11 DEF SettingsInv

\* Rules may change for a save that is under way, which is answered by a load.
LEMMA ServeSaveKeeps ==
  ASSUME SettingsInv, Settings!ServeSave
  PROVE  SettingsInv'
<1>1. /\ save.at = "asked" /\ UNCHANGED <<modal, loads, edited, settingsOdd>>
  BY DEF Settings!ServeSave
<1>2. /\ save \in Saves /\ rules \in Seq(Rules) /\ made \in Nat /\ modal \in Modals
      /\ loads \in Seq(RuleLoads) /\ settingsOdd \in BOOLEAN
  BY <1>1, SettingsKnown
<1>3. PICK r \in [id : Nat, type : Kinds, th : SettingsValues, active : BOOLEAN] : r = save.do
  BY <1>2 DEF Saves
<1>4. CASE Settings!RuleRefused(r)
  <2>1. save' = [save EXCEPT !.at = "refused"] /\ UNCHANGED <<rules, made>>
    BY <1>3, <1>4 DEF Settings!ServeSave
  <2>2. save' \in Saves /\ save'.at = "refused"
    BY <1>2, <2>1 DEF Saves
  <2>3. SettingsTypes'
    BY <1>1, <1>2, <2>1, <2>2 DEF SettingsTypes
  <2>4. save' # Settings!NoSave /\ save # Settings!NoSave
    BY <1>1, <2>2 DEF Settings!NoSave
  <2>5. LoadsInOrder'
    BY <1>1, <2>1, <2>2, <2>4
       DEF SettingsInv, LoadsInOrder, LoadOf, Single, AloneIsCurrent
  <2>6. DraftsFollow' /\ MakesMissing'
    BY <1>1, <2>1, <2>2 DEF SettingsInv, DraftsFollow, OfRule, LoadOf, MakesMissing
  <2>. QED
    BY <2>3, <2>5, <2>6 DEF SettingsInv
<1>5. CASE ~ Settings!RuleRefused(r)
  <2>1. /\ save' = [save EXCEPT !.at = "done"]
        /\ IF r.id # 0 THEN rules' = Settings!Written(r) /\ UNCHANGED made
           ELSE made' = made + 1 /\ rules' = Append(rules, [r EXCEPT !.id = made + 1])
    BY <1>3, <1>5 DEF Settings!ServeSave
  <2>2. save' \in Saves /\ save'.at = "done"
    BY <1>2, <2>1 DEF Saves
  <2>3. rules' \in Seq(Rules) /\ made' \in Nat
    <3>1. CASE r.id # 0
      <4>1. r \in Rules
        BY <3>1 DEF Rules
      <4>2. Settings!Has(r.id)
        BY <1>5, <3>1 DEF Settings!RuleRefused
      <4>. QED
        BY <1>2, <2>1, <3>1, <4>1, <4>2, WrittenRules
    <3>2. CASE r.id = 0
      <4>1. PICK next \in Nat \ {0} : next = made + 1
        BY <1>2
      <4>2. [r EXCEPT !.id = next] \in Rules
        BY <4>1 DEF Rules
      <4>. QED
        BY <1>2, <2>1, <3>2, <4>1, <4>2
    <3>. QED
      BY <3>1, <3>2
  <2>4. SettingsTypes'
    BY <1>1, <1>2, <2>2, <2>3 DEF SettingsTypes
  <2>5. save' # Settings!NoSave /\ save # Settings!NoSave
    BY <1>1, <2>2 DEF Settings!NoSave
  <2>6. LoadsInOrder'
    BY <1>1, <2>2, <2>5 DEF SettingsInv, LoadsInOrder, LoadOf, Single, AloneIsCurrent
  <2>7. DraftsFollow' /\ MakesMissing'
    BY <2>2 DEF DraftsFollow, MakesMissing
  <2>. QED
    BY <2>4, <2>6, <2>7 DEF SettingsInv
<1>. QED
  BY <1>4, <1>5

LEMMA ServeLoadKeeps ==
  ASSUME SettingsInv, NEW n \in DOMAIN loads, Settings!ServeLoad(n)
  PROVE  SettingsInv'
<1>1. /\ loads' = [loads EXCEPT ![n].read = TRUE, ![n].list = rules]
      /\ UNCHANGED <<rules, made, modal, save, edited, settingsOdd>>
  BY DEF Settings!ServeLoad
<1>2. /\ rules \in Seq(Rules) /\ loads \in Seq(RuleLoads) /\ n \in 1..Len(loads)
      /\ loads[n] \in RuleLoads
  BY SettingsKnown
<1>3. PICK l \in RuleLoads :
        /\ l = [loads[n] EXCEPT !.read = TRUE, !.list = rules]
        /\ l.by = loads[n].by /\ l.alone = loads[n].alone /\ l.list = rules
  <2>1. PICK was \in RuleLoads : was = loads[n]
    BY <1>2
  <2>2. PICK l : l = [was EXCEPT !.read = TRUE, !.list = rules]
    OBVIOUS
  <2>3. l \in RuleLoads /\ l.by = was.by /\ l.alone = was.alone /\ l.list = rules
    BY <1>2, <2>2 DEF RuleLoads
  <2>. QED
    BY <2>1, <2>2, <2>3
<1>4. loads' = [loads EXCEPT ![n] = l]
  BY <1>1, <1>2, <1>3
<1>5. /\ loads' \in Seq(RuleLoads) /\ Len(loads') = Len(loads)
      /\ \A k \in 1..Len(loads) : loads'[k] = IF k = n THEN l ELSE loads[k]
  BY <1>2, <1>4
<1>6. SettingsTypes'
  BY <1>1, <1>5, SettingsKnown DEF SettingsTypes
<1>7. \A by : (LoadOf(by)' <=> LoadOf(by)) /\ (Single(by) => Single(by)')
  BY <1>3, <1>5 DEF LoadOf, Single
<1>8. AloneIsCurrent => AloneIsCurrent'
  BY <1>1, <1>2, <1>3, <1>5 DEF AloneIsCurrent
<1>9. LoadsInOrder'
  BY <1>1, <1>7, <1>8 DEF SettingsInv, LoadsInOrder
<1>10. DraftsFollow' /\ MakesMissing'
  BY <1>1, <1>7 DEF SettingsInv, DraftsFollow, OfRule, MakesMissing
<1>. QED
  BY <1>6, <1>9, <1>10 DEF SettingsInv

\* Somebody else writes, or a save is lost: from now on it is odd.
LEMMA OddKeeps ==
  ASSUME SettingsInv, settingsOdd' = TRUE, loads' = Settings!Disturbed(loads),
         rules' \in Seq(Rules), made' \in Nat, modal' \in Modals, modal'.loading = modal.loading,
         \/ /\ save' = Settings!NoSave /\ (save = Settings!NoSave => modal'.saving = modal.saving)
         \/ /\ save # Settings!NoSave /\ save' \in Saves /\ save'.odd
            /\ modal'.saving = modal.saving
  PROVE  SettingsInv'
<1>1. /\ loads' \in Seq(RuleLoads) /\ Len(loads') = Len(loads)
      /\ \A n \in 1..Len(loads) : loads'[n].by = loads[n].by /\ ~ loads'[n].alone
  BY DisturbedLoads
<1>2. \A by : (LoadOf(by)' <=> LoadOf(by)) /\ (Single(by) => Single(by)')
  BY <1>1 DEF LoadOf, Single
<1>3. AloneIsCurrent'
  BY <1>1 DEF AloneIsCurrent
<1>4. SettingsTypes'
  BY <1>1 DEF SettingsTypes
<1>5. LoadsInOrder'
  BY <1>2, <1>3 DEF SettingsInv, LoadsInOrder
<1>6. DraftsFollow' /\ MakesMissing'
  BY DEF DraftsFollow, MakesMissing, Settings!NoSave
<1>. QED
  BY <1>4, <1>5, <1>6 DEF SettingsInv

LEMMA OtherWritesKeeps ==
  ASSUME SettingsInv, Settings!OtherWrites
  PROVE  SettingsInv'
<1>1. /\ settingsOdd' = TRUE /\ loads' = Settings!Disturbed(loads)
      /\ save' = IF save = Settings!NoSave THEN save ELSE [save EXCEPT !.odd = TRUE]
      /\ UNCHANGED <<modal, edited>>
  BY DEF Settings!OtherWrites
<1>2. rules' \in Seq(Rules) /\ made' \in Nat
  <2>1. rules \in Seq(Rules) /\ made \in Nat /\ DOMAIN rules = 1..Len(rules)
    BY SettingsKnown
  <2>2. ASSUME NEW n \in DOMAIN rules,
               rules' = Settings!Written([rules[n] EXCEPT !.active = ~ @]), UNCHANGED made
        PROVE  rules' \in Seq(Rules) /\ made' \in Nat
    <3>1. rules[n] \in Rules
      BY <2>1
    <3>2. PICK r \in Rules : r = [rules[n] EXCEPT !.active = ~ @] /\ r.id = rules[n].id
      <4>1. PICK was \in Rules : was = rules[n]
        BY <3>1
      <4>2. PICK flag \in BOOLEAN : flag = ~ was.active
        OBVIOUS
      <4>3. [was EXCEPT !.active = flag] \in Rules /\ [was EXCEPT !.active = flag].id = was.id
        BY <4>1 DEF Rules
      <4>4. [rules[n] EXCEPT !.active = ~ @] = [was EXCEPT !.active = flag]
        BY <4>1, <4>2
      <4>. QED
        BY <4>1, <4>3, <4>4
    <3>3. Settings!Has(r.id)
      BY <3>2 DEF Settings!Has
    <3>. QED
      BY <2>1, <2>2, <3>2, <3>3, WrittenRules
  <2>3. ASSUME NEW t \in Kinds, made' = made + 1,
               rules' = Append(rules, Settings!Rule(made + 1, t, Settings!DefaultThreshold(t), TRUE))
        PROVE  rules' \in Seq(Rules) /\ made' \in Nat
    <3>1. PICK next \in Nat \ {0} : next = made + 1
      BY <2>1
    <3>2. Settings!Rule(next, t, Settings!DefaultThreshold(t), TRUE) \in Rules
      BY DEF Settings!Rule, Settings!DefaultThreshold, Rules, SettingsValues
    <3>3. PICK r \in Rules : r = Settings!Rule(next, t, Settings!DefaultThreshold(t), TRUE)
      BY <3>2
    <3>4. rules' = Append(rules, r) /\ made' = next
      BY <2>3, <3>1, <3>3
    <3>. QED
      BY <2>1, <3>4
  <2>. QED
    BY <2>2, <2>3 DEF Settings!OtherWrites
<1>3. CASE save = Settings!NoSave
  BY <1>1, <1>2, <1>3, OddKeeps, SettingsKnown
<1>4. CASE save # Settings!NoSave
  <2>1. save \in Saves /\ save' = [save EXCEPT !.odd = TRUE]
    BY <1>1, <1>4, SettingsKnown
  <2>2. save' \in Saves /\ save'.odd
    BY <2>1 DEF Saves
  <2>. QED
    BY <1>1, <1>2, <1>4, <2>2, OddKeeps, SettingsKnown
<1>. QED
  BY <1>3, <1>4

LEMMA SaveLostKeeps ==
  ASSUME SettingsInv, Settings!SaveLost
  PROVE  SettingsInv'
<1>1. /\ save.at \in {"asked", "done"} /\ save' = Settings!NoSave
      /\ modal' = [modal EXCEPT !.saving = FALSE]
      /\ settingsOdd' = TRUE /\ loads' = Settings!Disturbed(loads)
      /\ UNCHANGED <<rules, made, edited>>
  BY DEF Settings!SaveLost, Settings!SaveEnds
<1>2. modal' \in Modals /\ modal'.loading = modal.loading
  BY <1>1, SettingsKnown DEF Modals
<1>3. save # Settings!NoSave
  BY <1>1, SettingsKnown
<1>. QED
  BY <1>1, <1>2, <1>3, OddKeeps, SettingsKnown

\* What is left of the loads when one has ended.
LEMMA LoadsLeft ==
  ASSUME SettingsInv, NEW n \in DOMAIN loads, loads' = Settings!RemoveAt(loads, n)
  PROVE  /\ loads' \in Seq(RuleLoads)
         /\ \A by : LoadOf(by)' => LoadOf(by)
         /\ \A by : Single(by) => Single(by)'
         /\ \A by \in {"mount", "save"} : loads[n].by = by => ~ LoadOf(by)'
         /\ \A k \in 1..Len(loads') : ~ loads'[k].alone
         /\ loads[n].alone => loads' = <<>>
<1>1. /\ loads \in Seq(RuleLoads) /\ n \in 1..Len(loads) /\ Len(loads) \in Nat
  BY SettingsKnown
<1>2. /\ loads' \in Seq(RuleLoads) /\ Len(loads') = Len(loads) - 1
      /\ \A j \in 1..(Len(loads) - 1) :
           loads'[j] = IF j < n THEN loads[j] ELSE loads[j + 1]
  BY <1>1, SettingsRemoval
<1>. DEFINE was(j) == IF j < n THEN j ELSE j + 1
<1>3. ASSUME NEW j \in 1..Len(loads')
      PROVE  was(j) \in 1..Len(loads) /\ was(j) # n /\ loads'[j] = loads[was(j)]
  <2>1. j \in 1..(Len(loads) - 1)
    BY <1>2
  <2>. QED
    BY <1>1, <1>2, <2>1
<1>4. \A j, k \in 1..Len(loads') : was(j) = was(k) => j = k
  BY <1>1
<1>. HIDE DEF was
<1>5. \A by : LoadOf(by)' => LoadOf(by)
  BY <1>3 DEF LoadOf
<1>6. \A by : Single(by) => Single(by)'
  BY <1>3, <1>4 DEF Single
<1>7. ASSUME NEW by \in {"mount", "save"}, loads[n].by = by
      PROVE  ~ LoadOf(by)'
  BY <1>1, <1>3, <1>7 DEF SettingsInv, LoadsInOrder, Single, LoadOf
<1>8. ASSUME NEW k \in 1..Len(loads'), loads'[k].alone
      PROVE  FALSE
  <2>1. Len(loads) = 1
    BY <1>3, <1>8 DEF SettingsInv, LoadsInOrder, AloneIsCurrent
  <2>. QED
    BY <1>2, <2>1
<1>9. loads[n].alone => loads' = <<>>
  <2>. HAVE loads[n].alone
  <2>1. Len(loads) = 1
    BY <1>1 DEF SettingsInv, LoadsInOrder, AloneIsCurrent
  <2>2. Len(loads') = 0
    BY <1>2, <2>1
  <2>. QED
    BY <1>2, <2>2
<1>. QED
  BY <1>2, <1>5, <1>6, <1>7, <1>8, <1>9

\* Whatever the modal takes over.
LEMMA LoadEnds ==
  ASSUME SettingsInv, NEW n \in DOMAIN loads, loads' = Settings!RemoveAt(loads, n),
         modal' \in Modals,
         modal'.loading = (modal.loading /\ loads[n].by # "mount"),
         modal'.saving = (modal.saving /\ loads[n].by # "save"),
         settingsOdd' \in BOOLEAN, UNCHANGED <<rules, made, save>>,
         ~ settingsOdd' /\ save.at # "done" =>
           \A t \in Kinds : modal'.drafts[t] = Settings!DraftOf(rules, t)
  PROVE  SettingsInv'
<1>1. /\ loads' \in Seq(RuleLoads)
      /\ \A by : LoadOf(by)' => LoadOf(by)
      /\ \A by : Single(by) => Single(by)'
      /\ \A by \in {"mount", "save"} : loads[n].by = by => ~ LoadOf(by)'
      /\ \A k \in 1..Len(loads') : ~ loads'[k].alone
  BY LoadsLeft
<1>2. SettingsTypes'
  BY <1>1, SettingsKnown DEF SettingsTypes
<1>3. n \in 1..Len(loads)
  BY SettingsKnown
<1>4. loads[n].by = "save" => LoadOf("save")
  BY <1>3 DEF LoadOf
<1>5. LoadsInOrder'
  <2>1. LoadOf("mount")' => modal'.loading
    BY <1>1 DEF SettingsInv, LoadsInOrder
  <2>2. LoadOf("save")' => modal'.saving /\ save' = Settings!NoSave
    BY <1>1 DEF SettingsInv, LoadsInOrder
  <2>3. save' # Settings!NoSave => modal'.saving
    BY <1>4 DEF SettingsInv, LoadsInOrder
  <2>4. Single("mount")' /\ Single("save")' /\ AloneIsCurrent'
    BY <1>1 DEF SettingsInv, LoadsInOrder, AloneIsCurrent
  <2>. QED
    BY <2>1, <2>2, <2>3, <2>4 DEF LoadsInOrder
<1>6. DraftsFollow' /\ MakesMissing'
  BY DEF SettingsInv, DraftsFollow, OfRule, MakesMissing
<1>. QED
  BY <1>2, <1>5, <1>6 DEF SettingsInv

LEMMA AfterLoadTypes ==
  ASSUME SettingsInv, NEW by \in {"mount", "refresh", "save"}
  PROVE  /\ Settings!AfterLoad(by) \in Modals
         /\ Settings!AfterLoad(by).loading = (modal.loading /\ by # "mount")
         /\ Settings!AfterLoad(by).saving = (modal.saving /\ by # "save")
<1>1. PICK m \in Modals : m = modal
  BY SettingsKnown
<1>2. PICK l \in BOOLEAN : l = (m.loading /\ by # "mount")
  BY <1>1 DEF Modals
<1>3. PICK r \in BOOLEAN : r = (m.refreshing /\ by = "mount")
  BY <1>1 DEF Modals
<1>4. PICK s \in BOOLEAN : s = (m.saving /\ by # "save")
  BY <1>1 DEF Modals
<1>5. Settings!AfterLoad(by) = [m EXCEPT !.loading = l, !.refreshing = r, !.saving = s]
  BY <1>1, <1>2, <1>3, <1>4 DEF Settings!AfterLoad
<1>6. PICK q \in Modals : /\ q = [m EXCEPT !.loading = l, !.refreshing = r, !.saving = s]
                          /\ q.loading = l /\ q.saving = s
  <2>. DEFINE z == [m EXCEPT !.loading = l, !.refreshing = r, !.saving = s]
  <2>1. z \in Modals /\ z.loading = l /\ z.saving = s
    BY DEF Modals
  <2>. HIDE DEF z
  <2>. QED
    BY <2>1 DEF z
<1>. QED
  BY <1>1, <1>2, <1>4, <1>5, <1>6

LEMMA LoadAnsweredKeeps ==
  ASSUME SettingsInv, NEW n \in DOMAIN loads, Settings!LoadAnswered(n)
  PROVE  SettingsInv'
<1>1. n \in 1..Len(loads) /\ loads \in Seq(RuleLoads)
  BY SettingsKnown
<1>2. PICK l \in RuleLoads : l = loads[n]
  BY <1>1
<1>3. /\ l.read /\ loads' = Settings!RemoveAt(loads, n) /\ settingsOdd' = ~ l.alone
      /\ modal' = [Settings!AfterLoad(l.by) EXCEPT !.drafts = Settings!Drafts(l.list)]
      /\ UNCHANGED <<rules, made, save>>
  BY <1>2 DEF Settings!LoadAnswered
<1>4. /\ l.by \in {"mount", "refresh", "save"} /\ l.alone \in BOOLEAN /\ l.list \in Seq(Rules)
  BY DEF RuleLoads
<1>5. PICK ds \in [Kinds -> RuleDrafts] :
        ds = Settings!Drafts(l.list) /\ \A t \in Kinds : ds[t] = Settings!DraftOf(l.list, t)
  <2>1. \A t \in Kinds : Settings!DraftOf(l.list, t) \in RuleDrafts
    BY <1>4, DraftOfRules
  <2>2. Settings!Drafts(l.list) \in [Kinds -> RuleDrafts]
    BY <2>1 DEF Settings!Drafts
  <2>3. \A t \in Kinds : Settings!Drafts(l.list)[t] = Settings!DraftOf(l.list, t)
    BY DEF Settings!Drafts
  <2>. QED
    BY <2>2, <2>3
<1>6. PICK m \in Modals : /\ m = Settings!AfterLoad(l.by)
                          /\ m.loading = (modal.loading /\ l.by # "mount")
                          /\ m.saving = (modal.saving /\ l.by # "save")
  BY <1>4, AfterLoadTypes
<1>7. /\ modal' \in Modals /\ modal'.loading = m.loading /\ modal'.saving = m.saving
      /\ modal'.drafts = ds
  BY <1>3, <1>5, <1>6 DEF Modals
<1>8. l.alone /\ save.at # "done" => l.list = rules
  BY <1>1, <1>2, <1>3 DEF SettingsInv, LoadsInOrder, AloneIsCurrent
<1>9. ~ settingsOdd' /\ save.at # "done" =>
        \A t \in Kinds : modal'.drafts[t] = Settings!DraftOf(rules, t)
  BY <1>3, <1>5, <1>7, <1>8
<1>10. settingsOdd' \in BOOLEAN
  BY <1>3, <1>4
<1>. QED
  BY <1>2, <1>3, <1>6, <1>7, <1>9, <1>10, LoadEnds

LEMMA LoadFailsKeeps ==
  ASSUME SettingsInv, NEW n \in DOMAIN loads, Settings!LoadFails(n)
  PROVE  SettingsInv'
<1>1. n \in 1..Len(loads) /\ loads \in Seq(RuleLoads)
  BY SettingsKnown
<1>2. loads[n].by \in {"mount", "refresh", "save"}
  <2>1. loads[n] \in RuleLoads
    BY <1>1
  <2>. QED
    BY <2>1 DEF RuleLoads
<1>3. /\ loads' = Settings!RemoveAt(loads, n) /\ settingsOdd' = TRUE
      /\ modal' = Settings!AfterLoad(loads[n].by) /\ UNCHANGED <<rules, made, save>>
  BY DEF Settings!LoadFails
<1>4. /\ modal' \in Modals
      /\ modal'.loading = (modal.loading /\ loads[n].by # "mount")
      /\ modal'.saving = (modal.saving /\ loads[n].by # "save")
  BY <1>2, <1>3, AfterLoadTypes
<1>. QED
  BY <1>3, <1>4, LoadEnds

\* After a save the rules are loaded.
LEMMA SavedKeeps ==
  ASSUME SettingsInv, Settings!Saved
  PROVE  SettingsInv'
<1>1. /\ save.at = "done" /\ save' = Settings!NoSave /\ Settings!Loads("save")
      /\ modal' = [modal EXCEPT !.refreshing = TRUE]
      /\ UNCHANGED <<rules, made, edited, settingsOdd>>
  BY DEF Settings!Saved
<1>2. /\ modal' \in Modals /\ modal'.loading = modal.loading /\ modal'.saving = modal.saving
  BY <1>1, SettingsKnown DEF Modals
<1>3. modal.saving /\ ~ LoadOf("save") /\ Len(loads) \in Nat
  BY <1>1, SettingsKnown DEF SettingsInv, LoadsInOrder
<1>4. /\ loads' \in Seq(RuleLoads) /\ Len(loads') = Len(loads) + 1
      /\ \A n \in 1..Len(loads') :
           IF n = Len(loads) + 1
           THEN /\ loads'[n].by = "save" /\ ~ loads'[n].read
                /\ loads'[n].alone => Len(loads') = 1
           ELSE n \in 1..Len(loads) /\ loads'[n].by = loads[n].by /\ ~ loads'[n].alone
  BY <1>1, RulesLoadBegins
<1>5. (LoadOf("mount")' => LoadOf("mount")) /\ (Single("mount") => Single("mount")')
  BY <1>4 DEF LoadOf, Single
<1>6. Single("save")'
  <2>1. \A n \in 1..Len(loads') : loads'[n].by = "save" => n = Len(loads) + 1
    BY <1>3, <1>4 DEF LoadOf
  <2>. QED
    BY <2>1 DEF Single
<1>7. LoadOf("save")'
  <2>1. Len(loads) + 1 \in 1..Len(loads')
    BY <1>3, <1>4
  <2>. QED
    BY <1>4, <2>1 DEF LoadOf
<1>8. AloneIsCurrent'
  BY <1>4 DEF AloneIsCurrent
<1>9. LoadsInOrder'
  BY <1>1, <1>2, <1>3, <1>5, <1>6, <1>8 DEF SettingsInv, LoadsInOrder
<1>10. DraftsFollow' /\ MakesMissing'
  BY <1>1, <1>7 DEF DraftsFollow, MakesMissing, Settings!NoSave
<1>. QED
  BY <1>1, <1>2, <1>4, <1>9, <1>10, SettingsKnown DEF SettingsInv, SettingsTypes

LEMMA SaveRefusedKeeps ==
  ASSUME SettingsInv, Settings!SaveRefused
  PROVE  SettingsInv'
<1>1. /\ save.at = "refused" /\ save' = Settings!NoSave
      /\ modal' = [modal EXCEPT !.saving = FALSE]
      /\ UNCHANGED <<rules, made, loads, edited, settingsOdd>>
  BY DEF Settings!SaveRefused, Settings!SaveEnds
<1>2. /\ modal' \in Modals /\ modal'.loading = modal.loading /\ modal'.drafts = modal.drafts
  BY <1>1, SettingsKnown DEF Modals
<1>3. ~ LoadOf("save") /\ save'.at = "none"
  BY <1>1, SettingsKnown DEF SettingsInv, LoadsInOrder, Settings!NoSave
<1>4. SettingsTypes'
  BY <1>1, <1>2, SettingsKnown DEF SettingsTypes
<1>5. LoadsInOrder'
  BY <1>1, <1>2, <1>3 DEF SettingsInv, LoadsInOrder, LoadOf, Single, AloneIsCurrent
<1>6. DraftsFollow' /\ MakesMissing'
  BY <1>1, <1>2, <1>3 DEF SettingsInv, DraftsFollow, OfRule, LoadOf, MakesMissing
<1>. QED
  BY <1>4, <1>5, <1>6 DEF SettingsInv

LEMMA InitSettings == Settings!Init => SettingsInv
<1>. SUFFICES ASSUME Settings!Init
              PROVE  SettingsInv
  OBVIOUS
<1>1. /\ loads = <<Settings!Load("mount", TRUE)>> /\ save = Settings!NoSave
      /\ edited = {} /\ settingsOdd = FALSE
  BY DEF Settings!Init
<1>2. PICK first \in Kinds :
        modal = [drafts |-> Settings!Drafts(<<>>), selected |-> first,
                 loading |-> TRUE, refreshing |-> FALSE, saving |-> FALSE]
  BY DEF Settings!Init
<1>3. Settings!Drafts(<<>>) \in [Kinds -> RuleDrafts]
  <2>1. <<>> \in Seq(Rules)
    OBVIOUS
  <2>2. \A t \in Kinds : Settings!DraftOf(<<>>, t) \in RuleDrafts
    BY <2>1, DraftOfRules
  <2>. QED
    BY <2>2 DEF Settings!Drafts
<1>4. modal \in Modals /\ modal.loading /\ ~ modal.saving
  BY <1>2, <1>3 DEF Modals
<1>5. rules \in Seq(Rules) /\ made \in Nat
  <2>1. ASSUME NEW t \in Kinds, NEW id \in {1, 2}, NEW active \in BOOLEAN
        PROVE  Settings!Rule(id, t, Settings!DefaultThreshold(t), active) \in Rules
    BY DEF Settings!Rule, Settings!DefaultThreshold, Rules, SettingsValues
  <2>2. CASE rules = <<>> /\ made = 0
    BY <2>2
  <2>3. ASSUME NEW t \in Kinds, made = 1,
               rules = <<Settings!Rule(1, t, Settings!DefaultThreshold(t), FALSE)>>
        PROVE  rules \in Seq(Rules) /\ made \in Nat
    <3>1. PICK r \in Rules : r = Settings!Rule(1, t, Settings!DefaultThreshold(t), FALSE)
      BY <2>1
    <3>2. rules = <<r>> /\ made = 1
      BY <2>3, <3>1
    <3>. QED
      BY ONLY <3>2, r \in Rules
  <2>4. ASSUME NEW t \in Kinds, made = 2,
               rules = <<Settings!Rule(2, t, Settings!DefaultThreshold(t), TRUE),
                         Settings!Rule(1, t, Settings!DefaultThreshold(t), FALSE)>>
        PROVE  rules \in Seq(Rules) /\ made \in Nat
    <3>1. PICK r \in Rules : r = Settings!Rule(1, t, Settings!DefaultThreshold(t), FALSE)
      BY <2>1
    <3>2. PICK q \in Rules : q = Settings!Rule(2, t, Settings!DefaultThreshold(t), TRUE)
      BY <2>1
    <3>3. rules = <<q, r>> /\ made = 2
      BY <2>4, <3>1, <3>2
    <3>. QED
      BY ONLY <3>3, q \in Rules, r \in Rules
  <2>. QED
    BY <2>2, <2>3, <2>4 DEF Settings!Init
<1>6. PICK l \in RuleLoads : l = Settings!Load("mount", TRUE) /\ l.by = "mount" /\ ~ l.read
  <2>1. <<>> \in Seq(Rules)
    OBVIOUS
  <2>2. /\ Settings!Load("mount", TRUE) \in RuleLoads
        /\ Settings!Load("mount", TRUE).by = "mount" /\ ~ Settings!Load("mount", TRUE).read
    BY <2>1 DEF Settings!Load, RuleLoads
  <2>. QED
    BY ONLY <2>2
<1>7. loads \in Seq(RuleLoads) /\ Len(loads) = 1 /\ loads[1] = l
  <2>1. loads = <<l>>
    BY <1>1, <1>6
  <2>. QED
    BY ONLY <2>1, l \in RuleLoads
<1>8. SettingsTypes
  BY <1>1, <1>4, <1>5, <1>7 DEF SettingsTypes
<1>9. \A n \in 1..Len(loads) : n = 1
  BY <1>7
<1>10. LoadOf("mount") /\ ~ LoadOf("save")
  <2>1. 1 \in 1..Len(loads)
    BY <1>7
  <2>. QED
    BY <1>6, <1>7, <1>9, <2>1 DEF LoadOf
<1>11. Single("mount") /\ Single("save") /\ AloneIsCurrent
  BY <1>6, <1>7, <1>9 DEF Single, AloneIsCurrent
<1>12. LoadsInOrder
  BY <1>1, <1>4, <1>10, <1>11 DEF LoadsInOrder
<1>13. DraftsFollow /\ MakesMissing
  BY <1>1, <1>10 DEF DraftsFollow, MakesMissing, Settings!NoSave
<1>. QED
  BY <1>8, <1>12, <1>13 DEF SettingsInv

LEMMA NextSettings ==
  ASSUME SettingsInv, [Settings!Next]_settingsVars
  PROVE  SettingsInv'
<1>1. CASE UNCHANGED settingsVars
  <2>1. UNCHANGED <<rules, made, modal, loads, save, edited, settingsOdd>>
    BY <1>1 DEF settingsVars
  <2>2. SettingsTypes' /\ LoadsInOrder'
    BY <2>1 DEF SettingsInv, SettingsTypes, LoadsInOrder, LoadOf, Single, AloneIsCurrent
  <2>3. DraftsFollow' /\ MakesMissing'
    BY <2>1 DEF SettingsInv, DraftsFollow, OfRule, LoadOf, MakesMissing
  <2>. QED
    BY <2>2, <2>3 DEF SettingsInv
<1>2. CASE Settings!Next
  BY <1>2, SelectKeeps, ChangesKeep, RefreshKeeps, SaveKeeps, ServeSaveKeeps, OtherWritesKeeps,
     ServeLoadKeeps, LoadAnsweredKeeps, LoadFailsKeeps, SavedKeeps, SaveRefusedKeeps,
     SaveLostKeeps DEF Settings!Next
<1>. QED
  BY <1>1, <1>2

LEMMA SettingsShow ==
  ASSUME SettingsInv
  PROVE  Settings!SettingsShownAreStored
<1>. SUFFICES ASSUME loads = <<>>, save = Settings!NoSave, ~ settingsOdd, NEW t \in Kinds \ edited
              PROVE  LET d == modal.drafts[t]
                         mine == Settings!OfType(rules, t)
                     IN IF mine = {} THEN d.id = 0
                        ELSE /\ \E n \in mine : rules[n] = Settings!Rule(d.id, t, d.th, d.active)
                             /\ (\E n \in mine : rules[n].active) => d.active
  BY DEF Settings!SettingsShownAreStored
<1>1. ~ LoadOf("mount") /\ ~ LoadOf("save") /\ save.at # "done"
  BY DEF LoadOf, Settings!NoSave
<1>2. modal.drafts[t] = Settings!DraftOf(rules, t)
  BY <1>1 DEF SettingsInv, DraftsFollow, OfRule
<1>. QED
  BY <1>2, DraftOfRules, SettingsKnown

LEMMA SettingsInvariant == PageSpec => [](part = "settings" => SettingsInv)
<1>1. PageInit => (part = "settings" => SettingsInv)
  BY InitSettings DEF PageInit, Begins
<1>2. (part = "settings" => SettingsInv) /\ [PageNext]_pageVars => (part = "settings" => SettingsInv)'
  BY OnePartRuns, OnePartRuns, NextSettings
<1>. QED
  BY <1>1, <1>2, PTL DEF PageSpec

(***************************************************************************)
(* SettingsShownAreStored of the settings of the alerts, the part of       *)
(* PagesFollowChoice that is about them: with nothing under way, of every  *)
(* type that was not edited the modal shows the rule in force, for any     *)
(* rules and any number of loads and saves.                                *)
(***************************************************************************)
THEOREM SettingsFollowTheRules ==
  PageSpec => [](part = "settings" => Settings!SettingsShownAreStored)
<1>1. (part = "settings" => SettingsInv) => (part = "settings" => Settings!SettingsShownAreStored)
  BY SettingsShow
<1>. QED
  BY <1>1, SettingsInvariant, PTL

(***************************************************************************)
(* The page of the employees.                                              *)
(***************************************************************************)

\* No employee is none of the employees.
EditorAssumption == Nobody \notin Known \cup Later

Named == Editor!Emps \cup {Nobody}
Modes == {"hidden", "create", "edit"}
EditorPages ==
  [view : Editor!Views, sel : Named, mode : Modes, rows : SUBSET Editor!Emps, broken : BOOLEAN,
   draft : Named, loading : BOOLEAN, refreshing : BOOLEAN, ev : Named, evFor : Named,
   evLoading : BOOLEAN]
Flying ==
  [what : {"list", "evidence"}, view : Editor!Views, sel : Named, mode : Modes, loud : BOOLEAN,
   by : {"effect", "submit", "delete"}, read : BOOLEAN, rows : SUBSET Editor!Emps]
Commands ==
  [at : {"none", "sent", "done", "failed", "list", "evidence"},
   kind : {"none", "update", "create", "delete"}, emp : Named, draft : Named,
   view : Editor!Views, sel : Named, mode : Modes, last : BOOLEAN, same : BOOLEAN]

EditorTypes ==
  /\ staff \in SUBSET Editor!Emps /\ ui \in EditorPages /\ editorFlights \in Seq(Flying)
  /\ submit \in Commands /\ remove \in Commands
  /\ astray \in BOOLEAN /\ crowded \in BOOLEAN /\ mixed \in BOOLEAN

\* A load that a command asked for is the one the command waits for, and the
\* only one.
CommandsAwait ==
  /\ \A n \in 1..Len(editorFlights) :
       /\ editorFlights[n].by = "submit" => submit.at = editorFlights[n].what
       /\ editorFlights[n].by = "delete" => remove.at = editorFlights[n].what
  /\ \A n, k \in 1..Len(editorFlights) :
       editorFlights[n].by = editorFlights[k].by => n = k \/ editorFlights[n].by = "effect"

\* The draft is that of the employee edited, or of none.
DraftOfSelected ==
  /\ ui.mode = "edit" => ui.draft \in {Nobody, ui.sel}
  /\ ui.mode = "edit" /\ ~ astray => Editor!IsEditing(ui)
  /\ ui.mode = "create" => ui.draft = Nobody

\* The lists under way are of the view that is chosen, and those read of
\* what is stored; so are the commands; and the rows, once nothing is to
\* come.
ListsOfView ==
  \A n \in 1..Len(editorFlights) : editorFlights[n].what = "list" =>
    /\ editorFlights[n].view = ui.view
    /\ editorFlights[n].read => editorFlights[n].rows = Editor!InView(ui.view, staff)
CommandsOfView ==
  /\ submit.at # "none" => submit.view = ui.view
  /\ remove.at # "none" => remove.view = ui.view
NoListToCome ==
  /\ \A n \in 1..Len(editorFlights) : editorFlights[n].what # "list"
  /\ submit.at # "done" /\ remove.at \notin {"done", "evidence"}
RowsOfView == NoListToCome => ui.broken \/ ui.rows = Editor!InView(ui.view, staff)
RowsAgree == ~ crowded => ListsOfView /\ CommandsOfView /\ RowsOfView

EvidenceFollows ==
  ui.mode = "edit" /\ ~ mixed =>
    /\ ui.ev \in {Nobody, ui.sel}
    /\ \A n \in 1..Len(editorFlights) :
         editorFlights[n].what = "evidence" => editorFlights[n].sel = ui.sel

EditorInv ==
  EditorTypes /\ CommandsAwait /\ DraftOfSelected /\ RowsAgree /\ EvidenceFollows

LEMMA EditorRemoval ==
  ASSUME NEW S, NEW s \in Seq(S), NEW i \in 1..Len(s)
  PROVE  /\ Editor!RemoveAt(s, i) \in Seq(S)
         /\ Len(Editor!RemoveAt(s, i)) = Len(s) - 1
         /\ \A j \in 1..(Len(s) - 1) :
              Editor!RemoveAt(s, i)[j] = IF j < i THEN s[j] ELSE s[j + 1]
<1>1. Editor!RemoveAt(s, i) = Detail!RemoveAt(s, i)
  BY DEF Editor!RemoveAt, Detail!RemoveAt
<1>. QED
  BY <1>1, Removal

LEMMA EditorGreatest ==
  ASSUME NEW n \in Nat, NEW S \in SUBSET (1..n), S # {}
  PROVE  Editor!Max(S) \in S
<1>1. Editor!Max(S) = Settings!Max(S)
  BY DEF Editor!Max, Settings!Max
<1>. QED
  BY <1>1, GreatestIsOne

\* The places of two sequences joined.
LEMMA Joined ==
  ASSUME NEW S, NEW s \in Seq(S), NEW t \in Seq(S)
  PROVE  /\ s \o t \in Seq(S) /\ Len(s \o t) = Len(s) + Len(t)
         /\ \A n \in 1..Len(s) : n \in 1..Len(s \o t) /\ (s \o t)[n] = s[n]
         /\ \A n \in 1..Len(t) :
              Len(s) + n \in 1..Len(s \o t) /\ (s \o t)[Len(s) + n] = t[n]
         /\ \A n \in 1..Len(s \o t) :
              \/ n \in 1..Len(s) /\ (s \o t)[n] = s[n]
              \/ \E k \in 1..Len(t) : n = Len(s) + k /\ (s \o t)[n] = t[k]
<1>1. /\ s \o t \in Seq(S) /\ Len(s \o t) = Len(s) + Len(t)
      /\ \A n \in 1..(Len(s) + Len(t)) :
           (s \o t)[n] = IF n <= Len(s) THEN s[n] ELSE t[n - Len(s)]
  OBVIOUS
<1>2. Len(s) \in Nat /\ Len(t) \in Nat
  OBVIOUS
<1>3. \A n \in 1..Len(t) : Len(s) + n \in 1..(Len(s) + Len(t)) /\ ~ (Len(s) + n <= Len(s))
                             /\ (Len(s) + n) - Len(s) = n
  BY <1>2
<1>4. \A n \in 1..(Len(s) + Len(t)) : ~ (n <= Len(s)) =>
        n - Len(s) \in 1..Len(t) /\ n = Len(s) + (n - Len(s))
  BY <1>2
<1>5. \A n \in 1..Len(s) : n \in 1..(Len(s) + Len(t)) /\ n <= Len(s)
  BY <1>2
<1>6. \A n \in 1..(Len(s) + Len(t)) : n <= Len(s) => n \in 1..Len(s)
  BY <1>2
<1>. QED
  BY <1>1, <1>3, <1>4, <1>5, <1>6

LEMMA ListFlies ==
  ASSUME NEW view_ \in Editor!Views, NEW sel_ \in Named, NEW mode_ \in Modes,
         NEW loud_ \in BOOLEAN, NEW by_ \in {"effect", "submit", "delete"}
  PROVE  /\ Editor!List(view_, sel_, mode_, loud_, by_) \in Flying
         /\ Editor!List(view_, sel_, mode_, loud_, by_).what = "list"
         /\ Editor!List(view_, sel_, mode_, loud_, by_).view = view_
         /\ Editor!List(view_, sel_, mode_, loud_, by_).by = by_
         /\ ~ Editor!List(view_, sel_, mode_, loud_, by_).read
  BY DEF Editor!List, Flying

LEMMA EvidenceFlies ==
  ASSUME NEW emp_ \in Named, NEW by_ \in {"effect", "submit", "delete"}
  PROVE  /\ Editor!Evidence(emp_, by_) \in Flying
         /\ Editor!Evidence(emp_, by_).what = "evidence"
         /\ Editor!Evidence(emp_, by_).sel = emp_
         /\ Editor!Evidence(emp_, by_).by = by_
  BY DEF Editor!Evidence, Flying, Editor!Views, Modes

\* What the page asks for of itself when it becomes u.
IsEffect(u, f) ==
  /\ f.by = "effect"
  /\ f.what = "list" => f.view = u.view /\ ~ f.read
  /\ f.what = "evidence" => u.mode = "edit" /\ f.sel = u.sel

LEMMA EditedIs ==
  ASSUME NEW u \in EditorPages
  PROVE  /\ Editor!Edited(u) \in {u.sel, Nobody} /\ Editor!Edited(u) \in Named
         /\ Editor!IsEditing(u) => u.mode = "edit" /\ Editor!Edited(u) = u.sel /\ u.sel \in u.rows
         /\ u.mode = "edit" /\ u.sel \in u.rows => Editor!Edited(u) = u.sel
         /\ u.mode # "edit" => Editor!Edited(u) = Nobody
<1>1. u.sel \in Named
  BY DEF EditorPages
<1>. QED
  BY <1>1 DEF Editor!Edited, Editor!IsEditing, Named

Moved(u) == u.view # ui.view \/ u.sel # ui.sel \/ u.mode # ui.mode
Opened(u) ==
  Editor!IsEditing(u) /\ (u.mode # ui.mode \/ Editor!Edited(u) # Editor!Edited(ui))

LEMMA ListEffects ==
  ASSUME NEW u \in EditorPages
  PROVE  /\ Editor!ListEffect(u) \in Seq(Flying)
         /\ \A n \in 1..Len(Editor!ListEffect(u)) :
              IsEffect(u, Editor!ListEffect(u)[n]) /\ Editor!ListEffect(u)[n].what = "list"
         /\ Moved(u) => 1 \in 1..Len(Editor!ListEffect(u))
<1>1. CASE Moved(u)
  <2>1. <<u.view, u.sel, u.mode>> # <<ui.view, ui.sel, ui.mode>>
    BY <1>1 DEF Moved
  <2>2. PICK f \in Flying : /\ f = Editor!List(u.view, u.sel, u.mode, u.view = "first", "effect")
                            /\ f.what = "list" /\ f.view = u.view /\ f.by = "effect" /\ ~ f.read
    <3>1. u.view \in Editor!Views /\ u.sel \in Named /\ u.mode \in Modes
          /\ "effect" \in {"effect", "submit", "delete"}
      BY DEF EditorPages
    <3>2. PICK first \in BOOLEAN : first = (u.view = "first")
      OBVIOUS
    <3>3. /\ Editor!List(u.view, u.sel, u.mode, first, "effect") \in Flying
          /\ Editor!List(u.view, u.sel, u.mode, first, "effect").what = "list"
          /\ Editor!List(u.view, u.sel, u.mode, first, "effect").view = u.view
          /\ Editor!List(u.view, u.sel, u.mode, first, "effect").by = "effect"
          /\ ~ Editor!List(u.view, u.sel, u.mode, first, "effect").read
      BY <3>1, ListFlies
    <3>. QED
      BY <3>2, <3>3
  <2>3. Editor!ListEffect(u) = <<f>>
    BY <2>1, <2>2 DEF Editor!ListEffect
  <2>4. IsEffect(u, f)
    BY <2>2 DEF IsEffect
  <2>5. /\ <<f>> \in Seq(Flying) /\ 1 \in 1..Len(<<f>>)
        /\ \A n \in 1..Len(<<f>>) : <<f>>[n] = f
    OBVIOUS
  <2>. QED
    BY <2>2, <2>3, <2>4, <2>5
<1>2. CASE ~ Moved(u)
  <2>1. <<u.view, u.sel, u.mode>> = <<ui.view, ui.sel, ui.mode>>
    BY <1>2 DEF Moved
  <2>2. Editor!ListEffect(u) = <<>>
    BY <2>1 DEF Editor!ListEffect
  <2>3. <<>> \in Seq(Flying) /\ 1..Len(<<>>) = {}
    OBVIOUS
  <2>. QED
    BY <1>2, <2>2, <2>3
<1>. QED
  BY <1>1, <1>2

LEMMA EvidenceEffects ==
  ASSUME NEW u \in EditorPages
  PROVE  /\ Editor!EvidenceEffect(u) \in Seq(Flying)
         /\ \A n \in 1..Len(Editor!EvidenceEffect(u)) :
              IsEffect(u, Editor!EvidenceEffect(u)[n]) /\ Editor!EvidenceEffect(u)[n].what = "evidence"
         /\ Opened(u) => 1 \in 1..Len(Editor!EvidenceEffect(u))
<1>1. CASE Opened(u)
  <2>1. Editor!IsEditing(u) /\ <<u.mode, Editor!Edited(u)>> # <<ui.mode, Editor!Edited(ui)>>
    BY <1>1 DEF Opened
  <2>2. PICK f \in Flying : /\ f = Editor!Evidence(Editor!Edited(u), "effect")
                            /\ f.what = "evidence" /\ f.sel = Editor!Edited(u) /\ f.by = "effect"
    BY EditedIs, EvidenceFlies
  <2>3. Editor!EvidenceEffect(u) = <<f>>
    BY <2>1, <2>2 DEF Editor!EvidenceEffect
  <2>4. IsEffect(u, f)
    BY <2>1, <2>2, EditedIs DEF IsEffect
  <2>5. /\ <<f>> \in Seq(Flying) /\ 1 \in 1..Len(<<f>>)
        /\ \A n \in 1..Len(<<f>>) : <<f>>[n] = f
    OBVIOUS
  <2>. QED
    BY <2>2, <2>3, <2>4, <2>5
<1>2. CASE ~ Opened(u)
  <2>1. ~ (Editor!IsEditing(u) /\ <<u.mode, Editor!Edited(u)>> # <<ui.mode, Editor!Edited(ui)>>)
    BY <1>2 DEF Opened
  <2>2. Editor!EvidenceEffect(u) = <<>>
    BY <2>1 DEF Editor!EvidenceEffect
  <2>3. <<>> \in Seq(Flying) /\ 1..Len(<<>>) = {}
    OBVIOUS
  <2>. QED
    BY <1>2, <2>2, <2>3
<1>. QED
  BY <1>1, <1>2

\* All that is asked for: what the handler asked, and what follows.
AllAsked(u, asked) == asked \o Editor!ListEffect(u) \o Editor!EvidenceEffect(u)

LEMMA AsksAre ==
  ASSUME NEW u \in EditorPages, NEW asked \in Seq(Flying)
  PROVE  /\ AllAsked(u, asked) \in Seq(Flying)
         /\ \A n \in 1..Len(AllAsked(u, asked)) :
              \/ n \in 1..Len(asked) /\ AllAsked(u, asked)[n] = asked[n]
              \/ IsEffect(u, AllAsked(u, asked)[n])
         /\ \A n \in 1..Len(asked) :
              n \in 1..Len(AllAsked(u, asked)) /\ AllAsked(u, asked)[n] = asked[n]
         /\ Moved(u) => \E n \in 1..Len(AllAsked(u, asked)) : AllAsked(u, asked)[n].what = "list"
         /\ Opened(u) =>
              \E n \in 1..Len(AllAsked(u, asked)) : AllAsked(u, asked)[n].what = "evidence"
<1>1. PICK l \in Seq(Flying) :
        /\ l = Editor!ListEffect(u)
        /\ \A n \in 1..Len(l) : IsEffect(u, l[n]) /\ l[n].what = "list"
        /\ Moved(u) => 1 \in 1..Len(l)
  BY ListEffects
<1>2. PICK e \in Seq(Flying) :
        /\ e = Editor!EvidenceEffect(u)
        /\ \A n \in 1..Len(e) : IsEffect(u, e[n]) /\ e[n].what = "evidence"
        /\ Opened(u) => 1 \in 1..Len(e)
  BY EvidenceEffects
<1>3. /\ asked \o l \in Seq(Flying)
      /\ \A n \in 1..Len(asked) : n \in 1..Len(asked \o l) /\ (asked \o l)[n] = asked[n]
      /\ \A n \in 1..Len(l) :
           Len(asked) + n \in 1..Len(asked \o l) /\ (asked \o l)[Len(asked) + n] = l[n]
      /\ \A n \in 1..Len(asked \o l) :
           \/ n \in 1..Len(asked) /\ (asked \o l)[n] = asked[n]
           \/ \E k \in 1..Len(l) : (asked \o l)[n] = l[k]
  BY Joined
<1>4. PICK a \in Seq(Flying) :
        /\ a = asked \o l
        /\ \A n \in 1..Len(asked) : n \in 1..Len(a) /\ a[n] = asked[n]
        /\ \A n \in 1..Len(l) : Len(asked) + n \in 1..Len(a) /\ a[Len(asked) + n] = l[n]
        /\ \A n \in 1..Len(a) :
             \/ n \in 1..Len(asked) /\ a[n] = asked[n]
             \/ \E k \in 1..Len(l) : a[n] = l[k]
  BY <1>3
<1>5. /\ a \o e \in Seq(Flying)
      /\ \A n \in 1..Len(a) : n \in 1..Len(a \o e) /\ (a \o e)[n] = a[n]
      /\ \A n \in 1..Len(e) : Len(a) + n \in 1..Len(a \o e) /\ (a \o e)[Len(a) + n] = e[n]
      /\ \A n \in 1..Len(a \o e) :
           \/ n \in 1..Len(a) /\ (a \o e)[n] = a[n]
           \/ \E k \in 1..Len(e) : (a \o e)[n] = e[k]
  BY Joined
<1>6. AllAsked(u, asked) = a \o e
  BY <1>1, <1>2, <1>4 DEF AllAsked
<1>7. \A n \in 1..Len(a \o e) :
        \/ n \in 1..Len(asked) /\ (a \o e)[n] = asked[n]
        \/ IsEffect(u, (a \o e)[n])
  BY <1>1, <1>2, <1>4, <1>5
<1>8. \A n \in 1..Len(asked) : n \in 1..Len(a \o e) /\ (a \o e)[n] = asked[n]
  BY <1>4, <1>5
<1>9. Moved(u) => \E n \in 1..Len(a \o e) : (a \o e)[n].what = "list"
  BY <1>1, <1>4, <1>5
<1>10. Opened(u) => \E n \in 1..Len(a \o e) : (a \o e)[n].what = "evidence"
  BY <1>2, <1>5
<1>. QED
  BY <1>5, <1>6, <1>7, <1>8, <1>9, <1>10

LEMMA AskedPages ==
  ASSUME NEW u \in EditorPages, NEW more \in Seq(Flying)
  PROVE  /\ Editor!Asked(u, more) \in EditorPages
         /\ Editor!Asked(u, more).view = u.view /\ Editor!Asked(u, more).sel = u.sel
         /\ Editor!Asked(u, more).mode = u.mode /\ Editor!Asked(u, more).rows = u.rows
         /\ Editor!Asked(u, more).broken = u.broken /\ Editor!Asked(u, more).draft = u.draft
         /\ Editor!Asked(u, more).ev = u.ev
<1>. DEFINE places == Editor!EvidenceIn(more)
<1>1. PICK n \in Named :
        n = IF places = {} THEN u.evFor ELSE more[Editor!Max(places)].sel
  <2>1. CASE places = {}
    BY <2>1 DEF EditorPages
  <2>2. CASE places # {}
    <3>1. Len(more) \in Nat /\ places \in SUBSET (1..Len(more)) /\ DOMAIN more = 1..Len(more)
      BY DEF Editor!EvidenceIn
    <3>2. Editor!Max(places) \in 1..Len(more)
      <4>. HIDE DEF places
      <4>. QED
        BY <2>2, <3>1, EditorGreatest
    <3>3. more[Editor!Max(places)] \in Flying
      BY <3>2
    <3>4. more[Editor!Max(places)].sel \in Named
      BY <3>3 DEF Flying
    <3>. QED
      BY <2>2, <3>4
  <2>. QED
    BY <2>1, <2>2
<1>2. PICK loud \in BOOLEAN :
        loud = (u.loading \/ \E f \in Editor!ToSet(more) : f.what = "list" /\ f.loud)
  BY DEF EditorPages
<1>3. PICK quiet \in BOOLEAN :
        quiet = (u.refreshing \/ \E f \in Editor!ToSet(more) : f.what = "list" /\ ~ f.loud)
  BY DEF EditorPages
<1>4. PICK ev \in BOOLEAN : ev = (u.evLoading \/ places # {})
  BY DEF EditorPages
<1>5. Editor!Asked(u, more) =
        [u EXCEPT !.loading = loud, !.refreshing = quiet, !.evLoading = ev, !.evFor = n]
  BY <1>1, <1>2, <1>3, <1>4 DEF Editor!Asked
<1>. HIDE DEF places
<1>6. /\ [u EXCEPT !.loading = loud, !.refreshing = quiet, !.evLoading = ev, !.evFor = n]
           \in EditorPages
      /\ [u EXCEPT !.loading = loud, !.refreshing = quiet, !.evLoading = ev, !.evFor = n].view = u.view
      /\ [u EXCEPT !.loading = loud, !.refreshing = quiet, !.evLoading = ev, !.evFor = n].sel = u.sel
      /\ [u EXCEPT !.loading = loud, !.refreshing = quiet, !.evLoading = ev, !.evFor = n].mode = u.mode
      /\ [u EXCEPT !.loading = loud, !.refreshing = quiet, !.evLoading = ev, !.evFor = n].rows = u.rows
      /\ [u EXCEPT !.loading = loud, !.refreshing = quiet, !.evLoading = ev, !.evFor = n].broken = u.broken
      /\ [u EXCEPT !.loading = loud, !.refreshing = quiet, !.evLoading = ev, !.evFor = n].draft = u.draft
      /\ [u EXCEPT !.loading = loud, !.refreshing = quiet, !.evLoading = ev, !.evFor = n].ev = u.ev
  BY DEF EditorPages
<1>. QED
  BY <1>5, <1>6

LEMMA KeysAre ==
  ASSUME NEW u \in EditorPages, ui \in EditorPages
  PROVE  Editor!Key(u) = Editor!Key(ui) <=>
           u.mode = ui.mode /\ (u.mode = "edit" => u.sel = ui.sel)
<1>1. u.mode \in Modes /\ ui.mode \in Modes
  BY DEF EditorPages
<1>2. \A p \in {u, ui} :
        /\ p.mode = "hidden" => Editor!Key(p) = <<"none", Nobody>>
        /\ p.mode = "create" => Editor!Key(p) = <<"create", Nobody>>
        /\ p.mode = "edit" => Editor!Key(p) = <<"edit", p.sel>>
  BY DEF Editor!Key
<1>. QED
  BY <1>1, <1>2 DEF Modes

LEMMA RemountedPages ==
  ASSUME NEW u \in EditorPages, ui \in EditorPages
  PROVE  /\ Editor!Remounted(u) \in EditorPages
         /\ Editor!Remounted(u).view = u.view /\ Editor!Remounted(u).sel = u.sel
         /\ Editor!Remounted(u).mode = u.mode /\ Editor!Remounted(u).rows = u.rows
         /\ Editor!Remounted(u).broken = u.broken /\ Editor!Remounted(u).ev = u.ev
         /\ Editor!Remounted(u).draft =
              IF Editor!Key(u) = Editor!Key(ui) THEN u.draft ELSE Editor!Edited(u)
<1>1. CASE Editor!Key(u) = Editor!Key(ui)
  BY <1>1 DEF Editor!Remounted
<1>2. CASE Editor!Key(u) # Editor!Key(ui)
  <2>1. PICK e \in Named : e = Editor!Edited(u)
    BY EditedIs
  <2>2. Editor!Remounted(u) = [u EXCEPT !.draft = e]
    BY <1>2, <2>1 DEF Editor!Remounted, Editor!FirstDraft
  <2>3. /\ [u EXCEPT !.draft = e] \in EditorPages
        /\ [u EXCEPT !.draft = e].view = u.view /\ [u EXCEPT !.draft = e].sel = u.sel
        /\ [u EXCEPT !.draft = e].mode = u.mode /\ [u EXCEPT !.draft = e].rows = u.rows
        /\ [u EXCEPT !.draft = e].broken = u.broken /\ [u EXCEPT !.draft = e].ev = u.ev
        /\ [u EXCEPT !.draft = e].draft = e
    BY DEF EditorPages
  <2>. QED
    BY <1>2, <2>1, <2>2, <2>3
<1>. QED
  BY <1>1, <1>2

\* The page becomes u, with the loads left under way and those asked for.
Drawn(u, left, asked) ==
  /\ ui' \in EditorPages
  /\ ui'.view = u.view /\ ui'.rows = u.rows /\ ui'.broken = u.broken
  /\ editorFlights' = left \o AllAsked(u, asked) /\ editorFlights' \in Seq(Flying)
  /\ astray' \in BOOLEAN /\ mixed' \in BOOLEAN
  /\ DraftOfSelected' /\ EvidenceFollows'

\* An editor that is open on u was open on the same employee, or is opened
\* on one of the rows.
OpensARow(u) ==
  u.mode = "edit" => \/ ui.mode = "edit" /\ u.sel = ui.sel
                     \/ u.sel \in u.rows

LEMMA PageRenders ==
  ASSUME EditorAssumption, EditorInv, NEW u \in EditorPages, NEW left \in Seq(Flying),
         NEW asked \in Seq(Flying),
         \A n \in 1..Len(left) : \E k \in 1..Len(editorFlights) : left[n] = editorFlights[k],
         OpensARow(u), u.draft \in {ui.draft, Nobody},
         u.mode = "edit" /\ ~ mixed => u.ev \in {Nobody, u.sel},
         Editor!Renders(u, left, asked)
  PROVE  Drawn(u, left, asked)
<1>. DEFINE more == AllAsked(u, asked)
<1>1. /\ ui \in EditorPages /\ ui.mode \in Modes /\ u.mode \in Modes /\ u.sel \in Named
      /\ astray \in BOOLEAN /\ mixed \in BOOLEAN
  BY DEF EditorInv, EditorTypes, EditorPages
<1>2. /\ more \in Seq(Flying)
      /\ Opened(u) => \E n \in 1..Len(more) : more[n].what = "evidence"
      /\ \A n \in 1..Len(more) : more[n] \in Flying
  BY AsksAre
<1>3. PICK m \in Seq(Flying) : m = more
  BY <1>2
<1>4. /\ ui' = Editor!Asked(Editor!Remounted(u), m)
      /\ editorFlights' = left \o m
      /\ astray' = (u.mode = "edit" /\
           \/ (astray /\ Editor!Key(u) = Editor!Key(ui))
           \/ (Editor!Key(u) = Editor!Key(ui) /\ Editor!IsEditing(ui) /\ ~ Editor!IsEditing(u))
           \/ (Editor!Key(u) # Editor!Key(ui) /\ \E f \in Editor!ToSet(left) : f.what = "list"))
      /\ mixed' = (mixed \/ (\E i, j \in Editor!EvidenceIn(left \o m) : i # j)
                         \/ \E f \in Editor!ToSet(m) : /\ f.what = "evidence"
                                                       /\ u.mode = "edit" /\ f.sel # u.sel)
  <2>1. m = asked \o Editor!ListEffect(u) \o Editor!EvidenceEffect(u)
    BY <1>3 DEF AllAsked
  <2>2. /\ ui' = Editor!Asked(Editor!Remounted(u), m)
        /\ editorFlights' = left \o m
    BY <2>1 DEF Editor!Renders
  <2>3. astray' = (u.mode = "edit" /\
          \/ (astray /\ Editor!Key(u) = Editor!Key(ui))
          \/ (Editor!Key(u) = Editor!Key(ui) /\ Editor!IsEditing(ui) /\ ~ Editor!IsEditing(u))
          \/ (Editor!Key(u) # Editor!Key(ui) /\ \E f \in Editor!ToSet(left) : f.what = "list"))
    BY Zenon DEF Editor!Renders
  <2>4. mixed' = (mixed \/ (\E i, j \in Editor!EvidenceIn(left \o m) : i # j)
                        \/ \E f \in Editor!ToSet(m) : /\ f.what = "evidence"
                                                      /\ u.mode = "edit" /\ f.sel # u.sel)
    BY <2>1, Zenon DEF Editor!Renders
  <2>. QED
    BY <2>2, <2>3, <2>4
<1>5. PICK r \in EditorPages :
        /\ r = Editor!Remounted(u)
        /\ r.view = u.view /\ r.sel = u.sel /\ r.mode = u.mode /\ r.rows = u.rows
        /\ r.broken = u.broken /\ r.ev = u.ev
        /\ r.draft = IF Editor!Key(u) = Editor!Key(ui) THEN u.draft ELSE Editor!Edited(u)
  BY <1>1, RemountedPages
<1>6. /\ ui' \in EditorPages
      /\ ui'.view = u.view /\ ui'.sel = u.sel /\ ui'.mode = u.mode /\ ui'.rows = u.rows
      /\ ui'.broken = u.broken /\ ui'.ev = u.ev /\ ui'.draft = r.draft
  <2>1. Editor!Asked(r, m) \in EditorPages /\ Editor!Asked(r, m).view = r.view
    BY AskedPages
  <2>. QED
    BY <1>4, <1>5, AskedPages
<1>7. editorFlights' \in Seq(Flying)
  BY <1>4, Joined
<1>8. Editor!Key(u) = Editor!Key(ui) <=> u.mode = ui.mode /\ (u.mode = "edit" => u.sel = ui.sel)
  BY <1>1, KeysAre
<1>9. DraftOfSelected'
  <2>1. u.mode = "edit" => r.draft \in {Nobody, u.sel}
    BY <1>5, <1>8, EditedIs DEF EditorInv, DraftOfSelected
  <2>2. u.mode = "create" => r.draft = Nobody
    BY <1>1, <1>5, <1>8, EditedIs DEF EditorInv, DraftOfSelected
  <2>3. ASSUME u.mode = "edit", ~ astray'
        PROVE  Editor!IsEditing(u)
    <3>1. CASE Editor!Key(u) = Editor!Key(ui)
      BY <1>4, <1>8, <2>3, <3>1 DEF EditorInv, DraftOfSelected
    <3>2. CASE Editor!Key(u) # Editor!Key(ui)
      <4>1. u.sel \in u.rows
        BY <1>8, <2>3, <3>2 DEF OpensARow
      <4>2. u.rows \subseteq Editor!Emps
        BY DEF EditorPages
      <4>. QED
        BY <2>3, <4>1, <4>2, EditedIs DEF Editor!IsEditing, EditorAssumption, Editor!Emps
    <3>. QED
      BY <3>1, <3>2
  <2>4. Editor!IsEditing(u) => Editor!IsEditing(ui)'
    BY <1>6 DEF Editor!IsEditing, Editor!Edited
  <2>. QED
    BY <1>6, <2>1, <2>2, <2>3, <2>4 DEF DraftOfSelected
<1>10. EvidenceFollows'
  <2>. SUFFICES ASSUME u.mode = "edit", ~ mixed'
                PROVE  /\ u.ev \in {Nobody, u.sel}
                       /\ \A n \in 1..Len(left \o m) :
                            (left \o m)[n].what = "evidence" => (left \o m)[n].sel = u.sel
    BY <1>4, <1>6 DEF EvidenceFollows
  <2>1. ~ mixed /\ u.ev \in {Nobody, u.sel}
    BY <1>4
  <2>2. /\ \A n \in 1..Len(left) : n \in 1..Len(left \o m) /\ (left \o m)[n] = left[n]
        /\ \A n \in 1..Len(m) :
             Len(left) + n \in 1..Len(left \o m) /\ (left \o m)[Len(left) + n] = m[n]
        /\ \A n \in 1..Len(left \o m) :
             \/ n \in 1..Len(left) /\ (left \o m)[n] = left[n]
             \/ \E k \in 1..Len(m) : (left \o m)[n] = m[k]
        /\ DOMAIN (left \o m) = 1..Len(left \o m) /\ DOMAIN m = 1..Len(m)
    <3>1. left \o m \in Seq(Flying)
      BY Joined
    <3>. QED
      BY <3>1, Joined
  <2>3. ASSUME NEW n \in 1..Len(m), m[n].what = "evidence"
        PROVE  m[n].sel = u.sel
    <3>1. m[n] \in Editor!ToSet(m)
      BY <2>2 DEF Editor!ToSet
    <3>. QED
      BY <1>4, <2>3, <3>1
  <2>4. ASSUME NEW n \in 1..Len(left), left[n].what = "evidence"
        PROVE  left[n].sel = u.sel
    <3>1. CASE ui.mode = "edit" /\ u.sel = ui.sel
      BY <2>1, <2>4, <3>1 DEF EditorInv, EvidenceFollows
    <3>2. CASE ~ (ui.mode = "edit" /\ u.sel = ui.sel)
      <4>1. u.sel \in u.rows /\ u.sel # Nobody
        <5>1. u.rows \subseteq Editor!Emps
          BY DEF EditorPages
        <5>. QED
          BY <3>2, <5>1 DEF OpensARow, EditorAssumption, Editor!Emps
      <4>2. Editor!Edited(u) = u.sel /\ Editor!IsEditing(u)
        BY <4>1, EditedIs DEF Editor!IsEditing
      <4>3. u.mode # ui.mode \/ Editor!Edited(ui) # u.sel
        BY <1>1, <3>2, <4>1, EditedIs
      <4>4. PICK k \in 1..Len(m) : m[k].what = "evidence"
        BY <1>2, <1>3, <4>2, <4>3 DEF Opened
      <4>5. /\ n \in Editor!EvidenceIn(left \o m)
            /\ Len(left) + k \in Editor!EvidenceIn(left \o m)
        BY <2>2, <2>4, <4>4 DEF Editor!EvidenceIn
      <4>6. Len(left) + k # n
        <5>1. Len(left) \in Nat
          OBVIOUS
        <5>. QED
          BY <5>1
      <4>. QED
        BY <1>4, <4>5, <4>6
    <3>. QED
      BY <3>1, <3>2
  <2>. QED
    BY <2>1, <2>2, <2>3, <2>4
<1>11. astray' \in BOOLEAN /\ mixed' \in BOOLEAN
  BY <1>1, <1>4
<1>. QED
  BY <1>3, <1>4, <1>6, <1>7, <1>9, <1>10, <1>11 DEF Drawn

\* The loads under way after that.
FlightsFollow(u, left, asked, f) ==
  /\ \A n \in 1..Len(f) :
        \/ n \in 1..Len(left) /\ f[n] = left[n]
        \/ \E k \in 1..Len(asked) : n = Len(left) + k /\ f[n] = asked[k]
        \/ IsEffect(u, f[n])
  /\ \A k \in 1..Len(left) : \E n \in 1..Len(f) : f[n] = left[k]
  /\ \A k \in 1..Len(asked) : \E n \in 1..Len(f) : f[n] = asked[k]
  /\ Moved(u) => \E n \in 1..Len(f) : f[n].what = "list"

LEMMA FlightsAfter ==
  ASSUME NEW u \in EditorPages, NEW left \in Seq(Flying), NEW asked \in Seq(Flying),
         editorFlights' = left \o AllAsked(u, asked)
  PROVE  FlightsFollow(u, left, asked, editorFlights')
<1>1. PICK m \in Seq(Flying) :
        /\ m = AllAsked(u, asked)
        /\ \A n \in 1..Len(m) : (n \in 1..Len(asked) /\ m[n] = asked[n]) \/ IsEffect(u, m[n])
        /\ \A n \in 1..Len(asked) : n \in 1..Len(m) /\ m[n] = asked[n]
        /\ Moved(u) => \E n \in 1..Len(m) : m[n].what = "list"
  BY AsksAre
<1>2. editorFlights' = left \o m
  BY <1>1
<1>3. /\ \A n \in 1..Len(left) : n \in 1..Len(left \o m) /\ (left \o m)[n] = left[n]
      /\ \A n \in 1..Len(m) :
           Len(left) + n \in 1..Len(left \o m) /\ (left \o m)[Len(left) + n] = m[n]
      /\ \A n \in 1..Len(left \o m) :
           \/ n \in 1..Len(left) /\ (left \o m)[n] = left[n]
           \/ \E k \in 1..Len(m) : n = Len(left) + k /\ (left \o m)[n] = m[k]
  BY Joined
<1>4. \A n \in 1..Len(left \o m) :
        \/ n \in 1..Len(left) /\ (left \o m)[n] = left[n]
        \/ \E k \in 1..Len(asked) : n = Len(left) + k /\ (left \o m)[n] = asked[k]
        \/ IsEffect(u, (left \o m)[n])
  <2>. TAKE n \in 1..Len(left \o m)
  <2>1. CASE n \in 1..Len(left) /\ (left \o m)[n] = left[n]
    BY <2>1
  <2>2. CASE \E k \in 1..Len(m) : n = Len(left) + k /\ (left \o m)[n] = m[k]
    <3>1. PICK k \in 1..Len(m) : n = Len(left) + k /\ (left \o m)[n] = m[k]
      BY <2>2
    <3>2. CASE k \in 1..Len(asked) /\ m[k] = asked[k]
      BY <3>1, <3>2
    <3>3. CASE IsEffect(u, m[k])
      BY <3>1, <3>3
    <3>. QED
      BY <1>1, <3>2, <3>3
  <2>. QED
    BY <1>3, <2>1, <2>2
<1>5. \A k \in 1..Len(left) : \E n \in 1..Len(left \o m) : (left \o m)[n] = left[k]
  BY <1>3
<1>6. \A k \in 1..Len(m) : \E n \in 1..Len(left \o m) : (left \o m)[n] = m[k]
  BY <1>3
<1>7. \A k \in 1..Len(asked) : \E n \in 1..Len(left \o m) : (left \o m)[n] = asked[k]
  <2>. TAKE k \in 1..Len(asked)
  <2>1. k \in 1..Len(m) /\ m[k] = asked[k]
    BY <1>1
  <2>. QED
    BY <1>6, <2>1
<1>8. Moved(u) => \E n \in 1..Len(left \o m) : (left \o m)[n].what = "list"
  <2>. HAVE Moved(u)
  <2>1. PICK k \in 1..Len(m) : m[k].what = "list"
    BY <1>1
  <2>2. PICK n \in 1..Len(left \o m) : (left \o m)[n] = m[k]
    BY <1>6
  <2>3. (left \o m)[n].what = "list"
    BY <2>1, <2>2
  <2>. QED
    BY <2>3
<1>. QED
  BY <1>2, <1>4, <1>5, <1>7, <1>8 DEF FlightsFollow

\* What a handler has to see to, of the loads it leaves, those it asks for,
\* and the view.
Awaited(fs) ==
  /\ \A n \in 1..Len(fs) : /\ fs[n].by = "submit" => submit'.at = fs[n].what
                           /\ fs[n].by = "delete" => remove'.at = fs[n].what
  /\ \A n, k \in 1..Len(fs) : fs[n].by = fs[k].by => n = k \/ fs[n].by = "effect"
OnlyOneOf(left, asked) ==
  \A n \in 1..Len(left), k \in 1..Len(asked) :
    left[n].by = asked[k].by => asked[k].by = "effect"
OfView(fs, u) ==
  \A n \in 1..Len(fs) : fs[n].what = "list" =>
    /\ fs[n].view = u.view
    /\ fs[n].read => fs[n].rows = Editor!InView(u.view, staff')
ListsEnd(u, left, asked) ==
  /\ \A n \in 1..Len(left) : left[n].what # "list"
  /\ \A n \in 1..Len(asked) : asked[n].what # "list"
  /\ ~ Moved(u) /\ submit'.at # "done" /\ remove'.at \notin {"done", "evidence"}

LEMMA PageKeeps ==
  ASSUME NEW u \in EditorPages, NEW left \in Seq(Flying), NEW asked \in Seq(Flying),
         Drawn(u, left, asked),
         staff' \in SUBSET Editor!Emps, submit' \in Commands, remove' \in Commands,
         crowded' \in BOOLEAN,
         Awaited(left), Awaited(asked), OnlyOneOf(left, asked),
         ~ crowded' =>
           /\ OfView(left, u) /\ OfView(asked, u)
           /\ submit'.at # "none" => submit'.view = u.view
           /\ remove'.at # "none" => remove'.view = u.view
           /\ ListsEnd(u, left, asked) => u.broken \/ u.rows = Editor!InView(u.view, staff')
  PROVE  EditorInv'
<1>1. /\ ui' \in EditorPages /\ ui'.view = u.view /\ ui'.rows = u.rows /\ ui'.broken = u.broken
      /\ editorFlights' = left \o AllAsked(u, asked) /\ editorFlights' \in Seq(Flying)
      /\ astray' \in BOOLEAN /\ mixed' \in BOOLEAN
      /\ DraftOfSelected' /\ EvidenceFollows'
  BY DEF Drawn
<1>2. EditorTypes'
  BY <1>1 DEF EditorTypes
<1>f. editorFlights' \in Seq(Flying) /\ FlightsFollow(u, left, asked, editorFlights')
  BY <1>1, FlightsAfter
<1>3. PICK f \in Seq(Flying) :
        /\ f = editorFlights'
        /\ \A n \in 1..Len(f) :
              \/ n \in 1..Len(left) /\ f[n] = left[n]
              \/ \E k \in 1..Len(asked) : n = Len(left) + k /\ f[n] = asked[k]
              \/ IsEffect(u, f[n])
        /\ \A k \in 1..Len(left) : \E n \in 1..Len(f) : f[n] = left[k]
        /\ \A k \in 1..Len(asked) : \E n \in 1..Len(f) : f[n] = asked[k]
        /\ Moved(u) => \E n \in 1..Len(f) : f[n].what = "list"
  <2>1. PICK f \in Seq(Flying) : f = editorFlights' /\ FlightsFollow(u, left, asked, f)
    BY <1>f
  <2>. QED
    BY <2>1 DEF FlightsFollow
<1>4. CommandsAwait'
  <2>1. ASSUME NEW n \in 1..Len(f)
        PROVE  /\ f[n].by = "submit" => submit'.at = f[n].what
               /\ f[n].by = "delete" => remove'.at = f[n].what
    <3>1. CASE n \in 1..Len(left) /\ f[n] = left[n]
      BY <3>1 DEF Awaited
    <3>2. CASE \E k \in 1..Len(asked) : f[n] = asked[k]
      BY <3>2 DEF Awaited
    <3>3. CASE IsEffect(u, f[n])
      BY <3>3 DEF IsEffect
    <3>. QED
      BY <1>3, <3>1, <3>2, <3>3
  <2>2. ASSUME NEW n \in 1..Len(f), NEW k \in 1..Len(f), f[n].by = f[k].by, f[n].by # "effect"
        PROVE  n = k
    <3>1. /\ \/ n \in 1..Len(left) /\ f[n] = left[n]
             \/ \E i \in 1..Len(asked) : n = Len(left) + i /\ f[n] = asked[i]
          /\ \/ k \in 1..Len(left) /\ f[k] = left[k]
             \/ \E i \in 1..Len(asked) : k = Len(left) + i /\ f[k] = asked[i]
      BY <1>3, <2>2 DEF IsEffect
    <3>2. CASE n \in 1..Len(left) /\ f[n] = left[n]
      <4>1. CASE k \in 1..Len(left) /\ f[k] = left[k]
        BY <2>2, <3>2, <4>1 DEF Awaited
      <4>2. CASE \E i \in 1..Len(asked) : k = Len(left) + i /\ f[k] = asked[i]
        BY <2>2, <3>2, <4>2 DEF OnlyOneOf
      <4>. QED
        BY <3>1, <4>1, <4>2
    <3>3. CASE \E i \in 1..Len(asked) : n = Len(left) + i /\ f[n] = asked[i]
      <4>1. PICK i \in 1..Len(asked) : n = Len(left) + i /\ f[n] = asked[i]
        BY <3>3
      <4>2. CASE k \in 1..Len(left) /\ f[k] = left[k]
        <5>1. left[k].by = asked[i].by /\ asked[i].by # "effect"
          BY <2>2, <4>1, <4>2
        <5>. QED
          BY <4>2, <5>1 DEF OnlyOneOf
      <4>3. CASE \E j \in 1..Len(asked) : k = Len(left) + j /\ f[k] = asked[j]
        <5>1. PICK j \in 1..Len(asked) : k = Len(left) + j /\ f[k] = asked[j]
          BY <4>3
        <5>2. i = j
          BY <2>2, <4>1, <5>1 DEF Awaited
        <5>. QED
          BY <4>1, <5>1, <5>2
      <4>. QED
        BY <3>1, <4>2, <4>3
    <3>. QED
      BY <3>1, <3>2, <3>3
  <2>. QED
    BY <1>3, <2>1, <2>2 DEF CommandsAwait
<1>5. RowsAgree'
  <2>. SUFFICES ASSUME ~ crowded'
                PROVE  ListsOfView' /\ CommandsOfView' /\ RowsOfView'
    BY DEF RowsAgree
  <2>1. /\ OfView(left, u) /\ OfView(asked, u)
        /\ ListsEnd(u, left, asked) => u.broken \/ u.rows = Editor!InView(u.view, staff')
    OBVIOUS
  <2>2. ASSUME NEW n \in 1..Len(f), f[n].what = "list"
        PROVE  /\ f[n].view = u.view
               /\ f[n].read => f[n].rows = Editor!InView(u.view, staff')
    <3>1. CASE n \in 1..Len(left) /\ f[n] = left[n]
      BY <2>1, <2>2, <3>1 DEF OfView
    <3>2. CASE \E k \in 1..Len(asked) : f[n] = asked[k]
      BY <2>1, <2>2, <3>2 DEF OfView
    <3>3. CASE IsEffect(u, f[n])
      BY <2>2, <3>3 DEF IsEffect
    <3>. QED
      BY <1>3, <3>1, <3>2, <3>3
  <2>3. Editor!InView(ui.view, staff)' = Editor!InView(u.view, staff')
    BY <1>1 DEF Editor!InView
  <2>4. ListsOfView'
    BY <1>1, <1>3, <2>2, <2>3 DEF ListsOfView
  <2>5. CommandsOfView'
    BY <1>1 DEF CommandsOfView
  <2>6. NoListToCome' => ListsEnd(u, left, asked)
    <3>. SUFFICES ASSUME NoListToCome'
                  PROVE  ListsEnd(u, left, asked)
      OBVIOUS
    <3>1. /\ \A n \in 1..Len(f) : f[n].what # "list"
          /\ submit'.at # "done" /\ remove'.at \notin {"done", "evidence"}
      BY <1>3 DEF NoListToCome
    <3>2. \A n \in 1..Len(left) : left[n].what # "list"
      BY <1>3, <3>1
    <3>3. \A n \in 1..Len(asked) : asked[n].what # "list"
      BY <1>3, <3>1
    <3>4. ~ Moved(u)
      BY <1>3, <3>1
    <3>. QED
      BY <3>1, <3>2, <3>3, <3>4 DEF ListsEnd
  <2>7. RowsOfView'
    BY <1>1, <2>1, <2>3, <2>6 DEF RowsOfView
  <2>. QED
    BY <2>4, <2>5, <2>7
<1>. QED
  BY <1>1, <1>2, <1>4, <1>5 DEF EditorInv

\* What is known of the page, in the terms the steps need.
LEMMA EditorKnown ==
  ASSUME EditorInv
  PROVE  /\ staff \in SUBSET Editor!Emps /\ ui \in EditorPages
         /\ editorFlights \in Seq(Flying) /\ DOMAIN editorFlights = 1..Len(editorFlights)
         /\ submit \in Commands /\ remove \in Commands /\ crowded \in BOOLEAN
  BY DEF EditorInv, EditorTypes

LEMMA FlightsAre ==
  ASSUME EditorInv, NEW n \in 1..Len(editorFlights)
  PROVE  /\ editorFlights[n] \in Flying
         /\ editorFlights[n].what \in {"list", "evidence"} /\ editorFlights[n].sel \in Named
         /\ editorFlights[n].view \in Editor!Views
         /\ editorFlights[n].by \in {"effect", "submit", "delete"}
         /\ editorFlights[n].rows \in SUBSET Editor!Emps
<1>1. editorFlights[n] \in Flying
  BY EditorKnown
<1>. QED
  BY <1>1 DEF Flying

LEMMA NothingAsked ==
  /\ <<>> \in Seq(Flying) /\ 1..Len(<<>>) = {}
  /\ Awaited(<<>>) /\ \A left : OnlyOneOf(left, <<>>)
  /\ \A u : OfView(<<>>, u)
<1>1. <<>> \in Seq(Flying) /\ 1..Len(<<>>) = {}
  OBVIOUS
<1>. QED
  BY <1>1 DEF Awaited, OnlyOneOf, OfView

LEMMA OneAsked ==
  ASSUME NEW f \in Flying
  PROVE  <<f>> \in Seq(Flying) /\ Len(<<f>>) = 1 /\ 1..Len(<<f>>) = {1} /\ <<f>>[1] = f
OBVIOUS

\* A step that leaves the loads under way, and where the commands are.
LEMMA LoadsStand ==
  ASSUME EditorInv, UNCHANGED <<remove, staff>>, submit'.at = submit.at
  PROVE  /\ Awaited(editorFlights)
         /\ \A u : ~ crowded /\ u.view = ui.view => OfView(editorFlights, u)
<1>1. Awaited(editorFlights)
  BY DEF EditorInv, CommandsAwait, Awaited
<1>2. \A u : ~ crowded /\ u.view = ui.view => OfView(editorFlights, u)
  BY DEF EditorInv, RowsAgree, ListsOfView, OfView, Editor!InView
<1>. QED
  BY <1>1, <1>2

LEMMA SameFormKeeps ==
  ASSUME EditorInv, NEW key,
         submit' = [submit EXCEPT !.same = @ /\ Editor!Key(ui) = key]
  PROVE  submit' \in Commands /\ submit'.at = submit.at /\ submit'.view = submit.view
<1>1. PICK c \in Commands : c = submit
  BY EditorKnown
<1>2. PICK b \in BOOLEAN : b = (c.same /\ Editor!Key(ui) = key)
  BY DEF Commands
<1>3. submit' = [c EXCEPT !.same = b]
  BY <1>1, <1>2
<1>4. /\ [c EXCEPT !.same = b] \in Commands /\ [c EXCEPT !.same = b].at = c.at
      /\ [c EXCEPT !.same = b].view = c.view
  BY DEF Commands
<1>. QED
  BY <1>1, <1>3, <1>4

LEMMA ChooseViewKeeps ==
  ASSUME EditorAssumption, EditorInv, NEW v \in Editor!Views, Editor!ChooseView(v)
  PROVE  EditorInv'
<1>1. PICK p \in EditorPages : p = ui
  BY EditorKnown
<1>2. PICK u \in EditorPages :
        /\ u = [ui EXCEPT !.view = v] /\ u.view = v /\ u.sel = p.sel /\ u.mode = p.mode
        /\ u.rows = p.rows /\ u.broken = p.broken /\ u.draft = p.draft /\ u.ev = p.ev
  <2>1. /\ [p EXCEPT !.view = v] \in EditorPages /\ [p EXCEPT !.view = v].view = v
        /\ [p EXCEPT !.view = v].sel = p.sel /\ [p EXCEPT !.view = v].mode = p.mode
        /\ [p EXCEPT !.view = v].rows = p.rows /\ [p EXCEPT !.view = v].broken = p.broken
        /\ [p EXCEPT !.view = v].draft = p.draft /\ [p EXCEPT !.view = v].ev = p.ev
    BY DEF EditorPages
  <2>. QED
    BY <1>1, <2>1
<1>3. /\ v # ui.view /\ Editor!Renders(u, editorFlights, <<>>)
      /\ crowded' = (crowded \/ Editor!Busy) /\ UNCHANGED <<staff, submit, remove>>
  BY <1>2 DEF Editor!ChooseView, Editor!Crowds
<1>4. Drawn(u, editorFlights, <<>>)
  <2>1. OpensARow(u) /\ u.draft \in {ui.draft, Nobody}
    BY <1>1, <1>2 DEF OpensARow
  <2>2. u.mode = "edit" /\ ~ mixed => u.ev \in {Nobody, u.sel}
    BY <1>1, <1>2 DEF EditorInv, EvidenceFollows
  <2>. QED
    BY <1>3, <2>1, <2>2, NothingAsked, EditorKnown, PageRenders
<1>5. Awaited(editorFlights)
  BY <1>3, LoadsStand
<1>6. ASSUME ~ crowded'
      PROVE  /\ \A n \in 1..Len(editorFlights) : editorFlights[n].what # "list"
             /\ submit'.at = "none" /\ remove'.at = "none"
  <2>1. ~ Editor!ListUnderWay(editorFlights) /\ submit.at = "none" /\ remove.at = "none"
    BY <1>3, <1>6 DEF Editor!Busy
  <2>2. \A n \in 1..Len(editorFlights) : editorFlights[n] \in Editor!ToSet(editorFlights)
    BY EditorKnown DEF Editor!ToSet
  <2>. QED
    BY <1>3, <2>1, <2>2 DEF Editor!ListUnderWay
<1>7. Moved(u)
  BY <1>2, <1>3 DEF Moved
<1>. QED
  <2>1. ~ crowded' => OfView(editorFlights, u)
    BY <1>6 DEF OfView
  <2>2. staff' \in SUBSET Editor!Emps /\ submit' \in Commands /\ remove' \in Commands
        /\ crowded' \in BOOLEAN
    BY <1>3, EditorKnown
  <2>. QED
    BY <1>4, <1>5, <1>6, <1>7, <2>1, <2>2, NothingAsked, EditorKnown, PageKeeps DEF ListsEnd

\* A step of the page that leaves the view, the rows and the commands.
LEMMA PageStays ==
  ASSUME EditorAssumption, EditorInv, NEW u \in EditorPages, NEW asked \in Seq(Flying),
         u.view = ui.view, u.rows = ui.rows, u.broken = ui.broken, u.draft = ui.draft,
         OpensARow(u), u.mode = "edit" => u.ev \in {ui.ev, Nobody, u.sel},
         u.mode = "edit" /\ u.ev = ui.ev =>
           (ui.mode = "edit" /\ u.sel = ui.sel) \/ u.ev \in {Nobody, u.sel},
         Editor!Renders(u, editorFlights, asked),
         \A n \in 1..Len(asked) :
           asked[n].by = "effect" /\ (asked[n].what = "list" => asked[n].view = ui.view /\ ~ asked[n].read),
         UNCHANGED <<staff, remove, crowded>>, submit' \in Commands, submit'.at = submit.at,
         submit'.view = submit.view
  PROVE  EditorInv'
<1>1. Drawn(u, editorFlights, asked)
  <2>1. u.mode = "edit" /\ ~ mixed => u.ev \in {Nobody, u.sel}
    BY DEF EditorInv, EvidenceFollows
  <2>. QED
    BY <2>1, EditorKnown, PageRenders
<1>2. Awaited(editorFlights) /\ (~ crowded => OfView(editorFlights, u))
  BY LoadsStand
<1>3. Awaited(asked) /\ OnlyOneOf(editorFlights, asked) /\ OfView(asked, u)
  BY DEF Awaited, OnlyOneOf, OfView
<1>4. ~ crowded => /\ submit'.at # "none" => submit'.view = u.view
                   /\ remove'.at # "none" => remove'.view = u.view
  BY DEF EditorInv, RowsAgree, CommandsOfView
<1>5. ~ crowded /\ ListsEnd(u, editorFlights, asked) =>
        u.broken \/ u.rows = Editor!InView(u.view, staff')
  BY DEF EditorInv, RowsAgree, RowsOfView, NoListToCome, ListsEnd
<1>6. staff' \in SUBSET Editor!Emps /\ remove' \in Commands /\ crowded' \in BOOLEAN
  BY EditorKnown
<1>. QED
  BY <1>1, <1>2, <1>3, <1>4, <1>5, <1>6, EditorKnown, PageKeeps

LEMMA EditKeeps ==
  ASSUME EditorAssumption, EditorInv, NEW e \in Editor!Emps, Editor!Edit(e)
  PROVE  EditorInv'
<1>1. PICK p \in EditorPages : p = ui
  BY EditorKnown
<1>2. e \in Named
  BY DEF Named
<1>3. PICK u \in EditorPages :
        /\ u = [ui EXCEPT !.mode = "edit", !.sel = e, !.ev = Nobody, !.evFor = e]
        /\ u.view = p.view /\ u.sel = e /\ u.mode = "edit"
        /\ u.rows = p.rows /\ u.broken = p.broken /\ u.draft = p.draft /\ u.ev = Nobody
  <2>. DEFINE z == [p EXCEPT !.mode = "edit", !.sel = e, !.ev = Nobody, !.evFor = e]
  <2>1. /\ z \in EditorPages /\ z.view = p.view /\ z.sel = e /\ z.mode = "edit"
        /\ z.rows = p.rows /\ z.broken = p.broken /\ z.draft = p.draft /\ z.ev = Nobody
    BY <1>2 DEF EditorPages, Modes, Named
  <2>2. z = [ui EXCEPT !.mode = "edit", !.sel = e, !.ev = Nobody, !.evFor = e]
    BY <1>1
  <2>. HIDE DEF z
  <2>. QED
    BY <2>1, <2>2
<1>4. /\ e \in ui.rows /\ Editor!Renders(u, editorFlights, <<>>)
      /\ submit' = [submit EXCEPT !.same = @ /\ Editor!Key(ui) = <<"edit", e>>]
      /\ UNCHANGED <<staff, remove, crowded>>
  BY <1>3 DEF Editor!Edit
<1>5. submit' \in Commands /\ submit'.at = submit.at /\ submit'.view = submit.view
  BY <1>4, SameFormKeeps
<1>6. OpensARow(u)
  BY <1>1, <1>3, <1>4 DEF OpensARow
<1>. QED
  BY <1>1, <1>3, <1>4, <1>5, <1>6, NothingAsked, PageStays

LEMMA LeaveKeeps ==
  ASSUME EditorAssumption, EditorInv, NEW m \in {"create", "hidden"}, Editor!Leave(m)
  PROVE  EditorInv'
<1>1. PICK p \in EditorPages : p = ui
  BY EditorKnown
<1>2. PICK u \in EditorPages :
        /\ u = [Editor!NoEvidence(ui) EXCEPT !.mode = m, !.sel = Nobody]
        /\ u.view = p.view /\ u.sel = Nobody /\ u.mode = m
        /\ u.rows = p.rows /\ u.broken = p.broken /\ u.draft = p.draft /\ u.ev = Nobody
  <2>. DEFINE z == [p EXCEPT !.ev = Nobody, !.evFor = Nobody, !.mode = m, !.sel = Nobody]
  <2>1. /\ z \in EditorPages /\ z.view = p.view /\ z.sel = Nobody /\ z.mode = m
        /\ z.rows = p.rows /\ z.broken = p.broken /\ z.draft = p.draft /\ z.ev = Nobody
    BY DEF EditorPages, Modes, Named
  <2>2. z = [Editor!NoEvidence(ui) EXCEPT !.mode = m, !.sel = Nobody]
    BY <1>1 DEF Editor!NoEvidence
  <2>. HIDE DEF z
  <2>. QED
    BY <2>1, <2>2
<1>3. /\ Editor!Renders(u, editorFlights, <<>>)
      /\ submit' = [submit EXCEPT !.same = @ /\ Editor!Key(ui) = <<m, Nobody>>]
      /\ UNCHANGED <<staff, remove, crowded>>
  BY <1>2 DEF Editor!Leave
<1>4. submit' \in Commands /\ submit'.at = submit.at /\ submit'.view = submit.view
  BY <1>3, SameFormKeeps
<1>5. OpensARow(u) /\ u.mode # "edit"
  BY <1>2 DEF OpensARow
<1>. QED
  BY <1>1, <1>2, <1>3, <1>4, <1>5, NothingAsked, PageStays

LEMMA RefreshListKeeps ==
  ASSUME EditorAssumption, EditorInv, Editor!Refresh
  PROVE  EditorInv'
<1>1. PICK p \in EditorPages : p = ui
  BY EditorKnown
<1>2. /\ p.view \in Editor!Views /\ p.sel \in Named /\ p.mode \in Modes /\ p.evFor \in Named
      /\ FALSE \in BOOLEAN /\ "effect" \in {"effect", "submit", "delete"}
  BY DEF EditorPages
<1>3. PICK l \in Flying : /\ l = Editor!List(p.view, p.sel, p.mode, FALSE, "effect")
                          /\ l.what = "list" /\ l.view = p.view /\ l.by = "effect" /\ ~ l.read
  <2>1. /\ Editor!List(p.view, p.sel, p.mode, FALSE, "effect") \in Flying
        /\ Editor!List(p.view, p.sel, p.mode, FALSE, "effect").what = "list"
        /\ Editor!List(p.view, p.sel, p.mode, FALSE, "effect").view = p.view
        /\ Editor!List(p.view, p.sel, p.mode, FALSE, "effect").by = "effect"
        /\ ~ Editor!List(p.view, p.sel, p.mode, FALSE, "effect").read
    BY <1>2, ListFlies
  <2>. QED
    BY <2>1
<1>4. PICK v \in Flying : /\ v = Editor!Evidence(p.evFor, "effect")
                          /\ v.what = "evidence" /\ v.by = "effect"
  BY <1>2, EvidenceFlies
<1>5. PICK asked \in Seq(Flying) :
        /\ Editor!Renders(p, editorFlights, asked)
        /\ \A n \in 1..Len(asked) : asked[n] = l \/ asked[n] = v
  <2>1. Editor!Renders(p, editorFlights, <<l>> \o (IF p.evFor = Nobody THEN <<>> ELSE <<v>>))
    BY <1>1, <1>3, <1>4 DEF Editor!Refresh
  <2>2. CASE p.evFor = Nobody
    <3>1. <<l>> \o <<>> \in Seq(Flying) /\ \A n \in 1..Len(<<l>> \o <<>>) : (<<l>> \o <<>>)[n] = l
      OBVIOUS
    <3>. QED
      BY <2>1, <2>2, <3>1
  <2>3. CASE p.evFor # Nobody
    <3>1. /\ <<l>> \o <<v>> \in Seq(Flying)
          /\ \A n \in 1..Len(<<l>> \o <<v>>) : (<<l>> \o <<v>>)[n] \in {l, v}
      OBVIOUS
    <3>. QED
      BY <2>1, <2>3, <3>1
  <2>. QED
    BY <2>2, <2>3
<1>6. UNCHANGED <<staff, submit, remove, crowded>>
  BY DEF Editor!Refresh
<1>7. p.mode = "edit" => p.ev = ui.ev /\ ui.mode = "edit" /\ p.sel = ui.sel
  BY <1>1
<1>. QED
  BY <1>1, <1>3, <1>4, <1>5, <1>6, <1>7, EditorKnown, PageStays DEF OpensARow

LEMMA EvidenceAgainKeeps ==
  ASSUME EditorAssumption, EditorInv, Editor!EvidenceAgain
  PROVE  EditorInv'
<1>1. PICK p \in EditorPages : p = ui
  BY EditorKnown
<1>2. PICK e \in Named :
        /\ Editor!Renders(p, editorFlights, <<Editor!Evidence(e, "effect")>>)
        /\ UNCHANGED <<staff, submit, remove, crowded>>
  <2>. DEFINE named == IF p.ev # Nobody THEN p.ev ELSE IF p.evFor # Nobody THEN p.evFor ELSE p.sel
  <2>1. named \in Named
    BY DEF EditorPages
  <2>2. /\ Editor!Renders(p, editorFlights, <<Editor!Evidence(named, "effect")>>)
        /\ UNCHANGED <<staff, submit, remove, crowded>>
    BY <1>1 DEF Editor!EvidenceAgain
  <2>. HIDE DEF named
  <2>. QED
    BY <2>1, <2>2
<1>3. "effect" \in {"effect", "submit", "delete"}
  OBVIOUS
<1>4. PICK v \in Flying : /\ v = Editor!Evidence(e, "effect")
                          /\ v.what = "evidence" /\ v.by = "effect"
  BY <1>3, EvidenceFlies
<1>5. <<v>> \in Seq(Flying) /\ \A n \in 1..Len(<<v>>) : <<v>>[n] = v
  BY OneAsked
<1>6. p.mode = "edit" => p.ev = ui.ev /\ ui.mode = "edit" /\ p.sel = ui.sel
  BY <1>1
<1>. QED
  BY <1>1, <1>2, <1>4, <1>5, <1>6, EditorKnown, PageStays DEF OpensARow

\* A step of the service, or a command that is sent: the page stays as it is.
LEMMA ServiceKeeps ==
  ASSUME EditorInv, UNCHANGED <<ui, astray, mixed>>,
         staff' \in SUBSET Editor!Emps, submit' \in Commands, remove' \in Commands,
         crowded' \in BOOLEAN, editorFlights' \in Seq(Flying), CommandsAwait',
         Len(editorFlights') = Len(editorFlights),
         \A n \in 1..Len(editorFlights) : /\ editorFlights'[n].what = editorFlights[n].what
                                          /\ editorFlights'[n].sel = editorFlights[n].sel,
         ~ crowded' => ListsOfView' /\ CommandsOfView' /\ RowsOfView'
  PROVE  EditorInv'
<1>1. EditorTypes'
  BY DEF EditorInv, EditorTypes
<1>2. DraftOfSelected'
  BY DEF EditorInv, DraftOfSelected, Editor!IsEditing, Editor!Edited
<1>3. EvidenceFollows'
  BY DEF EditorInv, EvidenceFollows
<1>. QED
  BY <1>1, <1>2, <1>3 DEF EditorInv, RowsAgree

LEMMA SubmitKeeps ==
  ASSUME EditorInv, Editor!Submit
  PROVE  EditorInv'
<1>1. PICK p \in EditorPages : p = ui
  BY EditorKnown
<1>2. /\ submit.at = "none"
      /\ submit' = [at |-> "sent", kind |-> IF Editor!IsEditing(p) THEN "update" ELSE "create",
                    emp |-> p.sel, draft |-> p.draft, view |-> p.view, sel |-> p.sel,
                    mode |-> p.mode, last |-> FALSE, same |-> TRUE]
      /\ UNCHANGED <<staff, ui, editorFlights, remove, astray, crowded, mixed>>
  BY <1>1 DEF Editor!Submit
<1>3. PICK k \in {"update", "create"} : k = IF Editor!IsEditing(p) THEN "update" ELSE "create"
  OBVIOUS
<1>4. /\ submit' \in Commands /\ submit'.at = "sent" /\ submit'.view = p.view
  <2>. DEFINE z == [at |-> "sent", kind |-> k, emp |-> p.sel, draft |-> p.draft,
                    view |-> p.view, sel |-> p.sel, mode |-> p.mode, last |-> FALSE, same |-> TRUE]
  <2>1. z \in Commands /\ z.at = "sent" /\ z.view = p.view
    BY DEF Commands, EditorPages
  <2>2. submit' = z
    BY <1>2, <1>3
  <2>. HIDE DEF z
  <2>. QED
    BY <2>1, <2>2
<1>5. CommandsAwait'
  <2>1. \A n \in 1..Len(editorFlights) : editorFlights[n].by # "submit"
    <3>1. \A n \in 1..Len(editorFlights) : editorFlights[n].what \in {"list", "evidence"}
      BY FlightsAre
    <3>. QED
      BY <1>2, <3>1 DEF EditorInv, CommandsAwait
  <2>. QED
    BY <1>2, <2>1 DEF EditorInv, CommandsAwait
<1>6. ~ crowded' => ListsOfView' /\ CommandsOfView' /\ RowsOfView'
  <2>1. ~ crowded' => ListsOfView'
    BY <1>2 DEF EditorInv, RowsAgree, ListsOfView, Editor!InView
  <2>2. ~ crowded' => CommandsOfView'
    BY <1>1, <1>2, <1>4 DEF EditorInv, RowsAgree, CommandsOfView
  <2>3. ~ crowded' => RowsOfView'
    BY <1>2, <1>4 DEF EditorInv, RowsAgree, RowsOfView, NoListToCome, Editor!InView
  <2>. QED
    BY <2>1, <2>2, <2>3
<1>. QED
  BY <1>2, <1>4, <1>5, <1>6, EditorKnown, ServiceKeeps

LEMMA DeleteKeeps ==
  ASSUME EditorInv, NEW e \in Editor!Emps, Editor!Delete(e)
  PROVE  EditorInv'
<1>1. PICK p \in EditorPages : p = ui
  BY EditorKnown
<1>2. /\ remove.at = "none"
      /\ remove' = [at |-> "sent", kind |-> "delete", emp |-> e, draft |-> Nobody,
                    view |-> p.view, sel |-> p.sel, mode |-> p.mode,
                    last |-> Editor!Cardinality(p.rows) = 1, same |-> FALSE]
      /\ UNCHANGED <<staff, ui, editorFlights, submit, astray, crowded, mixed>>
  BY <1>1 DEF Editor!Delete
<1>3. PICK b \in BOOLEAN : b = (Editor!Cardinality(p.rows) = 1)
  OBVIOUS
<1>4. /\ remove' \in Commands /\ remove'.at = "sent" /\ remove'.view = p.view
  <2>. DEFINE z == [at |-> "sent", kind |-> "delete", emp |-> e, draft |-> Nobody,
                    view |-> p.view, sel |-> p.sel, mode |-> p.mode, last |-> b, same |-> FALSE]
  <2>1. z \in Commands /\ z.at = "sent" /\ z.view = p.view
    BY DEF Commands, EditorPages, Named
  <2>2. remove' = z
    BY <1>2, <1>3
  <2>. HIDE DEF z
  <2>. QED
    BY <2>1, <2>2
<1>5. CommandsAwait'
  <2>1. \A n \in 1..Len(editorFlights) : editorFlights[n].by # "delete"
    <3>1. \A n \in 1..Len(editorFlights) : editorFlights[n].what \in {"list", "evidence"}
      BY FlightsAre
    <3>. QED
      BY <1>2, <3>1 DEF EditorInv, CommandsAwait
  <2>. QED
    BY <1>2, <2>1 DEF EditorInv, CommandsAwait
<1>6. ~ crowded' => ListsOfView' /\ CommandsOfView' /\ RowsOfView'
  <2>1. ~ crowded' => ListsOfView'
    BY <1>2 DEF EditorInv, RowsAgree, ListsOfView, Editor!InView
  <2>2. ~ crowded' => CommandsOfView'
    BY <1>1, <1>2, <1>4 DEF EditorInv, RowsAgree, CommandsOfView
  <2>3. ~ crowded' => RowsOfView'
    BY <1>2, <1>4 DEF EditorInv, RowsAgree, RowsOfView, NoListToCome, Editor!InView
  <2>. QED
    BY <2>1, <2>2, <2>3
<1>. QED
  BY <1>2, <1>4, <1>5, <1>6, EditorKnown, ServiceKeeps

\* The service turns a command: the lists read are no longer true if it
\* changed what is stored, and then the view is crowded.
LEMMA TurnKeeps ==
  ASSUME EditorInv, UNCHANGED <<ui, editorFlights, astray, mixed>>,
         staff' \in SUBSET Editor!Emps, submit' \in Commands, remove' \in Commands,
         CommandsAwait',
         crowded' = (crowded \/ (staff' # staff /\ Editor!ListRead(editorFlights))),
         submit'.at # "none" => submit.at # "none" /\ submit'.view = submit.view,
         remove'.at # "none" => remove.at # "none" /\ remove'.view = remove.view,
         submit.at # submit'.at => submit.at \notin {"done"},
         remove.at # remove'.at => remove.at \notin {"done", "evidence"},
         staff' # staff => submit'.at = "done" \/ remove'.at = "done"
  PROVE  EditorInv'
<1>1. crowded' \in BOOLEAN
  BY EditorKnown
<1>2. ASSUME ~ crowded'
      PROVE  ListsOfView' /\ CommandsOfView' /\ RowsOfView'
  <2>1. /\ ~ crowded /\ ListsOfView /\ CommandsOfView /\ RowsOfView
        /\ staff' = staff \/ ~ Editor!ListRead(editorFlights)
    BY <1>2 DEF EditorInv, RowsAgree
  <2>2. \A n \in 1..Len(editorFlights) : editorFlights[n] \in Editor!ToSet(editorFlights)
    BY EditorKnown DEF Editor!ToSet
  <2>3. ListsOfView'
    BY <2>1, <2>2 DEF ListsOfView, Editor!ListRead, Editor!InView
  <2>4. CommandsOfView'
    BY <2>1 DEF CommandsOfView
  <2>5. RowsOfView'
    BY <2>1 DEF RowsOfView, NoListToCome, Editor!InView
  <2>. QED
    BY <2>3, <2>4, <2>5
<1>. QED
  BY <1>1, <1>2, EditorKnown, ServiceKeeps

\* The command d is c, turned to a.
TurnedTo(d, c, a) == d \in Commands /\ d.at = a /\ d.view = c.view

LEMMA CommandTurns ==
  ASSUME NEW c \in Commands, NEW a \in {"none", "sent", "done", "failed", "list", "evidence"},
         NEW e \in Named
  PROVE  TurnedTo([c EXCEPT !.at = a], c, a) /\ TurnedTo([c EXCEPT !.at = a, !.emp = e], c, a)
<1>1. /\ [c EXCEPT !.at = a] \in Commands /\ [c EXCEPT !.at = a].at = a
      /\ [c EXCEPT !.at = a].view = c.view
  BY DEF Commands
<1>2. /\ [c EXCEPT !.at = a, !.emp = e] \in Commands /\ [c EXCEPT !.at = a, !.emp = e].at = a
      /\ [c EXCEPT !.at = a, !.emp = e].view = c.view
  BY DEF Commands
<1>. QED
  BY <1>1, <1>2 DEF TurnedTo

\* No load belongs to a command that is with the service.
LEMMA NoneOfSent ==
  ASSUME EditorInv, NEW n \in 1..Len(editorFlights)
  PROVE  /\ submit.at \in {"none", "sent", "done", "failed"} => editorFlights[n].by # "submit"
         /\ remove.at \in {"none", "sent", "done", "failed"} => editorFlights[n].by # "delete"
<1>1. editorFlights[n].what \in {"list", "evidence"}
  BY FlightsAre
<1>. QED
  BY <1>1 DEF EditorInv, CommandsAwait

LEMMA ServeSubmitKeeps ==
  ASSUME EditorInv, Editor!ServeSubmit
  PROVE  EditorInv'
<1>1. PICK c \in Commands : c = submit
  BY EditorKnown
<1>2. /\ submit.at = "sent" /\ UNCHANGED <<ui, editorFlights, remove, astray, mixed>>
      /\ crowded' = (crowded \/ (staff' # staff /\ Editor!ListRead(editorFlights)))
  BY DEF Editor!ServeSubmit, Editor!Crowds
<1>3. /\ staff' \in SUBSET Editor!Emps /\ submit' \in Commands /\ submit'.view = submit.view
      /\ submit'.at \in {"done", "failed"} /\ (staff' # staff => submit'.at = "done")
  <2>1. \/ /\ submit' = [c EXCEPT !.at = IF c.emp \in staff THEN "done" ELSE "failed"]
           /\ UNCHANGED staff
        \/ \E e \in Later \ staff :
             staff' = staff \cup {e} /\ submit' = [c EXCEPT !.at = "done", !.emp = e]
        \/ submit' = [c EXCEPT !.at = "failed"] /\ UNCHANGED staff
    BY <1>1 DEF Editor!ServeSubmit
  <2>2. \A a \in {"done", "failed"} : TurnedTo([c EXCEPT !.at = a], c, a)
    <3>. TAKE a \in {"done", "failed"}
    <3>1. /\ Nobody \in Named
          /\ a \in {"none", "sent", "done", "failed", "list", "evidence"}
      BY DEF Named
    <3>. QED
      BY <3>1, CommandTurns
  <2>3. CASE /\ submit' = [c EXCEPT !.at = IF c.emp \in staff THEN "done" ELSE "failed"]
             /\ UNCHANGED staff
    <3>1. PICK a \in {"done", "failed"} : a = IF c.emp \in staff THEN "done" ELSE "failed"
      OBVIOUS
    <3>. QED
      BY <1>1, <2>2, <2>3, <3>1, EditorKnown DEF TurnedTo
  <2>4. CASE \E e \in Later \ staff :
               staff' = staff \cup {e} /\ submit' = [c EXCEPT !.at = "done", !.emp = e]
    <3>1. PICK e \in Later : staff' = staff \cup {e} /\ submit' = [c EXCEPT !.at = "done", !.emp = e]
      BY <2>4
    <3>2. /\ e \in Editor!Emps /\ e \in Named
          /\ "done" \in {"none", "sent", "done", "failed", "list", "evidence"}
      BY DEF Named, Editor!Emps
    <3>3. TurnedTo([c EXCEPT !.at = "done", !.emp = e], c, "done")
      BY <3>2, CommandTurns
    <3>. QED
      BY <1>1, <3>1, <3>2, <3>3, EditorKnown DEF TurnedTo
  <2>5. CASE submit' = [c EXCEPT !.at = "failed"] /\ UNCHANGED staff
    BY <1>1, <2>2, <2>5, EditorKnown DEF TurnedTo
  <2>. QED
    BY <2>1, <2>3, <2>4, <2>5
<1>4. CommandsAwait'
  BY <1>2, <1>3, NoneOfSent DEF EditorInv, CommandsAwait
<1>. QED
  BY <1>2, <1>3, <1>4, EditorKnown, TurnKeeps

LEMMA ServeDeleteKeeps ==
  ASSUME EditorInv, Editor!ServeDelete
  PROVE  EditorInv'
<1>1. PICK c \in Commands : c = remove
  BY EditorKnown
<1>2. /\ remove.at = "sent" /\ UNCHANGED <<ui, editorFlights, submit, astray, mixed>>
      /\ crowded' = (crowded \/ (staff' # staff /\ Editor!ListRead(editorFlights)))
  BY DEF Editor!ServeDelete, Editor!Crowds
<1>3. /\ staff' \in SUBSET Editor!Emps /\ remove' \in Commands /\ remove'.view = remove.view
      /\ remove'.at \in {"done", "failed"} /\ (staff' # staff => remove'.at = "done")
  <2>1. \/ /\ remove' = [c EXCEPT !.at = IF c.emp \in staff THEN "done" ELSE "failed"]
           /\ staff' = staff \ {c.emp}
        \/ remove' = [c EXCEPT !.at = "failed"] /\ UNCHANGED staff
    BY <1>1 DEF Editor!ServeDelete
  <2>2. \A a \in {"done", "failed"} : TurnedTo([c EXCEPT !.at = a], c, a)
    <3>. TAKE a \in {"done", "failed"}
    <3>1. /\ Nobody \in Named
          /\ a \in {"none", "sent", "done", "failed", "list", "evidence"}
      BY DEF Named
    <3>. QED
      BY <3>1, CommandTurns
  <2>3. CASE /\ remove' = [c EXCEPT !.at = IF c.emp \in staff THEN "done" ELSE "failed"]
             /\ staff' = staff \ {c.emp}
    <3>1. PICK a \in {"done", "failed"} : a = IF c.emp \in staff THEN "done" ELSE "failed"
      OBVIOUS
    <3>2. staff' # staff => a = "done"
      BY <2>3, <3>1
    <3>. QED
      BY <1>1, <2>2, <2>3, <3>1, <3>2, EditorKnown DEF TurnedTo
  <2>4. CASE remove' = [c EXCEPT !.at = "failed"] /\ UNCHANGED staff
    BY <1>1, <2>2, <2>4, EditorKnown DEF TurnedTo
  <2>. QED
    BY <2>1, <2>3, <2>4
<1>4. CommandsAwait'
  BY <1>2, <1>3, NoneOfSent DEF EditorInv, CommandsAwait
<1>. QED
  BY <1>2, <1>3, <1>4, EditorKnown, TurnKeeps

LEMMA ReadListKeeps ==
  ASSUME EditorInv, NEW i \in DOMAIN editorFlights, Editor!ReadList(i)
  PROVE  EditorInv'
<1>1. i \in 1..Len(editorFlights) /\ editorFlights \in Seq(Flying)
  BY EditorKnown
<1>2. PICK f \in Flying : f = editorFlights[i]
  BY <1>1
<1>3. /\ f.what = "list"
      /\ editorFlights' = [editorFlights EXCEPT ![i] =
           [f EXCEPT !.read = TRUE, !.rows = Editor!InView(f.view, staff)]]
      /\ UNCHANGED <<staff, ui, submit, remove, astray, crowded, mixed>>
  BY <1>1, <1>2 DEF Editor!ReadList
<1>4. Editor!InView(f.view, staff) \in SUBSET Editor!Emps
  BY EditorKnown DEF Editor!InView
<1>5. PICK g \in Flying :
        /\ g = [f EXCEPT !.read = TRUE, !.rows = Editor!InView(f.view, staff)]
        /\ g.what = f.what /\ g.view = f.view /\ g.sel = f.sel /\ g.by = f.by
        /\ g.rows = Editor!InView(f.view, staff)
  <2>. DEFINE z == [f EXCEPT !.read = TRUE, !.rows = Editor!InView(f.view, staff)]
  <2>1. /\ z \in Flying /\ z.what = f.what /\ z.view = f.view /\ z.sel = f.sel /\ z.by = f.by
        /\ z.rows = Editor!InView(f.view, staff)
    BY <1>4 DEF Flying
  <2>. HIDE DEF z
  <2>. QED
    BY <2>1 DEF z
<1>6. /\ editorFlights' \in Seq(Flying) /\ Len(editorFlights') = Len(editorFlights)
      /\ \A n \in 1..Len(editorFlights) :
           editorFlights'[n] = IF n = i THEN g ELSE editorFlights[n]
  BY <1>1, <1>3, <1>5
<1>7. \A n \in 1..Len(editorFlights) :
        /\ editorFlights'[n].what = editorFlights[n].what
        /\ editorFlights'[n].view = editorFlights[n].view
        /\ editorFlights'[n].sel = editorFlights[n].sel
        /\ editorFlights'[n].by = editorFlights[n].by
  BY <1>2, <1>5, <1>6
<1>8. CommandsAwait'
  BY <1>3, <1>6, <1>7 DEF EditorInv, CommandsAwait
<1>9. ~ crowded => ListsOfView'
  <2>. SUFFICES ASSUME ~ crowded, NEW n \in 1..Len(editorFlights), editorFlights[n].what = "list"
                PROVE  /\ editorFlights'[n].view = ui.view
                       /\ editorFlights'[n].read =>
                            editorFlights'[n].rows = Editor!InView(ui.view, staff)
    <3>1. Editor!InView(ui.view, staff)' = Editor!InView(ui.view, staff) /\ ui' = ui
      BY <1>3 DEF Editor!InView
    <3>. QED
      BY <1>6, <1>7, <3>1 DEF ListsOfView
  <2>1. ListsOfView
    BY DEF EditorInv, RowsAgree
  <2>2. editorFlights'[n].view = ui.view
    BY <1>7, <2>1 DEF ListsOfView
  <2>3. CASE n = i
    <3>1. editorFlights'[n] = g /\ g.view = ui.view
      BY <1>5, <1>6, <2>2, <2>3
    <3>. QED
      BY <1>5, <3>1
  <2>4. CASE n # i
    BY <1>6, <2>1, <2>2, <2>4 DEF ListsOfView
  <2>. QED
    BY <2>2, <2>3, <2>4
<1>10. ~ crowded => CommandsOfView' /\ RowsOfView'
  <2>1. NoListToCome' => NoListToCome
    BY <1>3, <1>6, <1>7 DEF NoListToCome
  <2>. QED
    BY <1>3, <2>1 DEF EditorInv, RowsAgree, CommandsOfView, RowsOfView, Editor!InView
<1>. QED
  BY <1>3, <1>6, <1>7, <1>8, <1>9, <1>10, EditorKnown, ServiceKeeps

LEMMA FlightEnds ==
  ASSUME EditorInv, NEW i \in DOMAIN editorFlights, NEW left,
         left = Editor!RemoveAt(editorFlights, i)
  PROVE  /\ left \in Seq(Flying)
         /\ \A n \in 1..Len(left) : \E k \in 1..Len(editorFlights) : left[n] = editorFlights[k]
         /\ \A n, k \in 1..Len(left) : left[n].by = left[k].by => n = k \/ left[n].by = "effect"
         /\ \A n \in 1..Len(left) : left[n].by = editorFlights[i].by => left[n].by = "effect"
         /\ \A k \in 1..Len(editorFlights) : k # i =>
              \E n \in 1..Len(left) : left[n] = editorFlights[k]
<1>1. editorFlights \in Seq(Flying) /\ i \in 1..Len(editorFlights) /\ Len(editorFlights) \in Nat
  BY EditorKnown
<1>2. /\ left \in Seq(Flying) /\ Len(left) = Len(editorFlights) - 1
      /\ \A j \in 1..(Len(editorFlights) - 1) :
           left[j] = IF j < i THEN editorFlights[j] ELSE editorFlights[j + 1]
  BY <1>1, EditorRemoval
<1>. DEFINE was(j) == IF j < i THEN j ELSE j + 1
<1>3. ASSUME NEW j \in 1..Len(left)
      PROVE  was(j) \in 1..Len(editorFlights) /\ was(j) # i /\ left[j] = editorFlights[was(j)]
  <2>1. j \in 1..(Len(editorFlights) - 1)
    BY <1>2
  <2>. QED
    BY <1>1, <1>2, <2>1
<1>4. \A j, k \in 1..Len(left) : was(j) = was(k) => j = k
  BY <1>1
<1>5. ASSUME NEW k \in 1..Len(editorFlights), k # i
      PROVE  \E n \in 1..Len(left) : left[n] = editorFlights[k]
  <2>1. CASE k < i
    <3>1. k \in 1..(Len(editorFlights) - 1)
      BY <1>1, <2>1
    <3>. QED
      BY <1>2, <2>1, <3>1
  <2>2. CASE k > i
    <3>1. k - 1 \in 1..(Len(editorFlights) - 1) /\ ~ (k - 1 < i) /\ (k - 1) + 1 = k
      BY <1>1, <2>2
    <3>2. left[k - 1] = editorFlights[k]
      BY <1>2, <3>1
    <3>. QED
      BY <1>2, <3>1, <3>2
  <2>. QED
    BY <1>1, <1>5, <2>1, <2>2
<1>. HIDE DEF was
<1>6. \A n \in 1..Len(left) : \E k \in 1..Len(editorFlights) : left[n] = editorFlights[k]
  BY <1>3
<1>7. \A n, k \in 1..Len(left) : left[n].by = left[k].by => n = k \/ left[n].by = "effect"
  BY <1>3, <1>4 DEF EditorInv, CommandsAwait
<1>8. \A n \in 1..Len(left) : left[n].by = editorFlights[i].by => left[n].by = "effect"
  BY <1>1, <1>3 DEF EditorInv, CommandsAwait
<1>. QED
  BY <1>2, <1>5, <1>6, <1>7, <1>8

\* The loads left stand as they did.
LEMMA LeftStands ==
  ASSUME EditorInv, NEW i \in DOMAIN editorFlights, NEW left,
         left = Editor!RemoveAt(editorFlights, i),
         editorFlights[i].by # "submit" => submit'.at = submit.at,
         editorFlights[i].by # "delete" => remove'.at = remove.at, UNCHANGED staff
  PROVE  /\ Awaited(left)
         /\ \A u : ~ crowded /\ u.view = ui.view => OfView(left, u)
<1>1. /\ \A n \in 1..Len(left) : \E k \in 1..Len(editorFlights) : left[n] = editorFlights[k]
      /\ \A n, k \in 1..Len(left) : left[n].by = left[k].by => n = k \/ left[n].by = "effect"
      /\ \A n \in 1..Len(left) : left[n].by = editorFlights[i].by => left[n].by = "effect"
  BY FlightEnds
<1>2. ASSUME NEW n \in 1..Len(left)
      PROVE  /\ left[n].by = "submit" => submit'.at = left[n].what
             /\ left[n].by = "delete" => remove'.at = left[n].what
  BY <1>1 DEF EditorInv, CommandsAwait
<1>3. Awaited(left)
  BY <1>1, <1>2 DEF Awaited
<1>4. \A u : ~ crowded /\ u.view = ui.view => OfView(left, u)
  <2>. SUFFICES ASSUME NEW u, ~ crowded, u.view = ui.view, NEW n \in 1..Len(left),
                       left[n].what = "list"
                PROVE  /\ left[n].view = u.view
                       /\ left[n].read => left[n].rows = Editor!InView(u.view, staff')
    BY DEF OfView
  <2>1. PICK k \in 1..Len(editorFlights) : left[n] = editorFlights[k]
    BY <1>1
  <2>2. /\ editorFlights[k].view = ui.view
        /\ editorFlights[k].read => editorFlights[k].rows = Editor!InView(ui.view, staff)
    BY <2>1 DEF EditorInv, RowsAgree, ListsOfView
  <2>. QED
    BY <2>1, <2>2
<1>. QED
  BY <1>3, <1>4

LEMMA IdleCommand ==
  /\ Editor!Idle \in Commands /\ Editor!Idle.at = "none"
  BY DEF Editor!Idle, Commands, Named, Modes, Editor!Views

LEMMA SubmitGoes ==
  ASSUME EditorInv, NEW i \in DOMAIN editorFlights, Editor!SubmitGoesOn(editorFlights[i].by)
  PROVE  /\ submit' \in Commands /\ (submit'.at # "none" => submit.at # "none" /\ submit'.view = submit.view)
         /\ editorFlights[i].by # "submit" => submit' = submit
         /\ editorFlights[i].by = "submit" =>
              /\ submit.at = editorFlights[i].what
              /\ submit'.at = IF editorFlights[i].what = "list" THEN "evidence" ELSE "none"
<1>1. i \in 1..Len(editorFlights)
  BY EditorKnown
<1>2. PICK c \in Commands : c = submit
  BY EditorKnown
<1>3. editorFlights[i].by = "submit" => c.at = editorFlights[i].what
  BY <1>1, <1>2 DEF EditorInv, CommandsAwait
<1>4. submit' = IF editorFlights[i].by # "submit" THEN c
                ELSE IF c.at = "list" THEN [c EXCEPT !.at = "evidence"] ELSE Editor!Idle
  BY <1>2 DEF Editor!SubmitGoesOn
<1>5. TurnedTo([c EXCEPT !.at = "evidence"], c, "evidence")
  <2>1. Nobody \in Named /\ "evidence" \in {"none", "sent", "done", "failed", "list", "evidence"}
    BY DEF Named
  <2>. QED
    BY <2>1, CommandTurns
<1>6. CASE editorFlights[i].by # "submit"
  BY <1>2, <1>4, <1>6
<1>7. CASE editorFlights[i].by = "submit"
  <2>1. CASE c.at = "list"
    BY <1>2, <1>3, <1>4, <1>5, <1>7, <2>1 DEF TurnedTo
  <2>2. CASE c.at # "list"
    BY <1>2, <1>3, <1>4, <1>7, <2>2, IdleCommand
  <2>. QED
    BY <2>1, <2>2
<1>. QED
  BY <1>6, <1>7

\* A list has ended, with rows or without.
LEMMA ListEnds ==
  ASSUME EditorAssumption, EditorInv, NEW i \in DOMAIN editorFlights,
         editorFlights[i].what = "list", NEW u \in EditorPages,
         u.view = ui.view, u.draft = ui.draft,
         u.mode = "edit" => ui.mode = "edit" /\ u.sel = ui.sel /\ u.ev = ui.ev,
         Editor!Renders(u, Editor!RemoveAt(editorFlights, i), Editor!AfterList(editorFlights[i])),
         Editor!SubmitGoesOn(editorFlights[i].by),
         remove' = IF editorFlights[i].by = "delete" THEN Editor!Idle ELSE remove,
         UNCHANGED <<staff, crowded>>,
         ~ crowded => u.broken \/ u.rows = Editor!InView(u.view, staff)
  PROVE  EditorInv'
<1>1. PICK left \in Seq(Flying) :
        /\ left = Editor!RemoveAt(editorFlights, i)
        /\ \A n \in 1..Len(left) : \E k \in 1..Len(editorFlights) : left[n] = editorFlights[k]
        /\ \A n \in 1..Len(left) : left[n].by = editorFlights[i].by => left[n].by = "effect"
  BY FlightEnds
<1>2. /\ submit' \in Commands
      /\ submit'.at # "none" => submit.at # "none" /\ submit'.view = submit.view
      /\ editorFlights[i].by # "submit" => submit' = submit
      /\ editorFlights[i].by = "submit" => submit'.at = "evidence"
  BY SubmitGoes
<1>3. PICK e \in Flying : /\ e = Editor!Evidence(submit.emp, "submit")
                          /\ e.what = "evidence" /\ e.by = "submit"
  <2>1. submit.emp \in Named /\ "submit" \in {"effect", "submit", "delete"}
    BY EditorKnown DEF Commands
  <2>. QED
    BY <2>1, EvidenceFlies
<1>4. PICK asked \in Seq(Flying) :
        /\ asked = Editor!AfterList(editorFlights[i])
        /\ Len(asked) <= 1
        /\ \A n \in 1..Len(asked) : asked[n] = e /\ editorFlights[i].by = "submit"
  <2>1. CASE editorFlights[i].by = "submit"
    <3>1. Editor!AfterList(editorFlights[i]) = <<e>>
      BY <1>3, <2>1 DEF Editor!AfterList
    <3>2. <<e>> \in Seq(Flying) /\ Len(<<e>>) <= 1 /\ \A n \in 1..Len(<<e>>) : <<e>>[n] = e
      OBVIOUS
    <3>. QED
      BY <2>1, <3>1, <3>2
  <2>2. CASE editorFlights[i].by # "submit"
    <3>1. Editor!AfterList(editorFlights[i]) = <<>> /\ Len(<<>>) <= 1
      BY <2>2 DEF Editor!AfterList
    <3>. QED
      BY <3>1, NothingAsked
  <2>. QED
    BY <2>1, <2>2
<1>5. Drawn(u, left, asked)
  <2>1. OpensARow(u) /\ u.draft \in {ui.draft, Nobody}
    BY DEF OpensARow
  <2>2. u.mode = "edit" /\ ~ mixed => u.ev \in {Nobody, u.sel}
    BY DEF EditorInv, EvidenceFollows
  <2>. QED
    BY <1>1, <1>4, <2>1, <2>2, PageRenders
<1>6. /\ remove' \in Commands
      /\ remove'.at # "none" => remove.at # "none" /\ remove'.view = remove.view
      /\ editorFlights[i].by # "delete" => remove' = remove
  BY EditorKnown, IdleCommand
<1>7. Awaited(left) /\ (~ crowded => OfView(left, u))
  BY <1>1, <1>2, <1>6, LeftStands
<1>8. Awaited(asked)
  <2>1. \A n, k \in 1..Len(asked) : n = k
    BY <1>4
  <2>. QED
    BY <1>2, <1>3, <1>4, <2>1 DEF Awaited
<1>9. OnlyOneOf(left, asked)
  <2>. SUFFICES ASSUME NEW n \in 1..Len(left), NEW k \in 1..Len(asked),
                       left[n].by = asked[k].by
                PROVE  FALSE
    BY DEF OnlyOneOf
  <2>1. left[n].by = "submit" /\ editorFlights[i].by = "submit"
    BY <1>3, <1>4
  <2>. QED
    BY <1>1, <2>1
<1>10. OfView(asked, u)
  BY <1>3, <1>4 DEF OfView
<1>11. ~ crowded => /\ submit'.at # "none" => submit'.view = u.view
                    /\ remove'.at # "none" => remove'.view = u.view
  BY <1>2, <1>6 DEF EditorInv, RowsAgree, CommandsOfView
<1>12. staff' \in SUBSET Editor!Emps /\ crowded' \in BOOLEAN
  BY EditorKnown
<1>. QED
  BY <1>2, <1>5, <1>6, <1>7, <1>8, <1>9, <1>10, <1>11, <1>12, PageKeeps

LEMMA ListAnsweredKeeps ==
  ASSUME EditorAssumption, EditorInv, NEW i \in DOMAIN editorFlights, Editor!ListAnswered(i)
  PROVE  EditorInv'
<1>1. i \in 1..Len(editorFlights)
  BY EditorKnown
<1>2. PICK f \in Flying : f = editorFlights[i] /\ f.rows \in SUBSET Editor!Emps
  BY <1>1, FlightsAre
<1>3. PICK p \in EditorPages : p = ui
  BY EditorKnown
<1>. DEFINE gone == f.sel # Nobody /\ f.sel \notin f.rows
            landed == Editor!Landed([p EXCEPT !.rows = f.rows, !.broken = FALSE], f)
            shown == IF gone THEN [Editor!NoEvidence(landed) EXCEPT !.sel = Nobody, !.mode = "hidden"]
                     ELSE landed
<1>4. PICK l \in EditorPages :
        /\ l = landed /\ l.view = p.view /\ l.rows = f.rows /\ l.draft = p.draft
        /\ l.mode = p.mode /\ l.sel = p.sel /\ l.ev = p.ev
  <2>. DEFINE z == [p EXCEPT !.rows = f.rows, !.broken = FALSE]
  <2>1. PICK q \in EditorPages :
          /\ q = z /\ q.view = p.view /\ q.rows = f.rows /\ q.draft = p.draft
          /\ q.mode = p.mode /\ q.sel = p.sel /\ q.ev = p.ev
    <3>1. /\ z \in EditorPages /\ z.view = p.view /\ z.rows = f.rows /\ z.draft = p.draft
          /\ z.mode = p.mode /\ z.sel = p.sel /\ z.ev = p.ev
      BY <1>2 DEF EditorPages
    <3>. HIDE DEF z
    <3>. QED
      BY <3>1
  <2>2. landed = Editor!Landed(q, f)
    BY <2>1
  <2>3. /\ Editor!Landed(q, f) \in EditorPages /\ Editor!Landed(q, f).view = q.view
        /\ Editor!Landed(q, f).rows = q.rows /\ Editor!Landed(q, f).draft = q.draft
        /\ Editor!Landed(q, f).mode = q.mode /\ Editor!Landed(q, f).sel = q.sel
        /\ Editor!Landed(q, f).ev = q.ev
    BY DEF EditorPages, Editor!Landed
  <2>. HIDE DEF landed
  <2>. QED
    BY <2>1, <2>2, <2>3
<1>5. PICK u \in EditorPages :
        /\ u = shown /\ u.view = p.view /\ u.rows = f.rows /\ u.draft = p.draft
        /\ u.mode = "edit" => p.mode = "edit" /\ u.sel = p.sel /\ u.ev = p.ev
  <2>1. CASE gone
    <3>. DEFINE z == [l EXCEPT !.ev = Nobody, !.evFor = Nobody, !.sel = Nobody, !.mode = "hidden"]
    <3>1. /\ z \in EditorPages /\ z.view = l.view /\ z.rows = l.rows /\ z.draft = l.draft
          /\ z.mode = "hidden"
      BY DEF EditorPages, Named, Modes
    <3>2. z = shown
      BY <1>4, <2>1 DEF Editor!NoEvidence
    <3>. HIDE DEF z, shown
    <3>. QED
      BY <1>4, <3>1, <3>2
  <2>2. CASE ~ gone
    BY <1>4, <2>2
  <2>. QED
    BY <2>1, <2>2
<1>6. /\ f.what = "list" /\ f.read
      /\ Editor!Renders(shown, Editor!RemoveAt(editorFlights, i), Editor!AfterList(f))
      /\ Editor!SubmitGoesOn(f.by)
      /\ remove' = IF f.by = "delete" THEN Editor!Idle ELSE remove
      /\ UNCHANGED <<staff, crowded>>
  BY <1>2, <1>3 DEF Editor!ListAnswered
<1>. HIDE DEF shown
<1>7. ~ crowded => u.rows = Editor!InView(u.view, staff)
  BY <1>1, <1>2, <1>3, <1>5, <1>6 DEF EditorInv, RowsAgree, ListsOfView
<1>. QED
  BY <1>2, <1>3, <1>5, <1>6, <1>7, ListEnds

LEMMA ListFailsKeeps ==
  ASSUME EditorAssumption, EditorInv, NEW i \in DOMAIN editorFlights, Editor!ListFails(i)
  PROVE  EditorInv'
<1>1. i \in 1..Len(editorFlights)
  BY EditorKnown
<1>2. PICK f \in Flying : f = editorFlights[i]
  BY <1>1, FlightsAre
<1>3. PICK p \in EditorPages : p = ui
  BY EditorKnown
<1>. DEFINE shown == Editor!Landed([p EXCEPT !.rows = {}, !.broken = TRUE], f)
<1>4. PICK u \in EditorPages :
        /\ u = shown /\ u.view = p.view /\ u.broken /\ u.draft = p.draft
        /\ u.mode = p.mode /\ u.sel = p.sel /\ u.ev = p.ev
  <2>. DEFINE z == [p EXCEPT !.rows = {}, !.broken = TRUE]
  <2>1. PICK q \in EditorPages :
          /\ q = z /\ q.view = p.view /\ q.broken /\ q.draft = p.draft
          /\ q.mode = p.mode /\ q.sel = p.sel /\ q.ev = p.ev
    <3>1. /\ z \in EditorPages /\ z.view = p.view /\ z.broken /\ z.draft = p.draft
          /\ z.mode = p.mode /\ z.sel = p.sel /\ z.ev = p.ev
      BY DEF EditorPages
    <3>. HIDE DEF z
    <3>. QED
      BY <3>1
  <2>2. shown = Editor!Landed(q, f)
    BY <2>1
  <2>3. /\ Editor!Landed(q, f) \in EditorPages /\ Editor!Landed(q, f).view = q.view
        /\ Editor!Landed(q, f).broken = q.broken /\ Editor!Landed(q, f).draft = q.draft
        /\ Editor!Landed(q, f).mode = q.mode /\ Editor!Landed(q, f).sel = q.sel
        /\ Editor!Landed(q, f).ev = q.ev
    BY DEF EditorPages, Editor!Landed
  <2>. HIDE DEF shown
  <2>. QED
    BY <2>1, <2>2, <2>3
<1>5. /\ f.what = "list"
      /\ Editor!Renders(shown, Editor!RemoveAt(editorFlights, i), Editor!AfterList(f))
      /\ Editor!SubmitGoesOn(f.by)
      /\ remove' = IF f.by = "delete" THEN Editor!Idle ELSE remove
      /\ UNCHANGED <<staff, crowded>>
  BY <1>2, <1>3 DEF Editor!ListFails
<1>. HIDE DEF shown
<1>. QED
  BY <1>2, <1>3, <1>4, <1>5, ListEnds

\* A command that is answered goes on, or is over.
LEMMA SubmitAnsweredKeeps ==
  ASSUME EditorAssumption, EditorInv, Editor!SubmitAnswered
  PROVE  EditorInv'
<1>1. PICK c \in Commands : c = submit
  BY EditorKnown
<1>2. PICK p \in EditorPages : p = ui
  BY EditorKnown
<1>3. UNCHANGED <<staff, remove, crowded>>
  BY DEF Editor!SubmitAnswered
<1>4. CASE submit.at = "done"
  <2>1. /\ c.view \in Editor!Views /\ c.sel \in Named /\ c.mode \in Modes
        /\ FALSE \in BOOLEAN /\ "submit" \in {"effect", "submit", "delete"}
    BY DEF Commands
  <2>2. PICK l \in Flying : /\ l = Editor!List(c.view, c.sel, c.mode, FALSE, "submit")
                            /\ l.what = "list" /\ l.view = c.view /\ l.by = "submit" /\ ~ l.read
    <3>1. /\ Editor!List(c.view, c.sel, c.mode, FALSE, "submit") \in Flying
          /\ Editor!List(c.view, c.sel, c.mode, FALSE, "submit").what = "list"
          /\ Editor!List(c.view, c.sel, c.mode, FALSE, "submit").view = c.view
          /\ Editor!List(c.view, c.sel, c.mode, FALSE, "submit").by = "submit"
          /\ ~ Editor!List(c.view, c.sel, c.mode, FALSE, "submit").read
      BY <2>1, ListFlies
    <3>. QED
      BY <3>1
  <2>3. Editor!Renders(p, editorFlights, <<l>>) /\ submit' = [c EXCEPT !.at = "list"]
    BY <1>1, <1>2, <1>4, <2>2 DEF Editor!SubmitAnswered
  <2>4. TurnedTo(submit', c, "list")
    <3>1. Nobody \in Named /\ "list" \in {"none", "sent", "done", "failed", "list", "evidence"}
      BY DEF Named
    <3>. QED
      BY <2>3, <3>1, CommandTurns
  <2>5. <<l>> \in Seq(Flying) /\ Len(<<l>>) = 1 /\ 1..Len(<<l>>) = {1} /\ <<l>>[1] = l
    BY OneAsked
  <2>6. Drawn(p, editorFlights, <<l>>)
    <3>1. OpensARow(p) /\ p.draft \in {ui.draft, Nobody}
      BY <1>2 DEF OpensARow
    <3>2. p.mode = "edit" /\ ~ mixed => p.ev \in {Nobody, p.sel}
      BY <1>2 DEF EditorInv, EvidenceFollows
    <3>. QED
      BY <2>3, <2>5, <3>1, <3>2, EditorKnown, PageRenders
  <2>7. \A n \in 1..Len(editorFlights) : editorFlights[n].by # "submit"
    BY <1>4, NoneOfSent
  <2>8. Awaited(editorFlights)
    BY <1>3, <2>7 DEF EditorInv, CommandsAwait, Awaited
  <2>9. Awaited(<<l>>) /\ OnlyOneOf(editorFlights, <<l>>)
    BY <2>2, <2>4, <2>5, <2>7 DEF Awaited, OnlyOneOf, TurnedTo
  <2>10. ~ crowded => OfView(editorFlights, p)
    BY <1>2, <1>3 DEF EditorInv, RowsAgree, ListsOfView, OfView, Editor!InView
  <2>11. ~ crowded => submit.view = ui.view /\ (remove.at # "none" => remove.view = ui.view)
    BY <1>4 DEF EditorInv, RowsAgree, CommandsOfView
  <2>12. ~ crowded => OfView(<<l>>, p)
    BY <1>1, <1>2, <2>2, <2>5, <2>11 DEF OfView
  <2>13. ~ ListsEnd(p, editorFlights, <<l>>)
    BY <2>2, <2>5 DEF ListsEnd
  <2>14. submit' \in Commands /\ submit'.view = submit.view
    BY <1>1, <2>4 DEF TurnedTo
  <2>. QED
    BY <1>2, <1>3, <2>5, <2>6, <2>8, <2>9, <2>10, <2>11, <2>12, <2>13, <2>14, EditorKnown, PageKeeps
<1>5. CASE submit.at # "done"
  <2>1. /\ submit.at = "failed" /\ submit' = Editor!Idle
        /\ UNCHANGED <<ui, editorFlights, astray, mixed>>
    BY <1>5 DEF Editor!SubmitAnswered
  <2>2. CommandsAwait'
    BY <1>3, <2>1, NoneOfSent DEF EditorInv, CommandsAwait
  <2>3. ~ crowded => ListsOfView' /\ CommandsOfView'
    BY <1>3, <2>1, IdleCommand DEF EditorInv, RowsAgree, ListsOfView, CommandsOfView, Editor!InView
  <2>4. ~ crowded => RowsOfView'
    BY <1>3, <2>1, IdleCommand DEF EditorInv, RowsAgree, RowsOfView, NoListToCome, Editor!InView
  <2>. QED
    BY <1>3, <2>1, <2>2, <2>3, <2>4, IdleCommand, EditorKnown, ServiceKeeps
<1>. QED
  BY <1>4, <1>5

LEMMA DeleteAnsweredKeeps ==
  ASSUME EditorAssumption, EditorInv, Editor!DeleteAnswered
  PROVE  EditorInv'
<1>1. PICK c \in Commands : c = remove
  BY EditorKnown
<1>2. PICK p \in EditorPages : p = ui
  BY EditorKnown
<1>3. UNCHANGED <<staff, submit, crowded>>
  BY DEF Editor!DeleteAnswered
<1>4. CASE remove.at = "done"
  <2>1. c.emp \in Named /\ "delete" \in {"effect", "submit", "delete"}
    BY DEF Commands
  <2>2. PICK e \in Flying : /\ e = Editor!Evidence(c.emp, "delete")
                            /\ e.what = "evidence" /\ e.by = "delete"
    BY <2>1, EvidenceFlies
  <2>3. Editor!Renders(p, editorFlights, <<e>>) /\ remove' = [c EXCEPT !.at = "evidence"]
    BY <1>1, <1>2, <1>4, <2>2 DEF Editor!DeleteAnswered
  <2>4. TurnedTo(remove', c, "evidence")
    <3>1. Nobody \in Named /\ "evidence" \in {"none", "sent", "done", "failed", "list", "evidence"}
      BY DEF Named
    <3>. QED
      BY <2>3, <3>1, CommandTurns
  <2>5. <<e>> \in Seq(Flying) /\ Len(<<e>>) = 1 /\ 1..Len(<<e>>) = {1} /\ <<e>>[1] = e
    BY OneAsked
  <2>6. Drawn(p, editorFlights, <<e>>)
    <3>1. OpensARow(p) /\ p.draft \in {ui.draft, Nobody}
      BY <1>2 DEF OpensARow
    <3>2. p.mode = "edit" /\ ~ mixed => p.ev \in {Nobody, p.sel}
      BY <1>2 DEF EditorInv, EvidenceFollows
    <3>. QED
      BY <2>3, <2>5, <3>1, <3>2, EditorKnown, PageRenders
  <2>7. \A n \in 1..Len(editorFlights) : editorFlights[n].by # "delete"
    BY <1>4, NoneOfSent
  <2>8. Awaited(editorFlights)
    BY <1>3, <2>7 DEF EditorInv, CommandsAwait, Awaited
  <2>9. Awaited(<<e>>) /\ OnlyOneOf(editorFlights, <<e>>)
    BY <2>2, <2>4, <2>5, <2>7 DEF Awaited, OnlyOneOf, TurnedTo
  <2>10. ~ crowded => OfView(editorFlights, p)
    BY <1>2, <1>3 DEF EditorInv, RowsAgree, ListsOfView, OfView, Editor!InView
  <2>11. ~ crowded => remove.view = ui.view /\ (submit.at # "none" => submit.view = ui.view)
    BY <1>4 DEF EditorInv, RowsAgree, CommandsOfView
  <2>12. OfView(<<e>>, p)
    BY <2>2, <2>5 DEF OfView
  <2>13. ~ ListsEnd(p, editorFlights, <<e>>)
    BY <2>4 DEF ListsEnd, TurnedTo
  <2>14. remove' \in Commands /\ remove'.view = remove.view
    BY <1>1, <2>4 DEF TurnedTo
  <2>. QED
    BY <1>2, <1>3, <2>5, <2>6, <2>8, <2>9, <2>10, <2>11, <2>12, <2>13, <2>14, EditorKnown, PageKeeps
<1>5. CASE remove.at # "done"
  <2>1. /\ remove.at = "failed" /\ remove' = Editor!Idle
        /\ UNCHANGED <<ui, editorFlights, astray, mixed>>
    BY <1>5 DEF Editor!DeleteAnswered
  <2>2. CommandsAwait'
    BY <1>3, <2>1, NoneOfSent DEF EditorInv, CommandsAwait
  <2>3. ~ crowded => ListsOfView' /\ CommandsOfView'
    BY <1>3, <2>1, IdleCommand DEF EditorInv, RowsAgree, ListsOfView, CommandsOfView, Editor!InView
  <2>4. ~ crowded => RowsOfView'
    BY <1>3, <2>1, IdleCommand DEF EditorInv, RowsAgree, RowsOfView, NoListToCome, Editor!InView
  <2>. QED
    BY <1>3, <2>1, <2>2, <2>3, <2>4, IdleCommand, EditorKnown, ServiceKeeps
<1>. QED
  BY <1>4, <1>5

\* Evidence has come, or has not: the page as it was but for it, and closed
\* perhaps, or its form emptied.
EvidenceShown(u, shown_) ==
  /\ u \in EditorPages /\ u.rows = ui.rows /\ u.broken = ui.broken
  /\ u.draft \in {ui.draft, Nobody} /\ u.ev = shown_
  /\ u.mode = "edit" => ui.mode = "edit" /\ u.sel = ui.sel

LEMMA EvidenceDraws ==
  ASSUME EditorAssumption, EditorInv, NEW i \in DOMAIN editorFlights,
         editorFlights[i].what = "evidence", NEW shown_ \in {Nobody, editorFlights[i].sel},
         NEW u, EvidenceShown(u, shown_), NEW asked \in Seq(Flying),
         Editor!Renders(u, Editor!RemoveAt(editorFlights, i), asked)
  PROVE  Drawn(u, Editor!RemoveAt(editorFlights, i), asked)
<1>1. PICK left \in Seq(Flying) :
        /\ left = Editor!RemoveAt(editorFlights, i)
        /\ \A n \in 1..Len(left) : \E k \in 1..Len(editorFlights) : left[n] = editorFlights[k]
  BY FlightEnds
<1>2. i \in 1..Len(editorFlights)
  BY EditorKnown
<1>3. OpensARow(u) /\ u.draft \in {ui.draft, Nobody} /\ u \in EditorPages
  BY DEF OpensARow, EvidenceShown
<1>4. u.mode = "edit" /\ ~ mixed => u.ev \in {Nobody, u.sel}
  BY <1>2 DEF EditorInv, EvidenceFollows, EvidenceShown
<1>. QED
  BY <1>1, <1>3, <1>4, PageRenders

\* Evidence that no deletion waits for.
LEMMA EvidencePasses ==
  ASSUME EditorAssumption, EditorInv, NEW i \in DOMAIN editorFlights,
         editorFlights[i].what = "evidence", NEW shown_ \in {Nobody, editorFlights[i].sel},
         NEW u, EvidenceShown(u, shown_), u.view = ui.view, editorFlights[i].by # "delete",
         Editor!Renders(u, Editor!RemoveAt(editorFlights, i), <<>>),
         Editor!SubmitGoesOn(editorFlights[i].by), UNCHANGED <<staff, remove, crowded>>
  PROVE  EditorInv'
<1>1. PICK left \in Seq(Flying) :
        /\ left = Editor!RemoveAt(editorFlights, i)
        /\ \A k \in 1..Len(editorFlights) : k # i => \E n \in 1..Len(left) : left[n] = editorFlights[k]
  BY FlightEnds
<1>2. /\ submit' \in Commands
      /\ submit'.at # "none" => submit.at # "none" /\ submit'.view = submit.view
      /\ editorFlights[i].by # "submit" => submit' = submit
      /\ editorFlights[i].by = "submit" => submit.at = "evidence"
  BY SubmitGoes
<1>3. Drawn(u, left, <<>>) /\ u \in EditorPages
  BY <1>1, EvidenceDraws, NothingAsked DEF EvidenceShown
<1>4. Awaited(left) /\ (~ crowded => OfView(left, u))
  BY <1>1, <1>2, LeftStands
<1>5. ~ crowded => /\ submit'.at # "none" => submit'.view = u.view
                   /\ remove'.at # "none" => remove'.view = u.view
  BY <1>2 DEF EditorInv, RowsAgree, CommandsOfView
<1>6. ListsEnd(u, left, <<>>) => NoListToCome
  BY <1>1, <1>2 DEF ListsEnd, NoListToCome
<1>7. ~ crowded /\ ListsEnd(u, left, <<>>) => u.broken \/ u.rows = Editor!InView(u.view, staff')
  BY <1>6 DEF EditorInv, RowsAgree, RowsOfView, EvidenceShown
<1>8. staff' \in SUBSET Editor!Emps /\ remove' \in Commands /\ crowded' \in BOOLEAN
  BY EditorKnown
<1>. QED
  BY <1>2, <1>3, <1>4, <1>5, <1>7, <1>8, NothingAsked, PageKeeps

\* The evidence of an employee deleted: the page moves back to the first, or
\* asks for the list of the view the deletion was sent from.
LEMMA DeletionMovesBack ==
  ASSUME EditorAssumption, EditorInv, NEW i \in DOMAIN editorFlights,
         editorFlights[i].what = "evidence", NEW shown_ \in {Nobody, editorFlights[i].sel},
         NEW u, EvidenceShown(u, shown_), u.view = "first", editorFlights[i].by = "delete",
         Editor!Renders(u, Editor!RemoveAt(editorFlights, i), <<>>),
         remove.view # "first", remove' = Editor!Idle,
         crowded' = (crowded \/ (ui.view # "first" /\
           (Editor!ListUnderWay(Editor!RemoveAt(editorFlights, i)) \/ submit.at # "none"))),
         UNCHANGED <<staff, submit>>
  PROVE  EditorInv'
<1>1. PICK left \in Seq(Flying) : left = Editor!RemoveAt(editorFlights, i)
  BY FlightEnds
<1>2. Drawn(u, left, <<>>) /\ u \in EditorPages
  BY <1>1, EvidenceDraws, NothingAsked DEF EvidenceShown
<1>3. Awaited(left)
  BY <1>1, LeftStands
<1>4. remove' \in Commands /\ remove'.at = "none"
  BY IdleCommand
<1>5. i \in 1..Len(editorFlights)
  BY EditorKnown
<1>6. remove.at = "evidence"
  BY <1>5 DEF EditorInv, CommandsAwait
<1>7. ASSUME ~ crowded'
      PROVE  /\ ui.view # "first" /\ submit.at = "none"
             /\ \A n \in 1..Len(left) : left[n].what # "list"
  <2>1. ~ crowded /\ remove.view = ui.view
    BY <1>6, <1>7 DEF EditorInv, RowsAgree, CommandsOfView
  <2>2. ~ Editor!ListUnderWay(left) /\ submit.at = "none"
    BY <1>1, <1>7, <2>1
  <2>3. \A n \in 1..Len(left) : left[n] \in Editor!ToSet(left)
    BY DEF Editor!ToSet
  <2>. QED
    BY <2>1, <2>2, <2>3 DEF Editor!ListUnderWay
<1>8. ~ crowded' => OfView(left, u) /\ Moved(u)
  BY <1>7 DEF OfView, Moved
<1>9. staff' \in SUBSET Editor!Emps /\ submit' \in Commands /\ crowded' \in BOOLEAN
  BY EditorKnown
<1>. QED
  BY <1>2, <1>3, <1>4, <1>7, <1>8, <1>9, NothingAsked, PageKeeps DEF ListsEnd

LEMMA DeletionLists ==
  ASSUME EditorAssumption, EditorInv, NEW i \in DOMAIN editorFlights,
         editorFlights[i].what = "evidence", NEW shown_ \in {Nobody, editorFlights[i].sel},
         NEW u, EvidenceShown(u, shown_), u.view = ui.view, editorFlights[i].by = "delete",
         Editor!Renders(u, Editor!RemoveAt(editorFlights, i),
           <<Editor!List(remove.view, remove.sel, remove.mode, FALSE, "delete")>>),
         remove' = [remove EXCEPT !.at = "list"], UNCHANGED <<staff, submit, crowded>>
  PROVE  EditorInv'
<1>1. PICK left \in Seq(Flying) :
        /\ left = Editor!RemoveAt(editorFlights, i)
        /\ \A n \in 1..Len(left) : left[n].by = editorFlights[i].by => left[n].by = "effect"
  BY FlightEnds
<1>2. PICK c \in Commands : c = remove
  BY EditorKnown
<1>3. PICK l \in Flying : /\ l = Editor!List(c.view, c.sel, c.mode, FALSE, "delete")
                          /\ l.what = "list" /\ l.view = c.view /\ l.by = "delete" /\ ~ l.read
  <2>1. /\ c.view \in Editor!Views /\ c.sel \in Named /\ c.mode \in Modes
        /\ FALSE \in BOOLEAN /\ "delete" \in {"effect", "submit", "delete"}
    BY DEF Commands
  <2>2. /\ Editor!List(c.view, c.sel, c.mode, FALSE, "delete") \in Flying
        /\ Editor!List(c.view, c.sel, c.mode, FALSE, "delete").what = "list"
        /\ Editor!List(c.view, c.sel, c.mode, FALSE, "delete").view = c.view
        /\ Editor!List(c.view, c.sel, c.mode, FALSE, "delete").by = "delete"
        /\ ~ Editor!List(c.view, c.sel, c.mode, FALSE, "delete").read
    BY <2>1, ListFlies
  <2>. QED
    BY <2>2
<1>4. <<l>> \in Seq(Flying) /\ Len(<<l>>) = 1 /\ 1..Len(<<l>>) = {1} /\ <<l>>[1] = l
  BY OneAsked
<1>5. Drawn(u, left, <<l>>) /\ u \in EditorPages
  BY <1>1, <1>2, <1>3, <1>4, EvidenceDraws DEF EvidenceShown
<1>6. TurnedTo(remove', c, "list")
  <2>1. Nobody \in Named /\ "list" \in {"none", "sent", "done", "failed", "list", "evidence"}
    BY DEF Named
  <2>. QED
    BY <1>2, <2>1, CommandTurns
<1>7. remove' \in Commands /\ remove'.at = "list" /\ remove'.view = remove.view
  BY <1>2, <1>6 DEF TurnedTo
<1>8. Awaited(left) /\ (~ crowded => OfView(left, u))
  BY <1>1, LeftStands
<1>9. \A n \in 1..Len(left) : left[n].by # "delete"
  BY <1>1
<1>10. Awaited(<<l>>) /\ OnlyOneOf(left, <<l>>)
  BY <1>3, <1>4, <1>7, <1>9 DEF Awaited, OnlyOneOf
<1>11. i \in 1..Len(editorFlights)
  BY EditorKnown
<1>12. ~ crowded => remove.view = ui.view /\ (submit.at # "none" => submit.view = ui.view)
  BY <1>11 DEF EditorInv, RowsAgree, CommandsOfView, CommandsAwait
<1>13. ~ crowded => OfView(<<l>>, u)
  BY <1>2, <1>3, <1>4, <1>12 DEF OfView
<1>14. ~ ListsEnd(u, left, <<l>>)
  BY <1>3, <1>4 DEF ListsEnd
<1>15. staff' \in SUBSET Editor!Emps /\ submit' \in Commands /\ crowded' \in BOOLEAN
  BY EditorKnown
<1>. QED
  BY <1>4, <1>5, <1>7, <1>8, <1>10, <1>12, <1>13, <1>14, <1>15, PageKeeps

LEMMA EvidenceEndsKeeps ==
  ASSUME EditorAssumption, EditorInv, NEW i \in DOMAIN editorFlights,
         NEW shown_ \in {Nobody, editorFlights[i].sel}, Editor!EvidenceEnds(i, shown_),
         UNCHANGED staff
  PROVE  EditorInv'
<1>1. i \in 1..Len(editorFlights)
  BY EditorKnown
<1>2. PICK f \in Flying : f = editorFlights[i] /\ f.sel \in Named /\ f.by \in {"effect", "submit", "delete"}
  BY <1>1, FlightsAre
<1>3. PICK p \in EditorPages : p = ui
  BY EditorKnown
<1>4. shown_ \in Named
  BY <1>2 DEF Named
<1>. DEFINE u == [ui EXCEPT !.ev = shown_, !.evLoading = FALSE]
            left == Editor!RemoveAt(editorFlights, i)
<1>5. /\ u \in EditorPages /\ u.view = p.view /\ u.rows = p.rows /\ u.broken = p.broken
      /\ u.draft = p.draft /\ u.ev = shown_ /\ u.mode = p.mode /\ u.sel = p.sel
  <2>. DEFINE z == [p EXCEPT !.ev = shown_, !.evLoading = FALSE]
  <2>1. /\ z \in EditorPages /\ z.view = p.view /\ z.rows = p.rows /\ z.broken = p.broken
        /\ z.draft = p.draft /\ z.ev = shown_ /\ z.mode = p.mode /\ z.sel = p.sel
    BY <1>4 DEF EditorPages
  <2>2. z = u
    BY <1>3
  <2>. HIDE DEF z, u
  <2>. QED
    BY <2>1, <2>2
<1>6. /\ f.what = "evidence" /\ Editor!SubmitGoesOn(f.by)
      /\ f.by = "effect" => Editor!Renders(u, left, <<>>) /\ UNCHANGED <<remove, crowded>>
      /\ f.by = "submit" =>
           /\ Editor!Renders(IF submit.kind = "create" /\ submit.same
                             THEN [u EXCEPT !.draft = Nobody] ELSE u, left, <<>>)
           /\ UNCHANGED <<remove, crowded>>
      /\ f.by = "delete" =>
           IF Editor!MovesBack
           THEN /\ Editor!Renders([Editor!Deleted(u) EXCEPT !.view = "first"], left, <<>>)
                /\ remove' = Editor!Idle
                /\ Editor!Crowds(ui.view # "first" /\
                                   (Editor!ListUnderWay(left) \/ submit.at # "none"))
           ELSE /\ Editor!Renders(Editor!Deleted(u), left,
                     <<Editor!List(remove.view, remove.sel, remove.mode, FALSE, "delete")>>)
                /\ remove' = [remove EXCEPT !.at = "list"]
                /\ UNCHANGED crowded
  BY <1>2 DEF Editor!EvidenceEnds
<1>7. PICK q \in EditorPages :
        /\ q = u /\ q.view = p.view /\ q.rows = p.rows /\ q.broken = p.broken
        /\ q.draft = p.draft /\ q.ev = shown_ /\ q.mode = p.mode /\ q.sel = p.sel
  BY <1>5
<1>. HIDE DEF u
<1>8. CASE f.by = "effect"
  <2>1. EvidenceShown(q, shown_) /\ q.view = ui.view
    BY <1>3, <1>7 DEF EvidenceShown
  <2>. QED
    BY <1>2, <1>6, <1>7, <1>8, <2>1, EvidencePasses
<1>9. CASE f.by = "submit"
  <2>1. PICK r \in EditorPages :
          /\ r = IF submit.kind = "create" /\ submit.same THEN [q EXCEPT !.draft = Nobody] ELSE q
          /\ EvidenceShown(r, shown_) /\ r.view = ui.view
    <3>. DEFINE z == [q EXCEPT !.draft = Nobody]
    <3>1. /\ z \in EditorPages /\ z.view = q.view /\ z.rows = q.rows /\ z.broken = q.broken
          /\ z.draft = Nobody /\ z.ev = q.ev /\ z.mode = q.mode /\ z.sel = q.sel
      BY DEF EditorPages, Named
    <3>. HIDE DEF z
    <3>2. EvidenceShown(z, shown_) /\ z.view = ui.view
      BY <1>3, <1>7, <3>1 DEF EvidenceShown
    <3>3. EvidenceShown(q, shown_) /\ q.view = ui.view
      BY <1>3, <1>7 DEF EvidenceShown
    <3>4. CASE submit.kind = "create" /\ submit.same
      BY <3>1, <3>2, <3>4 DEF z
    <3>5. CASE ~ (submit.kind = "create" /\ submit.same)
      BY <3>3, <3>5
    <3>. QED
      BY <3>4, <3>5
  <2>. QED
    BY <1>2, <1>6, <1>7, <1>9, <2>1, EvidencePasses
<1>10. CASE f.by = "delete"
  <2>1. PICK r \in EditorPages :
          r = Editor!Deleted(q) /\ EvidenceShown(r, shown_) /\ r.view = ui.view
    <3>. DEFINE z == [q EXCEPT !.sel = Nobody, !.mode = "hidden"]
    <3>1. /\ z \in EditorPages /\ z.view = q.view /\ z.rows = q.rows /\ z.broken = q.broken
          /\ z.draft = q.draft /\ z.ev = q.ev /\ z.mode = "hidden"
      BY DEF EditorPages, Named, Modes
    <3>. HIDE DEF z
    <3>2. EvidenceShown(z, shown_) /\ z.view = ui.view
      BY <1>3, <1>7, <3>1 DEF EvidenceShown
    <3>3. EvidenceShown(q, shown_) /\ q.view = ui.view
      BY <1>3, <1>7 DEF EvidenceShown
    <3>4. Editor!Deleted(q) = IF remove.sel = remove.emp THEN z ELSE q
      BY DEF Editor!Deleted, z
    <3>. QED
      BY <3>1, <3>2, <3>3, <3>4
  <2>2. CASE Editor!MovesBack
    <3>1. PICK s \in EditorPages :
            s = [r EXCEPT !.view = "first"] /\ EvidenceShown(s, shown_) /\ s.view = "first"
      <4>. DEFINE z == [r EXCEPT !.view = "first"]
      <4>1. /\ z \in EditorPages /\ z.view = "first" /\ z.rows = r.rows /\ z.broken = r.broken
            /\ z.draft = r.draft /\ z.ev = r.ev /\ z.mode = r.mode /\ z.sel = r.sel
        BY DEF EditorPages, Editor!Views
      <4>. HIDE DEF z
      <4>2. EvidenceShown(z, shown_)
        BY <2>1, <4>1 DEF EvidenceShown
      <4>. QED
        BY <4>1, <4>2 DEF z
    <3>2. /\ Editor!Renders(s, left, <<>>) /\ remove' = Editor!Idle /\ remove.view # "first"
          /\ crowded' = (crowded \/ (ui.view # "first" /\
               (Editor!ListUnderWay(left) \/ submit.at # "none")))
      BY <1>6, <1>7, <1>10, <2>1, <2>2, <3>1 DEF Editor!MovesBack, Editor!Crowds
    <3>3. submit' = submit
      BY <1>2, <1>6, <1>10, SubmitGoes
    <3>. QED
      BY <1>2, <1>6, <1>10, <3>1, <3>2, <3>3, DeletionMovesBack
  <2>3. CASE ~ Editor!MovesBack
    <3>1. /\ Editor!Renders(r, left,
               <<Editor!List(remove.view, remove.sel, remove.mode, FALSE, "delete")>>)
          /\ remove' = [remove EXCEPT !.at = "list"] /\ UNCHANGED crowded
      BY <1>6, <1>7, <1>10, <2>1, <2>3
    <3>2. submit' = submit
      BY <1>2, <1>6, <1>10, SubmitGoes
    <3>. QED
      BY <1>2, <1>6, <1>10, <2>1, <3>1, <3>2, DeletionLists
  <2>. QED
    BY <2>2, <2>3
<1>. QED
  BY <1>2, <1>8, <1>9, <1>10

LEMMA EvidenceComesKeeps ==
  ASSUME EditorAssumption, EditorInv, NEW i \in DOMAIN editorFlights,
         Editor!EvidenceAnswered(i) \/ Editor!EvidenceFails(i)
  PROVE  EditorInv'
<1>1. CASE Editor!EvidenceAnswered(i)
  <2>1. Editor!EvidenceEnds(i, editorFlights[i].sel) /\ UNCHANGED staff
    BY <1>1 DEF Editor!EvidenceAnswered
  <2>. QED
    BY <2>1, EvidenceEndsKeeps
<1>2. CASE Editor!EvidenceFails(i)
  <2>1. Editor!EvidenceEnds(i, Nobody) /\ UNCHANGED staff
    BY <1>2 DEF Editor!EvidenceFails
  <2>. QED
    BY <2>1, EvidenceEndsKeeps
<1>. QED
  BY <1>1, <1>2

LEMMA InitEditor == Editor!Init => EditorInv
<1>. SUFFICES ASSUME Editor!Init
              PROVE  EditorInv
  OBVIOUS
<1>1. /\ "first" \in Editor!Views /\ Nobody \in Named /\ "hidden" \in Modes
      /\ TRUE \in BOOLEAN /\ "effect" \in {"effect", "submit", "delete"}
  BY DEF Editor!Views, Named, Modes
<1>2. PICK l \in Flying : /\ l = Editor!List("first", Nobody, "hidden", TRUE, "effect")
                          /\ l.what = "list" /\ l.view = "first" /\ l.by = "effect" /\ ~ l.read
  <2>1. /\ Editor!List("first", Nobody, "hidden", TRUE, "effect") \in Flying
        /\ Editor!List("first", Nobody, "hidden", TRUE, "effect").what = "list"
        /\ Editor!List("first", Nobody, "hidden", TRUE, "effect").view = "first"
        /\ Editor!List("first", Nobody, "hidden", TRUE, "effect").by = "effect"
        /\ ~ Editor!List("first", Nobody, "hidden", TRUE, "effect").read
    BY <1>1, ListFlies
  <2>. QED
    BY <2>1
<1>3. <<l>> \in Seq(Flying) /\ Len(<<l>>) = 1 /\ 1..Len(<<l>>) = {1} /\ <<l>>[1] = l
  BY OneAsked
<1>4. /\ staff = Known /\ editorFlights = <<l>> /\ submit = Editor!Idle /\ remove = Editor!Idle
      /\ astray = FALSE /\ crowded = FALSE /\ mixed = FALSE
      /\ ui = [view |-> "first", sel |-> Nobody, mode |-> "hidden", rows |-> {},
               broken |-> FALSE, draft |-> Nobody, loading |-> TRUE, refreshing |-> FALSE,
               ev |-> Nobody, evFor |-> Nobody, evLoading |-> FALSE]
  BY <1>2 DEF Editor!Init
<1>5. ui \in EditorPages /\ ui.view = "first" /\ ui.mode = "hidden"
  <2>. DEFINE z == [view |-> "first", sel |-> Nobody, mode |-> "hidden", rows |-> {},
                    broken |-> FALSE, draft |-> Nobody, loading |-> TRUE, refreshing |-> FALSE,
                    ev |-> Nobody, evFor |-> Nobody, evLoading |-> FALSE]
  <2>1. z \in EditorPages /\ z.view = "first" /\ z.mode = "hidden"
    BY <1>1 DEF EditorPages
  <2>2. ui = z
    BY <1>4
  <2>. HIDE DEF z
  <2>. QED
    BY <2>1, <2>2
<1>6. EditorTypes
  BY <1>3, <1>4, <1>5, IdleCommand DEF EditorTypes, Editor!Emps
<1>7. CommandsAwait /\ DraftOfSelected /\ EvidenceFollows
  BY <1>2, <1>3, <1>4, <1>5 DEF CommandsAwait, DraftOfSelected, EvidenceFollows
<1>8. RowsAgree
  BY <1>2, <1>3, <1>4, <1>5, IdleCommand
     DEF RowsAgree, ListsOfView, CommandsOfView, RowsOfView, NoListToCome
<1>. QED
  BY <1>6, <1>7, <1>8 DEF EditorInv

LEMMA NextEditor ==
  ASSUME EditorAssumption, EditorInv, [Editor!Next]_editorVars
  PROVE  EditorInv'
<1>1. CASE UNCHANGED editorVars
  <2>1. UNCHANGED <<staff, ui, editorFlights, submit, remove, astray, crowded, mixed>>
    BY <1>1 DEF editorVars
  <2>2. EditorTypes' /\ CommandsAwait' /\ DraftOfSelected' /\ EvidenceFollows'
    BY <2>1 DEF EditorInv, EditorTypes, CommandsAwait, DraftOfSelected, EvidenceFollows,
       Editor!IsEditing, Editor!Edited
  <2>3. RowsAgree'
    BY <2>1 DEF EditorInv, RowsAgree, ListsOfView, CommandsOfView, RowsOfView, NoListToCome,
       Editor!InView
  <2>. QED
    BY <2>2, <2>3 DEF EditorInv
<1>2. CASE Editor!Next
  <2>1. CASE \E v \in Editor!Views : Editor!ChooseView(v)
    BY <2>1, ChooseViewKeeps
  <2>2. CASE \E e \in Editor!Emps : Editor!Edit(e) \/ Editor!Delete(e)
    BY <2>2, EditKeeps, DeleteKeeps
  <2>3. CASE \E m \in {"create", "hidden"} : Editor!Leave(m)
    BY <2>3, LeaveKeeps
  <2>4. CASE Editor!Refresh \/ Editor!EvidenceAgain \/ Editor!Submit
    BY <2>4, RefreshListKeeps, EvidenceAgainKeeps, SubmitKeeps
  <2>5. CASE \/ Editor!ServeSubmit \/ Editor!ServeDelete
             \/ Editor!SubmitAnswered \/ Editor!DeleteAnswered
    BY <2>5, ServeSubmitKeeps, ServeDeleteKeeps, SubmitAnsweredKeeps, DeleteAnsweredKeeps
  <2>6. CASE \E i \in DOMAIN editorFlights :
               \/ Editor!ReadList(i) \/ Editor!ListAnswered(i) \/ Editor!ListFails(i)
               \/ Editor!EvidenceAnswered(i) \/ Editor!EvidenceFails(i)
    BY <2>6, ReadListKeeps, ListAnsweredKeeps, ListFailsKeeps, EvidenceComesKeeps
  <2>. QED
    BY <1>2, <2>1, <2>2, <2>3, <2>4, <2>5, <2>6 DEF Editor!Next
<1>. QED
  BY <1>1, <1>2

LEMMA EditorShows ==
  ASSUME EditorInv
  PROVE  Editor!RowsAreOfView /\ Editor!EvidenceIsOfEditor
<1>1. ASSUME ~ Editor!Busy, ~ crowded, ~ ui.broken
      PROVE  ui.rows = Editor!InView(ui.view, staff)
  <2>1. \A n \in 1..Len(editorFlights) : editorFlights[n] \in Editor!ToSet(editorFlights)
    BY EditorKnown DEF Editor!ToSet
  <2>2. NoListToCome
    BY <1>1, <2>1 DEF Editor!Busy, Editor!ListUnderWay, NoListToCome
  <2>. QED
    BY <1>1, <2>2 DEF EditorInv, RowsAgree, RowsOfView
<1>2. Editor!EvidenceIsOfEditor
  BY DEF EditorInv, EvidenceFollows, Editor!EvidenceIsOfEditor
<1>. QED
  BY <1>1, <1>2 DEF Editor!RowsAreOfView

\* What Submit sends: an update of the employee the draft is of, or a draft
\* of no employee.
LEMMA SubmitSends ==
  ASSUME EditorInv, [Editor!Next]_editorVars
  PROVE  Editor!SendsItsEmployee
<1>. SUFFICES ASSUME submit.at = "none", submit'.at = "sent", ~ astray
              PROVE  IF submit'.kind = "update" THEN submit'.draft = submit'.emp
                     ELSE submit'.draft = Nobody
  BY DEF Editor!SendsItsEmployee
<1>1. Editor!Submit
  <2>2. ASSUME NEW key, submit' = [submit EXCEPT !.same = @ /\ Editor!Key(ui) = key]
        PROVE  FALSE
    BY <2>2, SameFormKeeps
  <2>3. \A e : ~ Editor!Edit(e)
    BY <2>2 DEF Editor!Edit
  <2>4. \A m : ~ Editor!Leave(m)
    BY <2>2 DEF Editor!Leave
  <2>5. \A i \in DOMAIN editorFlights : ~ Editor!SubmitGoesOn(editorFlights[i].by)
    <3>1. ASSUME NEW i \in DOMAIN editorFlights, Editor!SubmitGoesOn(editorFlights[i].by)
          PROVE  FALSE
      BY <3>1, SubmitGoes
    <3>. QED
      BY <3>1
  <2>6. submit' # submit
    OBVIOUS
  <2>7. CASE Editor!Next
    BY <2>3, <2>4, <2>5, <2>6, <2>7
       DEF Editor!Next, Editor!ChooseView, Editor!Refresh, Editor!EvidenceAgain, Editor!Delete,
           Editor!ServeSubmit, Editor!ServeDelete, Editor!SubmitAnswered, Editor!DeleteAnswered,
           Editor!ReadList, Editor!ListAnswered, Editor!ListFails, Editor!EvidenceAnswered,
           Editor!EvidenceFails, Editor!EvidenceEnds
  <2>. QED
    BY <2>6, <2>7 DEF editorVars
<1>2. PICK p \in EditorPages : p = ui
  BY EditorKnown
<1>3. /\ p.mode # "hidden" /\ (Editor!IsEditing(p) => p.draft # Nobody)
      /\ submit' = [at |-> "sent", kind |-> IF Editor!IsEditing(p) THEN "update" ELSE "create",
                    emp |-> p.sel, draft |-> p.draft, view |-> p.view, sel |-> p.sel,
                    mode |-> p.mode, last |-> FALSE, same |-> TRUE]
  BY <1>1, <1>2 DEF Editor!Submit
<1>4. /\ submit'.kind = (IF Editor!IsEditing(p) THEN "update" ELSE "create")
      /\ submit'.draft = p.draft /\ submit'.emp = p.sel
  BY <1>3
<1>5. p.mode \in Modes
  BY DEF EditorPages
<1>6. CASE Editor!IsEditing(p)
  BY <1>2, <1>3, <1>4, <1>6, EditedIs DEF EditorInv, DraftOfSelected
<1>7. CASE ~ Editor!IsEditing(p)
  BY <1>2, <1>3, <1>4, <1>5, <1>7 DEF EditorInv, DraftOfSelected, Modes
<1>. QED
  BY <1>6, <1>7

LEMMA EditorInvariant ==
  EditorAssumption /\ PageSpec => [](part = "editor" => EditorInv)
<1>. SUFFICES ASSUME EditorAssumption
              PROVE  PageSpec => [](part = "editor" => EditorInv)
  OBVIOUS
<1>1. PageInit => (part = "editor" => EditorInv)
  BY InitEditor DEF PageInit, Begins
<1>2. (part = "editor" => EditorInv) /\ [PageNext]_pageVars => (part = "editor" => EditorInv)'
  BY OnePartRuns, OnePartRuns, NextEditor
<1>. QED
  BY <1>1, <1>2, PTL DEF PageSpec

(***************************************************************************)
(* RowsAreOfView and EvidenceIsOfEditor of the page of the employees, the  *)
(* part of PagesFollowChoice that is about them: with nothing under way    *)
(* the rows are those of the view that is chosen and the evidence that of  *)
(* the employee edited, for any employees and any number of loads, saves,  *)
(* deletions and failures, except where the page was crowded or mixed.     *)
(***************************************************************************)
THEOREM EditorFollowsItsView ==
  EditorAssumption /\ PageSpec =>
    [](part = "editor" => Editor!RowsAreOfView /\ Editor!EvidenceIsOfEditor)
<1>1. (part = "editor" => EditorInv) =>
        (part = "editor" => Editor!RowsAreOfView /\ Editor!EvidenceIsOfEditor)
  BY EditorShows
<1>. QED
  BY <1>1, EditorInvariant, PTL

(***************************************************************************)
(* PagesFollowChoice: with nothing under way, each page of the browser     *)
(* shows what is chosen in it, as it is stored, and the console settles    *)
(* what it was asked to, for any employees, users, alerts, choices and     *)
(* numbers of steps, answers and failures.                                 *)
(***************************************************************************)
PagesAssumption ==
  ViewAssumption /\ AnalyticsAssumption /\ EditorAssumption /\ ConsoleAssumption

THEOREM PagesShowTheChoice == PagesAssumption /\ PageSpec => []PagesFollowChoice
<1>. SUFFICES ASSUME PagesAssumption PROVE PageSpec => []PagesFollowChoice
  OBVIOUS
<1>1. /\ part = "view" => View!RowsAreChosen
      /\ part = "analytics" => Analytics!SummariesAreChosen
      /\ part = "editor" => Editor!RowsAreOfView /\ Editor!EvidenceIsOfEditor
      /\ part = "alertsPage" => Detail!NotesShownAreStored /\ Detail!EmployeesAreOfAlert
      /\ part = "console" => Console!SettlesAsAsked
      /\ part = "settings" => Settings!SettingsShownAreStored
      => PagesFollowChoice
  BY DEF PagesFollowChoice
<1>2. ViewAssumption /\ AnalyticsAssumption /\ EditorAssumption /\ ConsoleAssumption
  BY DEF PagesAssumption
<1>. QED
  BY <1>1, <1>2, RowsFollowChoice, AnalyticsFollowsChoice, EditorFollowsItsView,
     AlertsPageFollows, ConsoleDoesAsAsked, SettingsFollowTheRules, PTL

(***************************************************************************)
(* The form of an employee.                                                *)
(***************************************************************************)

\* An empty field is no number, and a client of the API is no form.
FormAssumption == NoValue \notin Int /\ Client \notin Forms

\* A draft or a document: its dates are days or moments, its department is
\* one that there is.
HasFields(d) ==
  /\ d = [k \in Form!Fields |-> d[k]]
  /\ \A k \in Form!Dates : d[k] \in Int \cup {NoValue}
  /\ d["departmentId"] \in Departments \cup {NoValue}
IsPayload(p) ==
  /\ \A k \in Form!Dates : k \in DOMAIN p => p[k] \in Int
  /\ "departmentId" \in DOMAIN p => p["departmentId"] \in Departments
IsForm(x) ==
  \E mode, draft, row, errors, sent_ :
    /\ x = [mode |-> mode, draft |-> draft, row |-> row, errors |-> errors, sent |-> sent_]
    /\ HasFields(draft) /\ HasFields(sent_)
    /\ mode = "create" \/ HasFields(row)

\* Before it is written or refused, a request is what its sender asked.
Asking(r) == r.at \in {"contract", "find", "update", "save"}

FormsAre ==
  /\ form = [f \in Forms |-> form[f]]
  /\ \A f \in Forms : form[f] = Form!Closed \/ IsForm(form[f])

FormSent ==
  \A f \in Forms :
    /\ request[f].at # "none" => form[f] # Form!Closed
    /\ Asking(request[f]) =>
         request[f].payload = Form!Compact(form[f].sent) /\ Form!Errors(form[f].sent) = {}

FormInv ==
  /\ DatesInv /\ FormsAre /\ FormSent
  /\ doc = Form!None \/ HasFields(doc)
  /\ \A w \in Clients : Asking(request[w]) => IsPayload(request[w].payload)

\* What compactPayload keeps of a draft.
CompactIs(d, c) ==
  /\ c = [k \in DOMAIN c |-> c[k]] /\ DOMAIN c \subseteq Form!Fields
  /\ \A k \in Form!Fields :
       /\ k \in DOMAIN c <=> Form!Trim(k, d[k]) # NoValue
       /\ k \in DOMAIN c => c[k] = IF k \in Form!Dates THEN 2 * d[k] ELSE d[k]

LEMMA FieldKinds ==
  /\ Form!Dates = {"birthDate", "hireDate"} /\ Form!Texts = {"firstName", "ethnicity"}
  /\ Form!Dates \subseteq Form!Fields /\ Form!Texts \subseteq Form!Fields
  /\ Form!Numbers \subseteq Form!Fields /\ "departmentId" \in Form!Fields
  /\ Form!Dates \cap Form!Texts = {} /\ Form!Numbers \cap Form!Dates = {}
  /\ Form!Numbers \cap Form!Texts = {}
  /\ "departmentId" \notin Form!Dates \cup Form!Texts
  /\ "firstName" \in Form!Texts
BY DEF Form!Dates, Form!Texts, Form!Numbers, Form!Fields

LEMMA CompactKeeps ==
  ASSUME FormAssumption, NEW d, HasFields(d)
  PROVE  CompactIs(d, Form!Compact(d))
<1>. DEFINE value(k) == IF d[k] = NoValue THEN NoValue
                        ELSE IF k \in Form!Dates THEN 2 * d[k] ELSE Form!Trim(k, d[k])
            D == {k \in Form!Fields : value(k) # NoValue}
            c == [k \in D |-> value(k)]
<1>1. Form!Compact(d) = c
  BY DEF Form!Compact, Form!Without
<1>2. ASSUME NEW k \in Form!Fields
      PROVE  /\ value(k) # NoValue <=> Form!Trim(k, d[k]) # NoValue
             /\ value(k) # NoValue =>
                  value(k) = IF k \in Form!Dates THEN 2 * d[k] ELSE d[k]
  <2>1. CASE k \in Form!Dates
    <3>1. k \notin Form!Texts
      BY <2>1, FieldKinds
    <3>2. Form!Trim(k, d[k]) = d[k]
      BY <3>1 DEF Form!Trim
    <3>3. d[k] \in Int \cup {NoValue}
      BY <2>1 DEF HasFields
    <3>4. d[k] \in Int => 2 * d[k] \in Int
      OBVIOUS
    <3>. QED
      BY <2>1, <3>2, <3>3, <3>4 DEF FormAssumption
  <2>2. CASE k \notin Form!Dates
    BY <2>2 DEF Form!Trim
  <2>. QED
    BY <2>1, <2>2
<1>. HIDE DEF value
<1>3. CompactIs(d, c)
  BY <1>2 DEF CompactIs
<1>. QED
  BY <1>1, <1>3

LEMMA CompactIsGiven ==
  ASSUME FormAssumption, NEW d, HasFields(d), NEW c, CompactIs(d, c)
  PROVE  IsPayload(c) /\ Form!Given(c) = c
<1>1. ASSUME NEW k \in DOMAIN c
      PROVE  Form!Trim(k, c[k]) = c[k] /\ c[k] # NoValue
  <2>0. k \in Form!Fields /\ Form!Trim(k, d[k]) # NoValue
    BY DEF CompactIs
  <2>1. CASE k \in Form!Dates
    <3>1. k \notin Form!Texts
      BY <2>1, FieldKinds
    <3>2. d[k] \in Int /\ c[k] = 2 * d[k]
      BY <2>0, <2>1, <3>1 DEF HasFields, CompactIs, Form!Trim
    <3>3. c[k] \in Int
      BY <3>2
    <3>. QED
      BY <3>1, <3>3 DEF Form!Trim, FormAssumption
  <2>2. CASE k \notin Form!Dates
    <3>1. c[k] = d[k]
      BY <2>0, <2>2 DEF CompactIs
    <3>. QED
      BY <2>0, <3>1 DEF Form!Trim
  <2>. QED
    BY <2>1, <2>2
<1>2. IsPayload(c)
  <2>1. ASSUME NEW k \in Form!Dates, k \in DOMAIN c
        PROVE  c[k] \in Int
    <3>1. k \in Form!Fields /\ k \notin Form!Texts
      BY <2>1, FieldKinds
    <3>2. d[k] \in Int /\ c[k] = 2 * d[k]
      BY <2>1, <3>1 DEF HasFields, CompactIs, Form!Trim
    <3>. QED
      BY <3>2
  <2>2. ASSUME "departmentId" \in DOMAIN c
        PROVE  c["departmentId"] \in Departments
    <3>1. c["departmentId"] = d["departmentId"] /\ c["departmentId"] # NoValue
      BY <1>1, <2>2, FieldKinds DEF CompactIs
    <3>. QED
      BY <3>1 DEF HasFields
  <2>. QED
    BY <2>1, <2>2 DEF IsPayload
<1>3. Form!Given(c) = c
  <2>1. [k \in DOMAIN c |-> Form!Trim(k, c[k])] = c
    BY <1>1 DEF CompactIs
  <2>2. Form!Given(c) = [k \in {k \in DOMAIN c : c[k] # NoValue} |-> c[k]]
    BY <2>1 DEF Form!Given, Form!Without
  <2>3. {k \in DOMAIN c : c[k] # NoValue} = DOMAIN c
    BY <1>1
  <2>. QED
    BY <2>2, <2>3 DEF CompactIs
<1>. QED
  BY <1>2, <1>3

\* What is stored shows again what was sent, and what was there where
\* nothing was.
LEMMA StoredShowsAgain ==
  ASSUME FormAssumption, NEW d, HasFields(d), NEW c, CompactIs(d, c), NEW before
  PROVE  Form!DraftOf(Form!Stored(before, c))
           = [k \in Form!Fields |-> IF Form!Trim(k, d[k]) = NoValue THEN Form!DraftOf(before)[k]
                                    ELSE d[k]]
<1>. DEFINE stored_ == Form!Stored(before, c)
<1>1. ASSUME NEW k \in Form!Fields
      PROVE  Form!DraftOf(stored_)[k]
               = IF Form!Trim(k, d[k]) = NoValue THEN Form!DraftOf(before)[k] ELSE d[k]
  <2>1. stored_[k] = IF k \in DOMAIN c THEN c[k] ELSE before[k]
    BY DEF Form!Stored
  <2>. HIDE DEF stored_
  <2>2. CASE Form!Trim(k, d[k]) = NoValue
    <3>1. stored_[k] = before[k]
      BY <2>1, <2>2 DEF CompactIs
    <3>. QED
      BY <2>2, <3>1 DEF Form!DraftOf
  <2>3. CASE Form!Trim(k, d[k]) # NoValue /\ k \in Form!Dates
    <3>1. k \notin Form!Texts
      BY <2>3, FieldKinds
    <3>2. d[k] \in Int /\ stored_[k] = 2 * d[k]
      BY <2>1, <2>3, <3>1 DEF CompactIs, HasFields, Form!Trim
    <3>3. stored_[k] \in Int /\ stored_[k] # NoValue
      BY <3>2 DEF FormAssumption
    <3>4. stored_[k] \div 2 = d[k]
      BY <3>2
    <3>. QED
      BY <2>3, <3>3, <3>4 DEF Form!DraftOf
  <2>4. CASE Form!Trim(k, d[k]) # NoValue /\ k \notin Form!Dates
    <3>1. stored_[k] = d[k] /\ d[k] # NoValue
      BY <2>1, <2>4 DEF CompactIs, Form!Trim
    <3>. QED
      BY <2>4, <3>1 DEF Form!DraftOf
  <2>. QED
    BY <2>2, <2>3, <2>4
<1>2. Form!DraftOf(stored_) = [k \in Form!Fields |-> Form!DraftOf(stored_)[k]]
  BY DEF Form!DraftOf
<1>. HIDE DEF stored_
<1>3. Form!DraftOf(stored_)
           = [k \in Form!Fields |-> IF Form!Trim(k, d[k]) = NoValue THEN Form!DraftOf(before)[k]
                                    ELSE d[k]]
  BY <1>1, <1>2
<1>. QED
  BY <1>3 DEF stored_

\* The two dates of a form without errors are sent in order.
LEMMA OnlyInOrder ==
  ASSUME FormAssumption, NEW d, HasFields(d), NEW c, CompactIs(d, c), Form!Errors(d) = {},
         Form!Dates \subseteq DOMAIN c
  PROVE  Form!Before(c.birthDate, c.hireDate)
<1>1. "birthDate" \in Form!Dates /\ "hireDate" \in Form!Dates
  BY FieldKinds
<1>2. /\ c["birthDate"] = 2 * d["birthDate"] /\ c["hireDate"] = 2 * d["hireDate"]
      /\ d["birthDate"] # NoValue /\ d["hireDate"] # NoValue
  BY <1>1, FieldKinds DEF CompactIs, Form!Trim
<1>3. d["birthDate"] \in Int /\ d["hireDate"] \in Int
  BY <1>1, <1>2 DEF HasFields
<1>4. Form!Before(d.birthDate, d.hireDate)
  BY <1>1, <1>2 DEF Form!Errors
<1>. QED
  BY <1>2, <1>3, <1>4 DEF Form!Before

\* A form without errors is refused by the contract for its length alone.
LEMMA OnlyTooLong ==
  ASSUME FormAssumption, NEW d, HasFields(d), NEW c, CompactIs(d, c), Form!Errors(d) = {},
         NEW mode, Form!Refused(c, mode) \/
                     ("departmentId" \in DOMAIN c /\ c.departmentId \notin Departments)
  PROVE  "long" \in {d[k] : k \in Form!Texts}
<1>1. IsPayload(c) /\ Form!Given(c) = c
  BY CompactIsGiven
<1>2. "firstName" \in DOMAIN c
  <2>1. Form!Trim("firstName", d.firstName) # NoValue
    BY DEF Form!Errors
  <2>. QED
    BY <2>1, FieldKinds DEF CompactIs
<1>3. DOMAIN c \ Form!Fields = {}
  BY DEF CompactIs
<1>4. ~ Form!BadNumber(c)
  <2>1. Form!NumberErrors(d) = {}
    BY DEF Form!Errors
  <2>2. ASSUME NEW k \in Form!Numbers \cap DOMAIN c,
               c[k] < 0 \/ (k = "vacationDays" /\ c[k] % 2 # 0)
        PROVE  FALSE
    <3>1. c[k] = d[k]
      BY FieldKinds DEF CompactIs
    <3>2. d[k] # NoValue
      BY FieldKinds DEF CompactIs, Form!Trim
    <3>. QED
      BY <2>1, <2>2, <3>1, <3>2 DEF Form!NumberErrors
  <2>. QED
    BY <2>2 DEF Form!BadNumber
<1>5. ~ (Form!Dates \subseteq DOMAIN c /\ ~ Form!Before(c.birthDate, c.hireDate))
  BY OnlyInOrder
<1>6. Form!TooLong(c)
  BY <1>1, <1>2, <1>3, <1>4, <1>5, FieldKinds DEF Form!Refused, IsPayload
<1>7. PICK k \in Form!Texts \cap DOMAIN c : c[k] = "long"
  BY <1>6 DEF Form!TooLong
<1>8. d[k] = "long"
  BY <1>7, FieldKinds DEF CompactIs
<1>. QED
  BY <1>8

\* And where an update is refused against the stored dates, the form left one
\* of the two empty.
LEMMA OneDateEmpty ==
  ASSUME FormAssumption, NEW d, HasFields(d), NEW c, CompactIs(d, c), Form!Errors(d) = {},
         NEW before, ~ Form!Consistent(before, c)
  PROVE  \E k \in Form!Dates : {x \in Form!Dates : d[x] = NoValue} = {k}
<1>0. Form!Dates = {"birthDate", "hireDate"} /\ "birthDate" # "hireDate"
  BY FieldKinds
<1>1. Form!Dates \cap DOMAIN c # {} /\ ~ Form!InOrder(Form!Stored(before, c))
  BY DEF Form!Consistent
<1>2. ASSUME NEW k \in Form!Dates
      PROVE  k \in DOMAIN c <=> d[k] # NoValue
  BY FieldKinds DEF CompactIs, Form!Trim
<1>3. ~ (Form!Dates \subseteq DOMAIN c)
  <2>1. ASSUME Form!Dates \subseteq DOMAIN c
        PROVE  FALSE
    <3>1. Form!Before(c.birthDate, c.hireDate)
      BY <2>1, OnlyInOrder
    <3>2. /\ Form!Stored(before, c)["birthDate"] = c["birthDate"]
          /\ Form!Stored(before, c)["hireDate"] = c["hireDate"]
      BY <1>0, <2>1, FieldKinds DEF Form!Stored
    <3>. QED
      BY <1>1, <3>1, <3>2 DEF Form!InOrder
  <2>. QED
    BY <2>1
<1>. QED
  BY <1>0, <1>1, <1>2, <1>3

LEMMA OneElement ==
  ASSUME NEW k
  PROVE  Form!Cardinality({k}) = 1
<1>1. Form!Cardinality({k}) = Cardinality({k})
  BY DEF Form!Cardinality, Cardinality
<1>. QED
  BY <1>1, FS_Singleton

\* What has the fields of an employee.
LEMMA DefaultsHaveFields == HasFields(Form!BlankDraft) /\ HasFields(Form!Defaults)
<1>1. /\ Form!BlankDraft = [k \in Form!Fields |-> Form!BlankDraft[k]]
      /\ Form!Defaults = [k \in Form!Fields |-> Form!Defaults[k]]
  BY DEF Form!BlankDraft, Form!Defaults
<1>2. \A k \in Form!Dates : Form!BlankDraft[k] = NoValue /\ Form!Defaults[k] = NoValue
  BY DEF Form!BlankDraft, Form!Defaults, Form!Dates, Form!Texts, Form!Numbers, Form!Fields
<1>3. Form!BlankDraft["departmentId"] = NoValue /\ Form!Defaults["departmentId"] = NoValue
  BY DEF Form!BlankDraft, Form!Defaults, Form!Dates, Form!Texts, Form!Numbers, Form!Fields
<1>. QED
  BY <1>1, <1>2, <1>3 DEF HasFields

LEMMA StoredHasFields ==
  ASSUME NEW d, HasFields(d), NEW p, IsPayload(p)
  PROVE  HasFields(Form!Stored(d, p)) /\ Form!Stored(d, p) # Form!None
<1>. DEFINE s == Form!Stored(d, p)
<1>1. s = [k \in Form!Fields |-> s[k]]
  BY DEF Form!Stored
<1>2. \A k \in Form!Fields : s[k] = IF k \in DOMAIN p THEN p[k] ELSE d[k]
  BY DEF Form!Stored
<1>3. DOMAIN s = Form!Fields
  BY DEF Form!Stored
<1>. HIDE DEF s
<1>4. HasFields(s)
  BY <1>1, <1>2, FieldKinds DEF HasFields, IsPayload
<1>5. s # Form!None
  <2>1. DOMAIN Form!None = {"missing"}
    BY DEF Form!None
  <2>. QED
    BY <1>3, <2>1, FieldKinds
<1>. QED
  BY <1>4, <1>5 DEF s

LEMMA DraftHasFields ==
  ASSUME NEW d, HasFields(d)
  PROVE  HasFields(Form!DraftOf(d))
<1>. DEFINE s == Form!DraftOf(d)
<1>1. s = [k \in Form!Fields |-> s[k]]
  BY DEF Form!DraftOf
<1>2. \A k \in Form!Fields : s[k] = IF d[k] = NoValue THEN Form!BlankDraft[k]
                                    ELSE IF k \in Form!Dates THEN d[k] \div 2 ELSE d[k]
  BY DEF Form!DraftOf
<1>. HIDE DEF s
<1>3. ASSUME NEW k \in Form!Dates
      PROVE  s[k] \in Int \cup {NoValue}
  <2>1. d[k] \in Int \cup {NoValue} /\ Form!BlankDraft[k] \in Int \cup {NoValue}
    BY DefaultsHaveFields DEF HasFields
  <2>2. d[k] \in Int => d[k] \div 2 \in Int
    OBVIOUS
  <2>. QED
    BY <1>2, <2>1, <2>2, FieldKinds
<1>4. s["departmentId"] \in Departments \cup {NoValue}
  BY <1>2, FieldKinds, DefaultsHaveFields DEF HasFields
<1>5. HasFields(s)
  BY <1>1, <1>3, <1>4 DEF HasFields
<1>. QED
  BY <1>5 DEF s

LEMMA ChangedHasFields ==
  ASSUME FormAssumption, NEW d, HasFields(d), NEW k \in Form!Fields, NEW v \in Form!Inputs[k]
  PROVE  HasFields([d EXCEPT ![k] = v])
<1>. DEFINE s == [d EXCEPT ![k] = v]
<1>1. s = [x \in Form!Fields |-> s[x]] /\ \A x \in Form!Fields : s[x] = IF x = k THEN v ELSE d[x]
  BY DEF HasFields
<1>2. k \in Form!Dates => v \in Int \cup {NoValue}
  BY DEF Form!Inputs, Form!Dates
<1>3. k = "departmentId" => v \in Departments \cup {NoValue}
  BY DEF Form!Inputs
<1>. HIDE DEF s
<1>4. HasFields(s)
  BY <1>1, <1>2, <1>3, FieldKinds DEF HasFields
<1>. QED
  BY <1>4 DEF s

\* What Given leaves of a payload is a payload.
LEMMA GivenIsPayload ==
  ASSUME NEW p, IsPayload(p)
  PROVE  IsPayload(Form!Given(p))
<1>1. /\ DOMAIN Form!Given(p) \subseteq DOMAIN p
      /\ \A k \in DOMAIN Form!Given(p) : k \notin Form!Texts => Form!Given(p)[k] = p[k]
  BY DEF Form!Given, Form!Without, Form!Trim
<1>. QED
  BY <1>1, FieldKinds DEF IsPayload

\* An open form.
LEMMA FormIsOpen ==
  ASSUME NEW x, IsForm(x)
  PROVE  x # Form!Closed
<1>1. "draft" \in DOMAIN x
  BY DEF IsForm
<1>2. "draft" \notin DOMAIN Form!Closed
  BY DEF Form!Closed
<1>. QED
  BY <1>1, <1>2

LEMMA OpenedIsForm ==
  ASSUME NEW mode, NEW d, mode = "create" \/ HasFields(d)
  PROVE  IsForm(Form!Opened(mode, d))
<1>. DEFINE draft == IF mode = "create" THEN Form!BlankDraft ELSE Form!DraftOf(d)
<1>1. HasFields(draft) /\ HasFields(Form!BlankDraft)
  BY DefaultsHaveFields, DraftHasFields
<1>2. Form!Opened(mode, d) = [mode |-> mode, draft |-> draft, row |-> d, errors |-> {},
                              sent |-> Form!BlankDraft]
  BY DEF Form!Opened
<1>. HIDE DEF draft
<1>. QED
  BY <1>1, <1>2 DEF IsForm

\* A step that changes the form of f alone.
FormTurns(f) == form' = [g \in Forms |-> IF g = f THEN form'[f] ELSE form[g]]

LEMMA FormSet ==
  ASSUME FormsAre, NEW f \in Forms, NEW x, form' = [form EXCEPT ![f] = x]
  PROVE  FormTurns(f) /\ form'[f] = x
BY DEF FormsAre, FormTurns

\* A step that turns the request of w, and its form if it has one.
LEMMA FormKeeps ==
  ASSUME FormAssumption, FormInv, DatesInv', NEW w \in Clients, Turns(w),
         doc' = Form!None \/ HasFields(doc'),
         form' = form \/ (w \in Forms /\ FormTurns(w)),
         w \in Forms => form'[w] = Form!Closed \/ IsForm(form'[w]),
         Asking(request'[w]) => IsPayload(request'[w].payload),
         w \in Forms /\ request'[w].at # "none" => form'[w] # Form!Closed,
         w \in Forms /\ Asking(request'[w]) =>
           /\ request'[w].payload = Form!Compact(form'[w].sent)
           /\ Form!Errors(form'[w].sent) = {}
  PROVE  FormInv'
<1>1. \A v \in Clients : v # w => request'[v] = request[v]
  BY DEF Turns
<1>2. \A g \in Forms : g # w => form'[g] = form[g]
  BY DEF FormTurns
<1>3. FormsAre'
  BY <1>2 DEF FormInv, FormsAre, FormTurns
<1>4. Forms \subseteq Clients
  BY DEF Clients
<1>5. FormSent'
  BY <1>1, <1>2, <1>4 DEF FormInv, FormSent, Asking
<1>6. \A v \in Clients : Asking(request'[v]) => IsPayload(request'[v].payload)
  BY <1>1 DEF FormInv
<1>7. /\ (doc = Form!None \/ HasFields(doc))'
      /\ (\A v \in Clients : Asking(request[v]) => IsPayload(request[v].payload))'
  <2>1. doc' = Form!None \/ HasFields(doc)'
    BY DEF HasFields, Form!Dates, Form!Fields, Form!Texts, Form!Numbers
  <2>. QED
    BY <1>6, <2>1 DEF Asking, IsPayload, Form!Dates
<1>. QED
  BY <1>3, <1>5, <1>7 DEF FormInv, Clients

\* The request and the form of a client that does nothing.
LEMMA FormOf ==
  ASSUME FormInv, NEW f \in Forms, form[f] # Form!Closed
  PROVE  \E mode, draft, row, errors, sent_ :
           /\ form[f] = [mode |-> mode, draft |-> draft, row |-> row, errors |-> errors,
                         sent |-> sent_]
           /\ HasFields(draft) /\ HasFields(sent_)
           /\ mode = "create" \/ HasFields(row)
BY DEF FormInv, FormsAre, IsForm

LEMMA SentHasFields ==
  ASSUME FormInv, NEW f \in Forms, form[f] # Form!Closed
  PROVE  HasFields(form[f].sent)
<1>1. PICK mode, draft, row, errors, sent_ :
        /\ form[f] = [mode |-> mode, draft |-> draft, row |-> row, errors |-> errors,
                      sent |-> sent_]
        /\ HasFields(draft) /\ HasFields(sent_)
        /\ mode = "create" \/ HasFields(row)
  BY FormOf
<1>2. form[f].sent = sent_
  BY <1>1
<1>. QED
  BY <1>1, <1>2

LEMMA RequestsStay ==
  ASSUME FormInv, request' = request, NEW w \in Clients
  PROVE  Turns(w)
BY DEF FormInv, DatesInv, Turns

LEMMA InitForm == FormAssumption /\ Form!Init => FormInv
<1>. SUFFICES ASSUME FormAssumption, Form!Init PROVE FormInv
  OBVIOUS
<1>1. DatesInv
  BY InitDates
<1>2. ASSUME NEW p, p = [firstName |-> "Ann", employmentType |-> "Part-time",
                         isShareholder |-> TRUE, ethnicity |-> "Ann", hireDate |-> 5,
                         birthDate |-> 2, vacationDays |-> 4]
      PROVE  IsPayload(p)
  BY <1>2 DEF IsPayload, Form!Dates
<1>3. doc = Form!None \/ HasFields(doc)
  BY <1>2, StoredHasFields, DefaultsHaveFields DEF Form!Init, Form!Imported
<1>4. FormsAre
  BY DEF Form!Init, FormsAre
<1>5. \A w \in Clients : request[w] = Form!NoRequest
  BY DEF Form!Init, Clients
<1>6. Form!NoRequest.at = "none"
  BY DEF Form!NoRequest
<1>. QED
  BY <1>1, <1>3, <1>4, <1>5, <1>6 DEF FormInv, FormSent, Asking, Clients

\* The form's own steps.
LEMMA FormOpenKeeps ==
  ASSUME FormAssumption, FormInv, DatesInv', NEW f \in Forms, Form!Open(f) \/ Form!Reset(f)
  PROVE  FormInv'
<1>0. /\ f \in Clients /\ request' = request /\ doc' = doc /\ request[f].at = "none"
  BY DEF Form!Open, Form!Reset, Form!NoRequest, Clients
<1>1. Turns(f)
  BY <1>0, RequestsStay
<1>2. PICK mode, d : /\ form' = [form EXCEPT ![f] = Form!Opened(mode, d)]
                     /\ mode = "create" \/ HasFields(d)
  <2>1. CASE Form!Open(f)
    BY <2>1 DEF Form!Open, FormInv
  <2>2. CASE Form!Reset(f)
    <3>0. form[f] # Form!Closed
      BY <2>2 DEF Form!Reset
    <3>1. PICK mode, draft, row, errors, sent_ :
           /\ form[f] = [mode |-> mode, draft |-> draft, row |-> row, errors |-> errors,
                         sent |-> sent_]
           /\ HasFields(draft) /\ HasFields(sent_)
           /\ mode = "create" \/ HasFields(row)
      BY <3>0, FormOf
    <3>2. form[f].mode = mode /\ form[f].row = row
      BY <3>1
    <3>. QED
      BY <2>2, <3>1, <3>2 DEF Form!Reset
  <2>. QED
    BY <2>1, <2>2
<1>3. IsForm(Form!Opened(mode, d))
  BY <1>2, OpenedIsForm
<1>4. FormTurns(f) /\ form'[f] = Form!Opened(mode, d)
  BY <1>2, FormSet DEF FormInv
<1>. QED
  BY <1>0, <1>1, <1>3, <1>4, FormKeeps DEF FormInv, Asking

LEMMA ChangeKeeps ==
  ASSUME FormAssumption, FormInv, DatesInv', NEW f \in Forms, NEW k \in Form!Fields,
         NEW v \in Form!Inputs[k], Form!Change(f, k, v)
  PROVE  FormInv'
<1>1. f \in Clients /\ request' = request /\ doc' = doc /\ Turns(f)
  BY RequestsStay DEF Form!Change, Clients
<1>2. PICK mode, draft, row, errors, sent_ :
        /\ form[f] = [mode |-> mode, draft |-> draft, row |-> row, errors |-> errors,
                      sent |-> sent_]
        /\ HasFields(draft) /\ HasFields(sent_)
        /\ mode = "create" \/ HasFields(row)
  BY FormOf DEF Form!Change
<1>3. PICK x : form' = [form EXCEPT ![f].draft[k] = v, ![f].errors = x]
  BY DEF Form!Change
<1>f. form[f] = [mode |-> mode, draft |-> draft, row |-> row, errors |-> errors,
                 sent |-> sent_]
  BY <1>2
<1>g. FormsAre
  BY DEF FormInv
<1>4. /\ FormTurns(f)
      /\ form'[f] = [mode |-> mode, draft |-> [draft EXCEPT ![k] = v], row |-> row,
                     errors |-> x, sent |-> sent_]
  <2>. DEFINE q == [form EXCEPT ![f].draft[k] = v]
  <2>1. /\ q = [g \in Forms |-> q[g]] /\ \A g \in Forms : g # f => q[g] = form[g]
        /\ q[f] = [mode |-> mode, draft |-> [draft EXCEPT ![k] = v], row |-> row,
                   errors |-> errors, sent |-> sent_]
    BY <1>f, <1>g DEF FormsAre
  <2>2. form' = [q EXCEPT ![f].errors = x]
    BY <1>3
  <2>. HIDE DEF q
  <2>. QED
    BY <2>1, <2>2, <1>g DEF FormsAre, FormTurns
<1>5. HasFields([draft EXCEPT ![k] = v])
  BY <1>2, ChangedHasFields
<1>6. IsForm([mode |-> mode, draft |-> [draft EXCEPT ![k] = v], row |-> row,
              errors |-> x, sent |-> sent_])
  BY <1>2, <1>5 DEF IsForm
<1>7. IsForm(form'[f]) /\ form'[f].sent = sent_ /\ form[f].sent = sent_
  BY <1>2, <1>4, <1>6
<1>8. form'[f] # Form!Closed
  BY <1>7, FormIsOpen
<1>. QED
  BY <1>1, <1>4, <1>7, <1>8, FormKeeps DEF FormInv, FormSent

LEMMA AskedIs ==
  ASSUME DatesInv, NEW w \in Clients, NEW mode, NEW payload, Form!Asks(w, mode, payload)
  PROVE  Turns(w) /\ request'[w].at = "contract" /\ request'[w].payload = payload
<1>. DEFINE r == [at |-> "contract", mode |-> mode, payload |-> payload, found |-> Form!None]
<1>1. IsRequest(r) /\ r.at = "contract" /\ r.payload = payload
  BY DEF IsRequest
<1>2. request' = [request EXCEPT ![w] = r]
  BY DEF Form!Asks
<1>. HIDE DEF r
<1>. QED
  BY <1>1, <1>2, RequestSet

LEMMA FormSubmitKeeps ==
  ASSUME FormAssumption, FormInv, DatesInv', NEW f \in Forms, Form!Submit(f)
  PROVE  FormInv'
<1>0. f \in Clients /\ doc' = doc /\ form[f] # Form!Closed /\ request[f].at = "none"
  BY DEF Form!Submit, Form!NoRequest, Clients
<1>1. PICK mode, draft, row, errors, sent_ :
        /\ form[f] = [mode |-> mode, draft |-> draft, row |-> row, errors |-> errors,
                      sent |-> sent_]
        /\ HasFields(draft) /\ HasFields(sent_)
        /\ mode = "create" \/ HasFields(row)
  BY <1>0, FormOf
<1>2. form[f].draft = draft /\ FormsAre
  BY <1>1 DEF FormInv
<1>3. CASE request' = request
  <2>1. PICK x : form' = [form EXCEPT ![f].errors = x]
    BY <1>0, <1>3, AskedIs DEF Form!Submit, FormInv
  <2>2. /\ FormTurns(f)
        /\ form'[f] = [mode |-> mode, draft |-> draft, row |-> row, errors |-> x,
                       sent |-> sent_]
    BY <1>1, <1>2, <2>1 DEF FormsAre, FormTurns
  <2>3. IsForm(form'[f])
    BY <1>1, <2>2 DEF IsForm
  <2>4. form'[f] # Form!Closed
    BY <2>3, FormIsOpen
  <2>. QED
    BY <1>0, <1>3, <2>2, <2>3, <2>4, RequestsStay, FormKeeps DEF FormInv, Asking
<1>4. CASE request' # request
  <2>1. /\ Form!Errors(draft) = {} /\ form' = [form EXCEPT ![f].sent = draft]
        /\ \E m : Form!Asks(f, m, Form!Compact(draft))
    BY <1>2, <1>4 DEF Form!Submit
  <2>2. /\ FormTurns(f)
        /\ form'[f] = [mode |-> mode, draft |-> draft, row |-> row, errors |-> errors,
                       sent |-> draft]
    BY <1>1, <1>2, <2>1 DEF FormsAre, FormTurns
  <2>3. IsForm(form'[f]) /\ form'[f].sent = draft
    <3>1. IsForm([mode |-> mode, draft |-> draft, row |-> row, errors |-> errors,
                  sent |-> draft])
      BY <1>1 DEF IsForm
    <3>. QED
      BY <2>2, <3>1
  <2>4. form'[f] # Form!Closed
    BY <2>3, FormIsOpen
  <2>5. /\ Turns(f) /\ request'[f].at = "contract"
        /\ request'[f].payload = Form!Compact(draft)
    BY <1>0, <2>1, AskedIs DEF FormInv
  <2>6. IsPayload(Form!Compact(draft))
    BY <1>1, CompactKeeps, CompactIsGiven
  <2>. QED
    BY <1>0, <2>1, <2>2, <2>3, <2>4, <2>5, <2>6, FormKeeps DEF FormInv
<1>. QED
  BY <1>3, <1>4

LEMMA ClientKeeps ==
  ASSUME FormAssumption, FormInv, DatesInv', Form!ClientSends
  PROVE  FormInv'
<1>1. Client \in Clients /\ Client \notin Forms /\ form' = form /\ doc' = doc
  BY DEF Form!ClientSends, Clients, FormAssumption
<1>2. PICK k, v : /\ Form!Asks(Client, "update", Form!Without([x \in {k} |-> v], NoValue))
                  /\ k # "departmentId" /\ (k \in Form!Dates => v \in Int)
  <2>1. PICK k \in Form!Dates \cup {"vacationDays", "annualEarnings"} :
          \E v \in IF k \in Form!Dates THEN {2, 4} ELSE {NoValue, 0, 3} :
            Form!Asks(Client, "update", Form!Without([x \in {k} |-> v], NoValue))
    BY DEF Form!ClientSends
  <2>2. PICK v \in IF k \in Form!Dates THEN {2, 4} ELSE {NoValue, 0, 3} :
          Form!Asks(Client, "update", Form!Without([x \in {k} |-> v], NoValue))
    BY <2>1
  <2>3. k # "departmentId"
    BY FieldKinds
  <2>4. k \in Form!Dates => v \in Int
    OBVIOUS
  <2>. QED
    BY <2>2, <2>3, <2>4
<1>3. IsPayload(Form!Without([x \in {k} |-> v], NoValue))
  BY <1>2 DEF IsPayload, Form!Without
<1>4. /\ Turns(Client)
      /\ request'[Client].payload = Form!Without([x \in {k} |-> v], NoValue)
  BY <1>1, <1>2, AskedIs DEF FormInv
<1>. QED
  BY <1>1, <1>3, <1>4, FormKeeps DEF FormInv

\* The service goes on with a request, or with what it made of its payload.
LEMMA FormServedKeeps ==
  ASSUME FormAssumption, FormInv, DatesInv', NEW w \in Clients, Asking(request[w]), Turns(w),
         form' = form, doc' = Form!None \/ HasFields(doc'),
         \/ request'[w].payload = request[w].payload
         \/ request'[w].payload = Form!Given(request[w].payload)
  PROVE  FormInv'
<1>1. IsPayload(request[w].payload)
  BY DEF FormInv
<1>2. IsPayload(request'[w].payload)
  BY <1>1, GivenIsPayload
<1>3. ASSUME w \in Forms
      PROVE  /\ form[w] # Form!Closed /\ Form!Errors(form[w].sent) = {}
             /\ request'[w].payload = Form!Compact(form[w].sent)
  <2>1. /\ form[w] # Form!Closed /\ Form!Errors(form[w].sent) = {}
        /\ request[w].payload = Form!Compact(form[w].sent)
    BY <1>3 DEF FormInv, FormSent, Asking
  <2>2. HasFields(form[w].sent)
    BY <1>3, <2>1, SentHasFields
  <2>3. Form!Given(Form!Compact(form[w].sent)) = Form!Compact(form[w].sent)
    BY <2>2, CompactKeeps, CompactIsGiven
  <2>. QED
    BY <2>1, <2>3
<1>. QED
  BY <1>2, <1>3, FormKeeps DEF FormInv, FormsAre

\* What the service made of the payload is the payload or what Given leaves.
LEMMA ContractTurns ==
  ASSUME FormInv, NEW w \in Clients, Form!Contract(w) \/ Form!Find(w)
  PROVE  /\ Asking(request[w]) /\ Turns(w)
         /\ \/ request'[w].payload = request[w].payload
            \/ request'[w].payload = Form!Given(request[w].payload)
<1>1. /\ Asking(request[w]) /\ request[w].at # "none" /\ DatesInv
  BY DEF Form!Contract, Form!Find, Form!At, Asking, FormInv
<1>2. /\ Turns(w)
      /\ \/ request'[w].payload = request[w].payload
         \/ request'[w].payload = Form!Given(request[w].payload)
  <2>1. ASSUME NEW at, request' = [request EXCEPT ![w].at = at]
        PROVE  Turns(w) /\ request'[w].payload = request[w].payload
    BY <1>1, <2>1, RequestMoves
  <2>2. ASSUME NEW at, NEW x, request' = [request EXCEPT ![w].at = at, ![w].payload = x]
        PROVE  Turns(w) /\ request'[w].payload = x
    BY <1>1, <2>2, RequestGiven
  <2>3. ASSUME NEW at, NEW x, request' = [request EXCEPT ![w].at = at, ![w].found = x]
        PROVE  Turns(w) /\ request'[w].payload = request[w].payload
    BY <1>1, <2>3, RequestFound
  <2>4. CASE Form!Contract(w)
    BY <2>1, <2>2, <2>4 DEF Form!Contract, Form!Replies
  <2>5. CASE Form!Find(w)
    BY <2>1, <2>3, <2>5 DEF Form!Find, Form!Replies
  <2>. QED
    BY <2>4, <2>5
<1>. QED
  BY <1>1, <1>2

LEMMA ContractKeeps ==
  ASSUME FormAssumption, FormInv, DatesInv', NEW w \in Clients,
         Form!Contract(w) \/ Form!Find(w)
  PROVE  FormInv'
<1>1. /\ form' = form /\ doc' = doc /\ (doc = Form!None \/ HasFields(doc))
  BY DEF Form!Contract, Form!Find, FormInv
<1>2. \/ request'[w].payload = request[w].payload
      \/ request'[w].payload = Form!Given(request[w].payload)
  BY ContractTurns
<1>. QED
  BY <1>1, <1>2, ContractTurns, FormServedKeeps

\* What a write stores, and that its request is answered with it.
LEMMA WriteIs ==
  ASSUME FormInv, NEW w \in Clients, Form!Update(w) \/ Form!Save(w)
  PROVE  /\ Asking(request[w]) /\ request[w].at \in {"update", "save"} /\ Turns(w)
         /\ request'[w].payload = request[w].payload
         /\ \/ /\ request[w].at = "update" /\ doc = Form!None /\ doc' = doc
               /\ request'[w].at = "missing"
            \/ /\ request[w].at = "update" /\ doc # Form!None
               /\ doc' = Form!Stored(doc, request[w].payload) /\ request'[w].at = "saved"
            \/ /\ request[w].at = "save" /\ request'[w].at = "saved"
               /\ doc' = Form!Stored(Form!Defaults, request[w].payload)
<1>1. DatesInv /\ request[w].at # "none" /\ Asking(request[w])
  BY DEF FormInv, Form!Update, Form!Save, Form!At, Asking
<1>2. ASSUME NEW at, request' = [request EXCEPT ![w].at = at]
      PROVE  Turns(w) /\ request'[w].at = at /\ request'[w].payload = request[w].payload
  BY <1>1, <1>2, RequestMoves
<1>3. CASE Form!Update(w)
  BY <1>1, <1>2, <1>3 DEF Form!Update, Form!Replies, Form!At
<1>4. CASE Form!Save(w)
  BY <1>1, <1>2, <1>4 DEF Form!Save, Form!Replies, Form!At
<1>. QED
  BY <1>3, <1>4

LEMMA WriteKeeps ==
  ASSUME FormAssumption, FormInv, DatesInv', NEW w \in Clients, Form!Update(w) \/ Form!Save(w)
  PROVE  FormInv'
<1>1. /\ Asking(request[w]) /\ Turns(w) /\ request'[w].payload = request[w].payload
      /\ form' = form
  BY WriteIs DEF Form!Update, Form!Save
<1>2. IsPayload(request[w].payload)
  BY <1>1 DEF FormInv
<1>3. \A d : HasFields(d) => HasFields(Form!Stored(d, request[w].payload))
  BY <1>2, StoredHasFields
<1>4. doc' = Form!None \/ HasFields(doc')
  BY <1>3, WriteIs, DefaultsHaveFields DEF FormInv
<1>. QED
  BY <1>1, <1>4, FormServedKeeps

LEMMA FormAnsweredKeeps ==
  ASSUME FormAssumption, FormInv, DatesInv', NEW w \in Clients, Form!Answered(w)
  PROVE  FormInv'
<1>1. /\ request' = [request EXCEPT ![w] = Form!NoRequest] /\ doc' = doc
      /\ request[w].at # "none" /\ FormsAre
  BY DEF Form!Answered, FormInv
<1>2. Turns(w) /\ request'[w].at = "none"
  <2>1. IsRequest(Form!NoRequest) /\ Form!NoRequest.at = "none"
    BY DEF IsRequest, Form!NoRequest
  <2>. QED
    BY <1>1, <2>1, RequestSet DEF FormInv
<1>3. CASE w \notin Forms
  <2>1. form' = form
    BY <1>3 DEF Form!Answered, Clients
  <2>. QED
    BY <1>1, <1>2, <1>3, <2>1, FormKeeps DEF FormInv, Asking
<1>4. CASE w \in Forms
  <2>1. PICK mode, draft, row, errors, sent_ :
          /\ form[w] = [mode |-> mode, draft |-> draft, row |-> row, errors |-> errors,
                        sent |-> sent_]
          /\ HasFields(draft) /\ HasFields(sent_)
          /\ mode = "create" \/ HasFields(row)
    BY <1>1, <1>4, FormOf DEF FormInv, FormSent
  <2>2. form[w].mode = mode /\ form[w].row = row /\ w # Client
    BY <1>4, <2>1 DEF FormAssumption
  <2>3. \/ form' = [form EXCEPT ![w].sent = Form!BlankDraft]
        \/ form' = [form EXCEPT ![w] = Form!Opened("create", Form!None)]
        \/ \E y : /\ form' = [form EXCEPT ![w].sent = Form!BlankDraft, ![w].row = y]
                  /\ y = row \/ HasFields(y)
    BY <2>2 DEF Form!Answered, FormInv
  <2>4. FormTurns(w) /\ IsForm(form'[w])
    <3>1. CASE form' = [form EXCEPT ![w].sent = Form!BlankDraft]
      <4>1. /\ FormTurns(w)
            /\ form'[w] = [mode |-> mode, draft |-> draft, row |-> row, errors |-> errors,
                           sent |-> Form!BlankDraft]
        BY <1>1, <1>4, <2>1, <3>1 DEF FormsAre, FormTurns
      <4>. QED
        BY <2>1, <4>1, DefaultsHaveFields DEF IsForm
    <3>2. CASE form' = [form EXCEPT ![w] = Form!Opened("create", Form!None)]
      <4>1. FormTurns(w) /\ form'[w] = Form!Opened("create", Form!None)
        BY <1>1, <1>4, <3>2, FormSet
      <4>. QED
        BY <4>1, OpenedIsForm
    <3>3. ASSUME NEW y, form' = [form EXCEPT ![w].sent = Form!BlankDraft, ![w].row = y],
                 y = row \/ HasFields(y)
          PROVE  FormTurns(w) /\ IsForm(form'[w])
      <4>1. /\ FormTurns(w)
            /\ form'[w] = [mode |-> mode, draft |-> draft, row |-> y, errors |-> errors,
                           sent |-> Form!BlankDraft]
        <5>. DEFINE q == [form EXCEPT ![w].sent = Form!BlankDraft]
        <5>1. /\ q = [g \in Forms |-> q[g]] /\ \A g \in Forms : g # w => q[g] = form[g]
              /\ q[w] = [mode |-> mode, draft |-> draft, row |-> row, errors |-> errors,
                         sent |-> Form!BlankDraft]
          BY <1>1, <1>4, <2>1 DEF FormsAre
        <5>2. form' = [q EXCEPT ![w].row = y]
          BY <3>3
        <5>. HIDE DEF q
        <5>. QED
          BY <1>4, <5>1, <5>2 DEF FormsAre, FormTurns
      <4>2. mode = "create" \/ HasFields(y)
        BY <2>1, <3>3
      <4>. QED
        BY <2>1, <4>1, <4>2, DefaultsHaveFields DEF IsForm
    <3>. QED
      BY <2>3, <3>1, <3>2, <3>3
  <2>. QED
    BY <1>1, <1>2, <1>4, <2>4, FormKeeps DEF FormInv, Asking
<1>. QED
  BY <1>3, <1>4

LEMMA NextForm ==
  ASSUME FormAssumption, FormInv, [Form!Next]_formVars
  PROVE  FormInv'
<1>d. DatesInv'
  BY NextDates DEF FormInv
<1>1. CASE UNCHANGED formVars
  <2>1. doc' = doc /\ form' = form /\ request' = request
    BY <1>1 DEF formVars
  <2>2. Client \in Clients /\ Client \notin Forms
    BY DEF Clients, FormAssumption
  <2>3. Turns(Client)
    BY <2>1, <2>2, RequestsStay
  <2>. QED
    BY <1>d, <2>1, <2>2, <2>3, FormKeeps DEF FormInv
<1>2. CASE Form!Delete
  <2>1. doc' = Form!None /\ form' = form /\ request' = request
    BY <1>2 DEF Form!Delete
  <2>2. Client \in Clients /\ Client \notin Forms
    BY DEF Clients, FormAssumption
  <2>3. Turns(Client)
    BY <2>1, <2>2, RequestsStay
  <2>. QED
    BY <1>d, <2>1, <2>2, <2>3, FormKeeps DEF FormInv
<1>3. CASE \E f \in Forms : Form!Open(f) \/ Form!Reset(f)
  BY <1>d, <1>3, FormOpenKeeps
<1>4. CASE \E f \in Forms : Form!Submit(f)
  BY <1>d, <1>4, FormSubmitKeeps
<1>5. CASE \E f \in Forms : \E k \in Form!Fields : \E v \in Form!Inputs[k] : Form!Change(f, k, v)
  BY <1>d, <1>5, ChangeKeeps
<1>6. CASE Form!ClientSends
  BY <1>d, <1>6, ClientKeeps
<1>7. CASE \E w \in Clients : Form!Contract(w) \/ Form!Find(w)
  BY <1>d, <1>7, ContractKeeps
<1>8. CASE \E w \in Clients : Form!Update(w) \/ Form!Save(w)
  BY <1>d, <1>8, WriteKeeps
<1>9. CASE \E w \in Clients : Form!Answered(w)
  BY <1>d, <1>9, FormAnsweredKeeps
<1>. QED
  BY <1>1, <1>2, <1>3, <1>4, <1>5, <1>6, <1>7, <1>8, <1>9 DEF Form!Next, Clients

\* Who moves the request of a form.
LEMMA WhoMovesIt ==
  ASSUME FormAssumption, FormInv, [Form!Next]_formVars, NEW f \in Forms,
         request'[f].at # request[f].at, request[f].at # "none", request'[f].at # "none"
  PROVE  \/ Form!Contract(f) \/ Form!Find(f) \/ Form!Update(f) \/ Form!Save(f)
<1>0. DatesInv /\ f \in Clients
  BY DEF FormInv, Clients
<1>1. ASSUME request' = request \/ \E w \in Clients : w # f /\ Turns(w)
      PROVE  FALSE
  BY <1>0, <1>1 DEF Turns
<1>2. ~ UNCHANGED formVars /\ ~ Form!Delete
  BY <1>1 DEF formVars, Form!Delete
<1>3. ASSUME NEW g \in Forms
      PROVE  ~ Form!Open(g) /\ ~ Form!Reset(g) /\ ~ Form!Submit(g)
             /\ \A k, v : ~ Form!Change(g, k, v)
  <2>1. ~ Form!Open(g) /\ ~ Form!Reset(g) /\ \A k, v : ~ Form!Change(g, k, v)
    BY <1>1 DEF Form!Open, Form!Reset, Form!Change
  <2>2. ASSUME Form!Submit(g)
        PROVE  FALSE
    <3>1. g \in Clients /\ (request' = request \/ \E m, p : Form!Asks(g, m, p))
      BY <2>2 DEF Form!Submit, Clients
    <3>2. Turns(g) /\ g # f
      BY <1>0, <1>1, <2>2, <3>1, AskedIs DEF Form!Submit, Form!NoRequest
    <3>. QED
      BY <1>1, <3>1, <3>2
  <2>. QED
    BY <2>1, <2>2
<1>4. ~ Form!ClientSends
  <2>1. ASSUME Form!ClientSends
        PROVE  FALSE
    <3>1. PICK p : Form!Asks(Client, "update", p)
      BY <2>1 DEF Form!ClientSends
    <3>2. Client \in Clients /\ Client # f
      BY DEF Clients, FormAssumption
    <3>. QED
      BY <1>0, <1>1, <3>1, <3>2, AskedIs
  <2>. QED
    BY <2>1
<1>5. ASSUME NEW w \in Clients, Form!Contract(w) \/ Form!Find(w) \/ Form!Update(w) \/ Form!Save(w)
      PROVE  w = f
  BY <1>1, <1>5, ContractTurns, WriteIs
<1>6. ASSUME NEW w \in Clients, Form!Answered(w)
      PROVE  FALSE
  <2>1. IsRequest(Form!NoRequest) /\ Form!NoRequest.at = "none"
    BY DEF IsRequest, Form!NoRequest
  <2>2. Turns(w) /\ request'[w].at = "none"
    BY <1>0, <1>6, <2>1, RequestSet DEF Form!Answered
  <2>. QED
    BY <1>1, <2>2
<1>. QED
  BY <1>2, <1>3, <1>4, <1>5, <1>6 DEF Form!Next, Clients

LEMMA NotAskedIsNotRefused ==
  ASSUME FormAssumption, FormInv, [Form!Next]_formVars, NEW f \in Forms,
         request[f].at = "none"
  PROVE  request'[f].at # "refused"
<1>0. DatesInv /\ f \in Clients /\ ~ Asking(request[f])
  BY DEF FormInv, Clients, Asking
<1>1. ASSUME request' = request \/ \E w \in Clients : w # f /\ Turns(w)
      PROVE  request'[f].at # "refused"
  BY <1>0, <1>1 DEF Turns
<1>2. ASSUME NEW w \in Clients, NEW m, NEW p, Form!Asks(w, m, p)
      PROVE  request'[f].at # "refused"
  <2>1. Turns(w) /\ request'[w].at = "contract"
    BY <1>0, <1>2, AskedIs
  <2>. QED
    BY <1>0, <1>1, <2>1
<1>3. ASSUME NEW w \in Clients,
             Form!Contract(w) \/ Form!Find(w) \/ Form!Update(w) \/ Form!Save(w)
      PROVE  request'[f].at # "refused"
  BY <1>0, <1>1, <1>3, ContractTurns, WriteIs
<1>4. ASSUME NEW w \in Clients, Form!Answered(w)
      PROVE  request'[f].at # "refused"
  <2>1. IsRequest(Form!NoRequest) /\ Form!NoRequest.at = "none"
    BY DEF IsRequest, Form!NoRequest
  <2>2. Turns(w) /\ request'[w].at = "none"
    BY <1>0, <1>4, <2>1, RequestSet DEF Form!Answered
  <2>. QED
    BY <1>1, <2>2
<1>5. ASSUME NEW g \in Forms,
             \/ Form!Open(g) \/ Form!Reset(g) \/ Form!Submit(g)
             \/ \E k, v : Form!Change(g, k, v)
      PROVE  request'[f].at # "refused"
  <2>1. g \in Clients
    BY DEF Clients
  <2>. QED
    BY <1>1, <1>2, <1>5, <2>1 DEF Form!Open, Form!Reset, Form!Submit, Form!Change
<1>6. CASE Form!ClientSends
  <2>1. Client \in Clients
    BY DEF Clients
  <2>. QED
    BY <1>2, <1>6, <2>1 DEF Form!ClientSends
<1>7. CASE Form!Delete \/ UNCHANGED formVars
  BY <1>1, <1>7 DEF Form!Delete, formVars
<1>. QED
  BY <1>3, <1>4, <1>5, <1>6, <1>7 DEF Form!Next, Clients

LEMMA FormFaithful ==
  ASSUME FormAssumption, FormInv, [Form!Next]_formVars
  PROVE  Form!FormIsFaithful
<1>. SUFFICES ASSUME NEW f \in Forms
              PROVE  /\ request[f].at \in {"update", "save"} /\ request'[f].at = "saved" =>
                          LET before == IF request[f].at = "save" THEN Form!Defaults ELSE doc
                          IN  Form!DraftOf(doc')
                                = [k \in Form!Fields |->
                                     IF Form!Trim(k, form[f].sent[k]) = NoValue
                                     THEN Form!DraftOf(before)[k] ELSE form[f].sent[k]]
                     /\ request[f].at # "refused" /\ request'[f].at = "refused" =>
                          \/ "long" \in {form[f].sent[k] : k \in Form!Texts}
                          \/ Form!Cardinality({k \in Form!Dates : form[f].sent[k] = NoValue}) = 1
  BY DEF Form!FormIsFaithful
<1>0. f \in Clients
  BY DEF Clients
<1>1. ASSUME Asking(request[f])
      PROVE  /\ HasFields(form[f].sent) /\ Form!Errors(form[f].sent) = {}
             /\ request[f].payload = Form!Compact(form[f].sent)
             /\ CompactIs(form[f].sent, request[f].payload)
  <2>1. /\ form[f] # Form!Closed /\ Form!Errors(form[f].sent) = {}
        /\ request[f].payload = Form!Compact(form[f].sent)
    BY <1>1 DEF FormInv, FormSent, Asking
  <2>2. HasFields(form[f].sent)
    BY <2>1, SentHasFields
  <2>. QED
    BY <2>1, <2>2, CompactKeeps
<1>2. ASSUME request[f].at \in {"update", "save"}, request'[f].at = "saved"
      PROVE  LET before == IF request[f].at = "save" THEN Form!Defaults ELSE doc
             IN  Form!DraftOf(doc')
                   = [k \in Form!Fields |->
                        IF Form!Trim(k, form[f].sent[k]) = NoValue
                        THEN Form!DraftOf(before)[k] ELSE form[f].sent[k]]
  <2>1. Form!Update(f) \/ Form!Save(f)
    BY <1>2, WhoMovesIt DEF Form!Contract, Form!Find, Form!At
  <2>2. doc' = Form!Stored(IF request[f].at = "save" THEN Form!Defaults ELSE doc,
                           request[f].payload)
    BY <1>0, <1>2, <2>1, WriteIs
  <2>3. Asking(request[f])
    BY <1>2 DEF Asking
  <2>. QED
    BY <1>1, <2>2, <2>3, StoredShowsAgain
<1>3. ASSUME request[f].at # "refused", request'[f].at = "refused"
      PROVE  \/ "long" \in {form[f].sent[k] : k \in Form!Texts}
             \/ Form!Cardinality({k \in Form!Dates : form[f].sent[k] = NoValue}) = 1
  <2>1. request[f].at # "none"
    BY <1>3, NotAskedIsNotRefused
  <2>2. Form!Contract(f) \/ Form!Find(f)
    BY <1>0, <1>3, <2>1, WhoMovesIt, WriteIs
  <2>3. CASE Form!Contract(f)
    <3>1. Asking(request[f])
      BY <2>3 DEF Form!Contract, Form!At, Asking
    <3>2. \/ Form!Refused(request[f].payload, request[f].mode)
          \/ "departmentId" \in DOMAIN request[f].payload
             /\ request[f].payload.departmentId \notin Departments
      <4>1. ASSUME NEW x, request' = [request EXCEPT
                    ![f].at = IF request[f].mode = "create" THEN "save" ELSE "find",
                    ![f].payload = x]
            PROVE  request'[f].at # "refused"
        <5>1. DatesInv /\ request[f].at # "none"
          BY <2>1 DEF FormInv
        <5>2. request'[f].at = IF request[f].mode = "create" THEN "save" ELSE "find"
          BY <1>0, <4>1, <5>1, RequestGiven
        <5>. QED
          BY <5>2
      <4>. QED
        BY <1>3, <2>3, <4>1 DEF Form!Contract
    <3>. QED
      BY <1>1, <3>1, <3>2, OnlyTooLong
  <2>4. CASE Form!Find(f)
    <3>1. Asking(request[f])
      BY <2>4 DEF Form!Find, Form!At, Asking
    <3>2. ~ Form!Consistent(doc, request[f].payload)
      <4>1. ASSUME NEW at, request' = [request EXCEPT ![f].at = at]
            PROVE  request'[f].at = at
        BY <1>0, <2>1, <4>1, RequestMoves DEF FormInv
      <4>2. ASSUME NEW x, request' = [request EXCEPT ![f].at = "update", ![f].found = x]
            PROVE  request'[f].at = "update"
        BY <1>0, <2>1, <4>2, RequestFound DEF FormInv
      <4>. QED
        BY <1>3, <2>4, <4>1, <4>2 DEF Form!Find, Form!Replies
    <3>3. PICK k : {x \in Form!Dates : form[f].sent[x] = NoValue} = {k}
      BY <1>1, <3>1, <3>2, OneDateEmpty
    <3>. QED
      BY <3>3, OneElement
  <2>. QED
    BY <2>2, <2>3, <2>4
<1>. QED
  BY <1>2, <1>3

LEMMA FormInvariant == FormAssumption /\ PageSpec => [](part = "form" => FormInv)
<1>. SUFFICES ASSUME FormAssumption
              PROVE  PageSpec => [](part = "form" => FormInv)
  OBVIOUS
<1>1. PageInit => (part = "form" => FormInv)
  BY InitForm DEF PageInit, Begins
<1>2. (part = "form" => FormInv) /\ [PageNext]_pageVars => (part = "form" => FormInv)'
  BY OnePartRuns, NextForm
<1>. QED
  BY <1>1, <1>2, PTL DEF PageSpec

(***************************************************************************)
(* FormIsFaithful: when a form's request is written, the document shows    *)
(* again what the form showed and otherwise what it did; and a form that   *)
(* passed its own validation is refused only for a name too long or for    *)
(* the one of two dates that it left empty.  For any forms, clients,       *)
(* departments and numbers of edits and requests.                          *)
(***************************************************************************)
THEOREM FormsKeepTheirWord ==
  FormAssumption /\ PageSpec => [][part = "form" => Form!FormIsFaithful]_pageVars
<1>. SUFFICES ASSUME FormAssumption
              PROVE  PageSpec => [][part = "form" => Form!FormIsFaithful]_pageVars
  OBVIOUS
<1>1. (part = "form" => FormInv) /\ [PageNext]_pageVars => (part = "form" => Form!FormIsFaithful)
  BY OnePartRuns, FormFaithful
<1>. QED
  BY <1>1, FormInvariant, PTL DEF PageSpec

(***************************************************************************)
(* WordsReachTheirTarget: what was typed about one employee or alert is    *)
(* not sent as another's, reaches it as it was typed, and makes no second  *)
(* rule, whatever the order of the answers.                                *)
(***************************************************************************)
THEOREM WordsAreNotLost ==
  EditorAssumption /\ FormAssumption /\ PageSpec => WordsReachTheirTarget
<1>. SUFFICES ASSUME EditorAssumption, FormAssumption
              PROVE  PageSpec => WordsReachTheirTarget
  OBVIOUS
<1>. DEFINE I == /\ part = "editor" => EditorInv
                 /\ part = "alertsPage" => Detail!WordsReachTheirAlert
                 /\ part = "form" => FormInv
                 /\ part = "settings" => SettingsInv
            A == /\ part = "editor" => Editor!SendsItsEmployee
                 /\ part = "alertsPage" => Detail!WordsReachTheirAlert'
                 /\ part = "form" => Form!FormIsFaithful
                 /\ part = "settings" => Settings!MakesWhatIsMissing
<1>1. I /\ I' /\ [PageNext]_pageVars => A
  <2>. SUFFICES ASSUME I, I', [PageNext]_pageVars PROVE A
    OBVIOUS
  <2>1. part' = part
    BY DEF PageNext, OnlyPage, pageVars
  <2>2. part = "editor" => Editor!SendsItsEmployee
    BY OnePartRuns, SubmitSends
  <2>3. part = "form" => Form!FormIsFaithful
    BY OnePartRuns, FormFaithful
  <2>4. part = "settings" => Settings!MakesWhatIsMissing
    BY OnePartRuns DEF SettingsInv, MakesMissing, Settings!MakesWhatIsMissing
  <2>5. part = "alertsPage" => Detail!WordsReachTheirAlert'
    BY <2>1
  <2>. QED
    BY <2>2, <2>3, <2>4, <2>5
<1>0. (part = "alertsPage" => DetailInv)
        => (part = "alertsPage" => Detail!WordsReachTheirAlert)
  BY DetailShows
<1>2. PageSpec => []I
  BY <1>0, EditorInvariant, DetailInvariant, FormInvariant, SettingsInvariant, PTL
<1>. QED
  BY <1>1, <1>2, PTL DEF PageSpec, WordsReachTheirTarget
=============================================================================
