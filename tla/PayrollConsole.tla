---------------------------- MODULE PayrollConsole ----------------------------
(***************************************************************************)
(* The payroll console (public/payroll-console): a page of its own that    *)
(* borrows the session of the SA service.  It keeps an access token in     *)
(* memory; the refresh cookie is the browser's, shared with the dashboard. *)
(*                                                                         *)
(* Sign-in, clearing the session and looking a record up each await        *)
(* several answers, and nothing keeps one from being begun while another   *)
(* is under way.  The services are those of Sessions, every handler done   *)
(* at once here: an issue is a pair of tokens, and the stored issues are   *)
(* the newest of each session.  The payroll service asks only that an      *)
(* access token is unexpired.  Left out: the sign-in that a local demo     *)
(* (?demoLogin=1) submits by itself when no session could be restored.     *)
(***************************************************************************)
EXTENDS Naturals, FiniteSets

CONSTANTS
  Staff,       \* employees with a payroll record
  NoRecord,    \* no record, no employee
  Slots,       \* bound: what can be under way at once, 1..n
  MaxIssues,   \* bound: token pairs signed
  MaxActs,     \* bound: what the user does
  MaxMishaps   \* bound: what happens elsewhere, answers lost, errors

VARIABLES
  auth,        \* the SA service: the issues stored, signed and expired
  cookie,      \* the issue of the refresh cookie, 0 without one
  page,        \* the console: token, signedIn, field, shown, linked
  flows,       \* what is under way in each slot
  acts,        \* what the user did so far
  mishaps,     \* what went wrong, or happened elsewhere, so far
  last,        \* what was begun last and what it could count on
  alone        \* nothing else happened while it was under way

vars == <<auth, cookie, page, flows, acts, mishaps, last, alone>>

Keep == MaxIssues + 1     \* an answer that leaves the cookie as it is

Idle == [op |-> "idle"]
NoAnswer == [is |-> "none", token |-> 0, cookie |-> Keep]

\* A flow that sends a request, with the token and the cookie of the moment.
Sends(op, emp, at, again, token, jar) ==
  [op |-> op, emp |-> emp, at |-> at, again |-> again, token |-> token, jar |-> jar,
   answer |-> NoAnswer]

Quiet == \A i \in Slots : flows[i] = Idle

LiveToken(t) == t # 0 /\ t > auth.expired

-----------------------------------------------------------------------------
\* The console as the page is loaded: the employee of its address is in the
\* field, and the session is asked for.
Init ==
  /\ cookie \in {0, 1}
  /\ \E live \in SUBSET {1} : auth = [stored |-> live, issued |-> 1, expired |-> 0]
  /\ \E e \in Staff \cup {NoRecord} :
       /\ page = [token |-> 0, signedIn |-> FALSE, field |-> e, shown |-> NoRecord, linked |-> e]
       /\ flows = [i \in Slots |-> IF i = 1 THEN Sends("start", e, "probe", FALSE, 0, cookie)
                                  ELSE Idle]
  /\ acts = 0 /\ mishaps = 0
  /\ last = [op |-> "start", emp |-> NoRecord, able |-> FALSE]
  /\ alone = TRUE

\* The user begins something; what is shown goes on being shown.
Begins(i, op, emp, at) ==
  /\ flows[i] = Idle /\ \A j \in 1..(i - 1) : flows[j] # Idle
  /\ acts < MaxActs /\ acts' = acts + 1
  /\ flows' = [flows EXCEPT ![i] = Sends(op, emp, at, FALSE, page.token, cookie)]
  /\ last' = [op |-> op, emp |-> emp,
              able |-> LiveToken(page.token) \/ cookie \in auth.stored]
  /\ alone' = Quiet
  /\ UNCHANGED <<auth, cookie, mishaps>>

\* lookupRecord
Lookup(i, e) ==
  /\ page.token # 0
  /\ Begins(i, "lookup", e, "ask")
  /\ page' = [page EXCEPT !.field = e]

SignIn(i) == Begins(i, "signin", NoRecord, "signin") /\ UNCHANGED page

\* clearSession and revokeSharedSessionFlow: without a token one is asked
\* for to sign out with
ClearSession(i) ==
  /\ page.signedIn
  /\ Begins(i, "clear", NoRecord, IF page.token # 0 THEN "logout" ELSE "probe")
  /\ UNCHANGED page

-----------------------------------------------------------------------------
\* The services.
Says(is) == [NoAnswer EXCEPT !.is = is]

Answers(i, answer) == flows' = [flows EXCEPT ![i].answer = answer]

Asked(i, at) == flows[i] # Idle /\ flows[i].at \in at /\ flows[i].answer = NoAnswer

\* A new issue, in the place of those given up.
Issue(gone) ==
  /\ auth.issued < MaxIssues
  /\ auth' = [auth EXCEPT !.issued = @ + 1, !.stored = (@ \ gone) \cup {auth.issued + 1}]

NewTokens == [is |-> "ok", token |-> auth.issued + 1, cookie |-> auth.issued + 1]

\* getPayrollPayRateByEmployeeId behind verifyToken of the payroll service,
\* which looks at the token alone
ServeLookup(i) ==
  /\ Asked(i, {"ask"})
  /\ Answers(i, Says(IF LiveToken(flows[i].token) THEN "ok"
                     ELSE IF flows[i].token = 0 THEN "error" ELSE "refused"))
  /\ UNCHANGED auth

\* sessionStatusHandler; a cookie that cannot be used is taken away
ServeProbe(i) ==
  /\ Asked(i, {"probe"})
  /\ LET jar == flows[i].jar
     IN Answers(i, IF jar \in auth.stored THEN Says("ok")
                   ELSE [Says("refused") EXCEPT !.cookie = IF jar = 0 THEN Keep ELSE 0])
  /\ UNCHANGED auth

\* refreshHandler: the session goes on under the new issue
ServeRefresh(i) ==
  /\ Asked(i, {"refresh"})
  /\ LET jar == flows[i].jar
     IN \/ jar \in auth.stored /\ Issue({jar}) /\ Answers(i, NewTokens)
        \/ /\ jar \notin auth.stored
           /\ Answers(i, [Says("refused") EXCEPT !.cookie = IF jar = 0 THEN Keep ELSE 0])
           /\ UNCHANGED auth

\* signinHandler
ServeSignin(i) == Asked(i, {"signin"}) /\ Issue({}) /\ Answers(i, NewTokens)

\* logoutHandler behind verifyToken of the SA service, which looks the token
\* up as well; the sessions of the token and of the cookie end
ServeLogout(i) ==
  /\ Asked(i, {"logout"})
  /\ LET f == flows[i]
     IN \/ /\ LiveToken(f.token) /\ f.token \in auth.stored
           /\ auth' = [auth EXCEPT !.stored = @ \ {f.token, f.jar}]
           /\ Answers(i, [Says("ok") EXCEPT !.cookie = 0])
        \/ /\ ~(LiveToken(f.token) /\ f.token \in auth.stored)
           /\ Answers(i, Says("refused"))
           /\ UNCHANGED auth

Serve(i) ==
  /\ \/ ServeLookup(i) \/ ServeProbe(i) \/ ServeRefresh(i) \/ ServeSignin(i) \/ ServeLogout(i)
  /\ UNCHANGED <<cookie, page, acts, mishaps, last, alone>>

\* A request fails, before it is served or on the way back: fetch throws, or
\* an error is answered.
Fails(i) ==
  /\ flows[i] # Idle /\ flows[i].answer.is \in {"none", "ok"}
  /\ mishaps < MaxMishaps /\ mishaps' = mishaps + 1
  /\ \E is \in {"error", "thrown"} : Answers(i, Says(is))
  /\ alone' = FALSE
  /\ UNCHANGED <<auth, cookie, page, acts, last>>

-----------------------------------------------------------------------------
\* The answers.  The browser keeps the cookie that comes with one.
Jar(i) == IF flows[i].answer.cookie = Keep THEN cookie ELSE flows[i].answer.cookie
Is(i, op, at, is) ==
  /\ flows[i] # Idle /\ flows[i].op \in op /\ flows[i].at = at /\ flows[i].answer.is \in is
Failed == {"refused", "error", "thrown"}

Ends(i) == flows' = [flows EXCEPT ![i] = Idle]
GoesOn(i, op, emp, at, again) ==
  flows' = [flows EXCEPT ![i] = Sends(op, emp, at, again, page'.token, cookie')]

NoSession(p) == [p EXCEPT !.token = 0, !.signedIn = FALSE]
Session(p, token) == [p EXCEPT !.token = token, !.signedIn = TRUE]
ResetRecordView(p) == [p EXCEPT !.shown = NoRecord]

\* maybeAutoLookupRequestedEmployee, at the end of a sign-in and of the
\* start: the employee of the address, or whoever was typed over it
AutoLookup(i, p) ==
  /\ page' = p
  /\ IF p.linked = NoRecord \/ p.token = 0 \/ p.shown = p.field THEN Ends(i)
     ELSE GoesOn(i, "lookup", p.field, "ask", FALSE)

\* lookupRecord and fetchWithSharedSession: a token refused is replaced once
LookupAnswered(i) ==
  \/ /\ Is(i, {"lookup"}, "ask", {"ok"})
     /\ page' = [page EXCEPT !.shown = flows[i].emp] /\ Ends(i)
  \/ /\ Is(i, {"lookup"}, "ask", {"refused"}) /\ ~flows[i].again
     /\ UNCHANGED page /\ GoesOn(i, "lookup", flows[i].emp, "probe", TRUE)
  \/ /\ Is(i, {"lookup"}, "ask", Failed) /\ (flows[i].answer.is = "refused" => flows[i].again)
     /\ page' = ResetRecordView(page) /\ Ends(i)

\* The end of clearSession, whatever became of the session.
Cleared(i) == page' = ResetRecordView(NoSession(page)) /\ Ends(i)

\* Mutant: the session is not asked for again when the token is refused.
LogoutAnsweredOnce(i) == flows[i] # Idle /\ flows[i].at = "logout"
                         /\ flows[i].answer.is # "none" /\ Cleared(i)

\* revokeSharedSessionFlow: a token refused is replaced once here as well
LogoutAnswered(i) ==
  \/ /\ Is(i, {"clear"}, "logout", {"refused"}) /\ ~flows[i].again
     /\ UNCHANGED page /\ GoesOn(i, "clear", NoRecord, "probe", TRUE)
  \/ /\ Is(i, {"clear"}, "logout", {"ok", "refused", "error", "thrown"})
     /\ (flows[i].answer.is = "refused" => flows[i].again)
     /\ Cleared(i)

\* restoreSession
ProbeAnswered(i) ==
  /\ Is(i, {"start", "lookup", "clear"}, "probe", {"ok"})
  /\ UNCHANGED page
  /\ GoesOn(i, flows[i].op, flows[i].emp, "refresh", flows[i].again)

Restored(i) ==
  /\ Is(i, {"start", "lookup", "clear"}, "refresh", {"ok"})
  /\ LET p == Session(page, flows[i].answer.token)
     IN \/ flows[i].op = "start" /\ AutoLookup(i, p)
        \/ flows[i].op = "lookup" /\ page' = p /\ GoesOn(i, "lookup", flows[i].emp, "ask", TRUE)
        \/ flows[i].op = "clear" /\ page' = p
             /\ GoesOn(i, "clear", NoRecord, "logout", flows[i].again)

\* A start that is refused leaves the page signed out; one that throws
\* before the session was refused leaves what another flow made of it.
NotRestored(i) ==
  /\ \/ Is(i, {"start", "lookup", "clear"}, "probe", Failed)
     \/ Is(i, {"start", "lookup", "clear"}, "refresh", Failed)
  /\ LET thrown == flows[i].answer.is = "thrown"
                     \/ (flows[i].answer.is = "error" /\ flows[i].at = "probe")
     IN \/ flows[i].op = "start" /\ page' = (IF thrown THEN page ELSE NoSession(page)) /\ Ends(i)
        \/ flows[i].op = "lookup" /\ page' = ResetRecordView(NoSession(page)) /\ Ends(i)
        \/ flows[i].op = "clear" /\ Cleared(i)

\* performSignIn
SigninAnswered(i) ==
  \/ Is(i, {"signin"}, "signin", {"ok"}) /\ AutoLookup(i, Session(page, flows[i].answer.token))
  \/ Is(i, {"signin"}, "signin", Failed) /\ UNCHANGED page /\ Ends(i)

Receive(i) ==
  /\ flows[i] # Idle /\ cookie' = Jar(i)
  /\ \/ LookupAnswered(i) \/ LogoutAnswered(i) \/ ProbeAnswered(i) \/ Restored(i)
     \/ NotRestored(i) \/ SigninAnswered(i)
  /\ UNCHANGED <<auth, acts, mishaps, last, alone>>

-----------------------------------------------------------------------------
\* Elsewhere: the dashboard in another tab refreshes the shared session or
\* signs out, the service drops a session, access tokens expire.
Event ==
  /\ mishaps < MaxMishaps /\ mishaps' = mishaps + 1
  /\ alone' = (alone /\ Quiet)
  /\ UNCHANGED <<page, flows, acts, last>>

DashboardRefreshes == cookie \in auth.stored /\ Issue({cookie}) /\ cookie' = auth.issued + 1
DashboardSignsOut ==
  /\ cookie \in auth.stored /\ cookie' = 0
  /\ auth' = [auth EXCEPT !.stored = @ \ {cookie}]
SessionDropped ==
  /\ \E n \in auth.stored : auth' = [auth EXCEPT !.stored = @ \ {n}]
  /\ UNCHANGED cookie
TokensExpire ==
  /\ auth.expired < auth.issued
  /\ auth' = [auth EXCEPT !.expired = auth.issued] /\ UNCHANGED cookie

Elsewhere ==
  Event /\ (DashboardRefreshes \/ DashboardSignsOut \/ SessionDropped \/ TokensExpire)

Next ==
  \/ \E i \in Slots : \/ \E e \in Staff : Lookup(i, e)
                      \/ SignIn(i) \/ ClearSession(i)
                      \/ Serve(i) \/ Fails(i) \/ Receive(i)
  \/ Elsewhere

Spec == Init /\ [][Next]_vars

-----------------------------------------------------------------------------
\* Once everything is answered, the console has done what was asked of it
\* last: after clearing, the shared session itself is revoked, though the
\* token had expired or was replaced by the dashboard's; a record asked for
\* is shown when the token or the cookie was good, and else the console
\* shows neither record nor session.  Known exceptions: what was begun
\* while something else was under way, or met an event elsewhere or a fault:
\* a lookup answered after the session was cleared shows its record signed
\* out, or restores the session.
SettlesAsAsked ==
  Quiet /\ alone =>
    /\ page.signedIn = (page.token # 0)
    /\ last.op = "clear" =>
         page.token = 0 /\ page.shown = NoRecord /\ cookie \notin auth.stored
    /\ last.op = "lookup" =>
         page.shown = (IF last.able THEN last.emp ELSE NoRecord) /\ page.signedIn = last.able
    /\ last.op = "signin" =>
         page.signedIn /\ (page.linked # NoRecord => page.shown = page.field)
=============================================================================
