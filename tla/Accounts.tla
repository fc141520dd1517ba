------------------------------- MODULE Accounts -------------------------------
(***************************************************************************)
(* Users and their roles: the seed of the roles and of the root account    *)
(* when the SA service starts (libs/initialSetup.js) or its command is run *)
(* (scripts/seed-admin.js), sign-up and the user endpoints                 *)
(* (controllers/user.controller.js, middlewares/verifySignup.js), and the  *)
(* page that shows the users and changes the admin role                    *)
(* (AdminUsersModal.jsx).                                                  *)
(*                                                                         *)
(* A role's name has no unique index: the database may come to hold two    *)
(* roles of one name, of which findOne returns the first and find both.    *)
(* User names and e-mails have one.  A user's roles are the names of the   *)
(* first documents; moderator is to the code as admin is and left out.     *)
(***************************************************************************)
EXTENDS Naturals, Sequences, FiniteSets

CONSTANTS
  Users,       \* the users but the root
  Seeds,       \* processes that may be seeding
  Starters,    \* the users there are at first, each with the user role
  MaxSeeds,    \* bound: seeds
  MaxCalls,    \* bound: calls of the endpoints
  MaxLoads,    \* bound: loads of the page
  MaxBegun,    \* bound: seeds, calls and loads together
  MaxFailures  \* bound: errors of the database and the network

Root == "root"
RoleNames == {"user", "admin", "super_admin"}
SeedOrder == <<"user", "admin", "super_admin">>
RootRoles == {"user", "super_admin"}
Accounts == Users \cup {Root}

VARIABLES
  copies,    \* role name -> documents of it
  account,   \* user -> {} or the set that holds its set of roles
  seed,      \* the seeding processes
  call,      \* the page's call ("page") and another client's ("other")
  page,      \* what the page shows, and its load
  counts,    \* seeds, calls, loads and failures so far
  together,  \* two seeds ran at once
  crossed,   \* the page's call was answered late or another's done since the
             \* page's load read the users
  full       \* a seed found the database out of space and went on without

vars == <<copies, account, seed, call, page, counts, together, crossed, full>>

There(u) == account[u] # {}
RolesOf(u) == CHOOSE roles \in account[u] : TRUE
GivenRoles(u, roles) == [account EXCEPT ![u] = {roles}]

Counted(what) == counts' = [counts EXCEPT ![what] = @ + 1]
More == counts.seeds + counts.calls + counts.loads < MaxBegun

-----------------------------------------------------------------------------
(* The seed.                                                               *)

NoSeed == [at |-> "off", script |-> FALSE, next |-> 1, sawRoot |-> FALSE]
With(s, at) == [s EXCEPT !.at = at]

SeedStart(p, script) ==
  /\ seed[p].at \in {"off", "failed"}
  /\ More /\ counts.seeds < MaxSeeds
  /\ seed' = [seed EXCEPT ![p] = [NoSeed EXCEPT !.at = "find_role", !.script = script]]
  /\ together' = (together \/ \E q \in Seeds \ {p} : seed[q].at \notin {"off", "failed"})
  /\ Counted("seeds")
  /\ UNCHANGED <<copies, account, call, page, crossed, full>>

NextRole(s) ==
  IF s.next = Len(SeedOrder) THEN With(s, "find_root")
  ELSE [s EXCEPT !.at = "find_role", !.next = @ + 1]

\* The look-up as it would be if it were skipped.
FindRoleNot(p) ==
  /\ seed[p].at = "find_role"
  /\ seed' = [seed EXCEPT ![p] = With(@, "save_role")]
  /\ UNCHANGED <<copies, account, call, page, counts, together, crossed, full>>

\* A role is saved unless it was found: two awaits.
FindRole(p) ==
  LET s == seed[p] IN
  /\ s.at = "find_role"
  /\ seed' = [seed EXCEPT ![p] = IF copies[SeedOrder[s.next]] = 0 THEN With(@, "save_role")
                                 ELSE NextRole(@)]
  /\ UNCHANGED <<copies, account, call, page, counts, together, crossed, full>>

SaveRole(p) ==
  LET s == seed[p] IN
  /\ s.at = "save_role"
  /\ copies' = [copies EXCEPT ![SeedOrder[s.next]] = @ + 1]
  /\ seed' = [seed EXCEPT ![p] = NextRole(@)]
  /\ UNCHANGED <<account, call, page, counts, together, crossed, full>>

FindRoot(p) ==
  /\ seed[p].at = "find_root"
  /\ seed' = [seed EXCEPT ![p].sawRoot = There(Root),
                          ![p].at = IF seed[p].script THEN "write_root" ELSE "find_roles"]
  /\ UNCHANGED <<copies, account, call, page, counts, together, crossed, full>>

\* The service counts the documents of the root's two roles and fails unless
\* they are two; the script has picked one of each.
FindRoles(p) ==
  /\ seed[p].at = "find_roles"
  /\ seed' = [seed EXCEPT ![p] = With(@,
       IF copies["user"] + copies["super_admin"] = Cardinality(RootRoles)
       THEN "write_root" ELSE "failed")]
  /\ UNCHANGED <<copies, account, call, page, counts, together, crossed, full>>

\* The root gets its two roles and no other.  Where it was not found it is
\* created, which its e-mail's index refuses if another did that meanwhile.
WriteRoot(p) ==
  /\ seed[p].at = "write_root"
  /\ IF ~seed[p].sawRoot /\ There(Root)
     THEN /\ seed' = [seed EXCEPT ![p] = With(@, "failed")]
          /\ UNCHANGED <<account, crossed>>
     ELSE /\ account' = GivenRoles(Root, RootRoles)
          /\ seed' = [seed EXCEPT ![p] = NoSeed]
          /\ crossed' = TRUE
  /\ UNCHANGED <<copies, call, page, counts, together, full>>

\* An error: out of space, the service goes on without its seed; any other
\* ends the start.
SeedError(p, quota) ==
  /\ seed[p].at \notin {"off", "failed"}
  /\ counts.failures < MaxFailures
  /\ quota => ~seed[p].script
  /\ seed' = [seed EXCEPT ![p] = IF quota THEN NoSeed ELSE With(@, "failed")]
  /\ full' = (full \/ quota)
  /\ Counted("failures")
  /\ UNCHANGED <<copies, account, call, page, together, crossed>>

-----------------------------------------------------------------------------
(* The endpoints.  A call goes through the awaits of its handler, one step  *)
(* each.  The page's ends with "done" or "refused" and the roles it answers; *)
(* what another client makes of an answer is not followed.                  *)

NoCall == [at |-> "none", kind |-> "none", user |-> Root, roles |-> {}, saw |-> {}]
Free(c) == call[c].at = "none"

FirstStep(kind) ==
  CASE kind \in {"signup", "create"} -> "check_user"
    [] kind = "promote"              -> "find_admin"
    [] kind = "demote"               -> "find_user"

Call(c, kind, u, roles) ==
  /\ Free(c)
  /\ More /\ counts.calls < MaxCalls
  /\ call' = [call EXCEPT ![c] = [NoCall EXCEPT !.at = FirstStep(kind), !.kind = kind,
                                                !.user = u, !.roles = roles]]
  /\ Counted("calls")

\* Another client: a sign-up, or the super admin's calls.
OtherCall(kind, u, roles) ==
  /\ kind \in {"promote", "demote", "create"} => There(Root)
  /\ kind = "signup" => roles = {"user"}
  /\ kind \in {"promote", "demote"} => roles = {}
  /\ kind \in {"signup", "create"} => roles # {} /\ u # Root
  /\ Call("other", kind, u, roles)
  /\ UNCHANGED <<copies, account, seed, page, together, crossed, full>>

Goes(c, at) == call' = [call EXCEPT ![c].at = at]
Answered(c, ok, roles) ==
  call' = [call EXCEPT ![c] =
    IF c = "other" THEN NoCall
    ELSE [@ EXCEPT !.at = IF ok THEN "done" ELSE "refused", !.roles = roles, !.saw = {}]]
Ends(c, ok) == Answered(c, ok, {})

\* checkExistingUser
CheckUser(c) ==
  /\ call[c].at = "check_user"
  /\ IF There(call[c].user) THEN Ends(c, FALSE) ELSE Goes(c, "find_roles")
  /\ UNCHANGED <<copies, account, seed, page, counts, together, crossed, full>>

\* signupHandler looks for the one role, createUser for as many documents
\* as it was given names.
FindGivenRoles(c) ==
  LET wanted == call[c].roles
      found == {r \in wanted : copies[r] > 0}
      single == \A r \in wanted : copies[r] = 1
  IN /\ call[c].at = "find_roles"
     /\ IF (IF call[c].kind = "signup" THEN found = wanted ELSE single)
        THEN Goes(c, "save_user") ELSE Ends(c, FALSE)
     /\ UNCHANGED <<copies, account, seed, page, counts, together, crossed, full>>

\* The unique indexes refuse a user that was saved since it was checked.
SaveUser(c) ==
  LET u == call[c].user IN
  /\ call[c].at = "save_user"
  /\ Ends(c, ~There(u))
  /\ account' = IF There(u) THEN account ELSE GivenRoles(u, call[c].roles)
  /\ crossed' = TRUE
  /\ UNCHANGED <<copies, seed, page, counts, together, full>>

\* demoteUserFromAdmin reads the user and judges its roles by that reading.
FindUser(c) ==
  LET u == call[c].user IN
  /\ call[c].at = "find_user"
  /\ IF ~There(u) \/ u = Root THEN Ends(c, FALSE)
     ELSE call' = [call EXCEPT ![c].at = "find_admin", ![c].saw = RolesOf(u)]
  /\ UNCHANGED <<copies, account, seed, page, counts, together, crossed, full>>

FindAdmin(c) ==
  /\ call[c].at = "find_admin"
  /\ IF \/ copies["admin"] = 0
        \/ call[c].kind = "demote" /\ "admin" \notin call[c].saw
     THEN Ends(c, FALSE)
     ELSE call' = [call EXCEPT ![c].at = "write_roles", ![c].saw = {}]
  /\ UNCHANGED <<copies, account, seed, page, counts, together, crossed, full>>

\* The role is added to or taken from the stored set in one update, which
\* answers what is then stored; a user that is gone is not found.
WriteRoles(c) ==
  LET u == call[c].user
      now == IF call[c].kind = "promote" THEN RolesOf(u) \cup {"admin"}
             ELSE RolesOf(u) \ {"admin"}
  IN /\ call[c].at = "write_roles"
     /\ IF There(u)
        THEN /\ account' = GivenRoles(u, now)
             /\ Answered(c, TRUE, now)
        ELSE Ends(c, FALSE) /\ UNCHANGED account
     /\ crossed' = (crossed \/ c = "other")
     /\ UNCHANGED <<copies, seed, page, counts, together, full>>

\* An error of the database or the network: the call is refused, whatever
\* it had done.
CallError(c) ==
  /\ call[c].at \notin {"none", "refused"}
  /\ counts.failures < MaxFailures
  /\ Ends(c, FALSE)
  /\ Counted("failures")
  /\ crossed' = TRUE
  /\ UNCHANGED <<copies, account, seed, page, together, full>>

-----------------------------------------------------------------------------
(* The page.  "shown" are the users it holds with their roles.             *)

Stored == [u \in Accounts |-> account[u]]
NoUsers == [u \in Accounts |-> {}]
NoLoad == "none"

Open == [load |-> NoLoad, silent |-> FALSE, snap |-> NoUsers, shown |-> NoUsers]

\* loadUsers: when the page opens, and on Refresh, which is off in a load.
\* The first load hides the table.
Load(silent) ==
  /\ page.load = NoLoad
  /\ More /\ counts.loads < MaxLoads
  /\ silent <=> counts.loads > 0
  /\ page' = [page EXCEPT !.load = "asked", !.silent = silent]
  /\ Counted("loads")
  /\ UNCHANGED <<copies, account, seed, call, together, crossed, full>>

\* getUsers
ReadUsers ==
  /\ page.load = "asked"
  /\ page' = [page EXCEPT !.load = "read", !.snap = Stored]
  /\ crossed' = (call["page"].at = "done")
  /\ UNCHANGED <<copies, account, seed, call, counts, together, full>>

LoadAnswered ==
  /\ page.load = "read"
  /\ page' = [page EXCEPT !.load = NoLoad, !.shown = page.snap, !.snap = NoUsers]
  /\ UNCHANGED <<copies, account, seed, call, counts, together, crossed, full>>

LoadFails ==
  /\ page.load # NoLoad
  /\ counts.failures < MaxFailures
  /\ page' = [page EXCEPT !.load = NoLoad, !.shown = NoUsers, !.snap = NoUsers]
  /\ Counted("failures")
  /\ UNCHANGED <<copies, account, seed, call, together, crossed, full>>

\* The button of a row: off for the root, for super admins and while a
\* call is under way; it promotes who is not shown an admin, and demotes
\* who is.
Press(u) ==
  /\ page.load # NoLoad => page.silent
  /\ u \in Users /\ page.shown[u] # {}
  /\ LET shown == CHOOSE roles \in page.shown[u] : TRUE
     IN /\ "super_admin" \notin shown
        /\ Call("page", IF "admin" \in shown THEN "demote" ELSE "promote", u, {})
  /\ UNCHANGED <<copies, account, seed, page, together, crossed, full>>

\* The answer as it would be shown if it told the button and not the roles.
PageAnsweredToggles ==
  LET c == call["page"] IN
  /\ c.at \in {"done", "refused"}
  /\ call' = [call EXCEPT !["page"] = NoCall]
  /\ page' = [page EXCEPT !.shown[c.user] =
       IF @ = {} THEN @ ELSE {IF c.kind = "promote" THEN {"user", "admin"} ELSE {"user"}}]
  /\ crossed' = (crossed \/ page.load = "read")
  /\ UNCHANGED <<copies, account, seed, counts, together, full>>

\* applyUpdatedUser: the row, if it is there, shows the roles answered.
PageAnswered ==
  LET c == call["page"] IN
  /\ c.at \in {"done", "refused"}
  /\ call' = [call EXCEPT !["page"] = NoCall]
  /\ page' = [page EXCEPT !.shown[c.user] = IF c.at = "done" /\ @ # {} THEN {c.roles} ELSE @]
  /\ crossed' = (crossed \/ page.load = "read")
  /\ UNCHANGED <<copies, account, seed, counts, together, full>>

-----------------------------------------------------------------------------

Init ==
  /\ copies \in {[r \in RoleNames |-> n] : n \in {0, 1}}
  /\ account = [u \in Accounts |->
       IF u \in Starters /\ copies["user"] = 1 THEN {{"user"}} ELSE {}]
  /\ seed = [p \in Seeds |-> NoSeed]
  /\ call = [c \in {"page", "other"} |-> NoCall]
  /\ page = Open
  /\ counts = [seeds |-> 0, calls |-> 0, loads |-> 0, failures |-> 0]
  /\ together = FALSE /\ crossed = FALSE /\ full = FALSE

SeedStep(p) ==
  \/ \E script \in BOOLEAN : SeedStart(p, script)
  \/ FindRole(p) \/ SaveRole(p) \/ FindRoot(p) \/ FindRoles(p) \/ WriteRoot(p)
  \/ \E quota \in BOOLEAN : SeedError(p, quota)

CallStep(c) ==
  \/ CheckUser(c) \/ FindGivenRoles(c) \/ SaveUser(c)
  \/ FindUser(c) \/ FindAdmin(c) \/ WriteRoles(c) \/ CallError(c)

Next ==
  \/ \E p \in Seeds : SeedStep(p)
  \/ \E c \in {"page", "other"} : CallStep(c)
  \/ \E kind \in {"signup", "create", "promote", "demote"}, u \in Accounts,
        roles \in {{}, {"user"}, {"user", "admin"}} : OtherCall(kind, u, roles)
  \/ \E silent \in BOOLEAN : Load(silent)
  \/ ReadUsers \/ LoadAnswered \/ LoadFails
  \/ \E u \in Users : Press(u)
  \/ PageAnswered

Spec == Init /\ [][Next]_vars

-----------------------------------------------------------------------------

\* However often the service and its script seed, fail and are started
\* again, the roles are one of each name, so that the next start finds the
\* root's two roles and role names given to new users are the documents
\* found; and once a seed has ended the root is there with its two roles.
\* Unless two seeds ran at once: nothing keeps both from saving a role, and
\* then no later start of the service succeeds (together); or the database
\* was out of space (full).
SeedsAgree ==
  ~together =>
    /\ \A r \in RoleNames : copies[r] =< 1
    /\ \A p \in Seeds : seed[p].at = "failed" => counts.failures > 0
    /\ (~full /\ counts.seeds > 0 /\ \A p \in Seeds : seed[p].at = "off") =>
         There(Root) /\ RootRoles \subseteq RolesOf(Root)

\* At rest the page shows the users with the roles that are stored, those
\* it changed itself included, unless another changed them, a call failed,
\* or its own call was answered between the reading and the answer of a
\* load, whose list is then the older one (crossed).
UsersShownAreStored ==
  (~crossed /\ page.load = NoLoad /\ Free("page")) =>
    page.shown \in {NoUsers, Stored}
=============================================================================
