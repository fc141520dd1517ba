------------------------------ MODULE Sessions ------------------------------
(***************************************************************************)
(* The sessions of one user account: the handlers of auth.controller.js,   *)
(* the guard verifyToken of authJwt.js and the token list they share       *)
(* (authSessionTokens.js), and the browser tabs that use them              *)
(* (dashboard services/api.js and contexts/AuthContext.jsx).               *)
(*                                                                         *)
(* Every handler reads the token list of the user document, works out a    *)
(* new one and writes it back whole; the guard of any request may write    *)
(* one too, without waiting for it.  Access and refresh token of one issue *)
(* share a number, which is also the time they were signed.                *)
(***************************************************************************)
EXTENDS Naturals, FiniteSets

CONSTANTS
  Tabs,         \* browser tabs, each with one call under way at a time
  MaxSessions,  \* AUTH_MAX_PERSISTED_SESSIONS
  MaxIssues,    \* bound: token pairs signed; further ones cannot be stored
  MaxFaults     \* bound: answers that get lost

ASSUME SessionsAssumption ==
  /\ MaxSessions \in Nat \ {0} /\ MaxIssues \in Nat /\ MaxFaults \in Nat

Issues == 1 .. MaxIssues
None == 0

\* A stored token; a signed one is known by its kind and its issue.
Entry == [sid : Issues, issue : Issues, kind : {"access", "refresh"}]

VARIABLES
  tokens,    \* the tokens field of the user document, a set of entries
  issued,    \* the number of pairs signed so far
  sidOf,     \* sidOf[n]: the session that issue n belongs to
  expired,   \* expired[kind]: the last issue whose token of that kind is past
             \* its expiry; tokens of a kind live equally long
  prunes,    \* the lists that guards have still to write
  jarOf,     \* jarOf[t]: the browser that t is a tab of
  jar,       \* jar[b]: the issue of the refresh cookie of browser b
  access,    \* access[t]: the issue of the access token that t keeps in memory
  ui,        \* ui[t]: what the application shows in t
  call,      \* call[t]: the call of t under way
  faults,
  lost,      \* browsers one of whose answers got lost
  revoked,   \* sessions whose sign-out was answered with success
  raced      \* a list was written that was not worked out from the stored one

store == <<tokens, issued, sidOf, expired, prunes, raced>>
client == <<jar, access, ui, revoked>>
vars == <<store, client, jarOf, call, faults, lost>>

(***************************************************************************)
(* A call: the operation, where its handler is, the tokens it carries, the *)
(* list the handler read, the answer, the issue that answer carries, what  *)
(* the tab does once a refresh is through, and whether the request is the  *)
(* one retry after a refresh.                                              *)
(***************************************************************************)
NoCall == [op |-> "none", pc |-> "none", access |-> None, refresh |-> None,
           read |-> {}, answer |-> "none", issue |-> None, then |-> "none",
           retried |-> FALSE]

Call == [op : {"none", "probe", "signin", "refresh", "request", "logout"},
         pc : {"none", "guard", "read", "prune", "write", "answer"},
         access : 0 .. MaxIssues, refresh : 0 .. MaxIssues, read : SUBSET Entry,
         answer : {"none", "ok", "invalid", "error"}, issue : 0 .. MaxIssues,
         then : {"none", "restore", "retry", "logout"}, retried : BOOLEAN]

TypeOK ==
  /\ tokens \subseteq Entry
  /\ issued \in 0 .. MaxIssues
  /\ sidOf \in [Issues -> 0 .. MaxIssues]
  /\ expired \in [{"access", "refresh"} -> 0 .. MaxIssues]
  /\ prunes \subseteq [read : SUBSET Entry, write : SUBSET Entry]
  /\ jarOf \in [Tabs -> Tabs]
  /\ jar \in [Tabs -> 0 .. MaxIssues]
  /\ access \in [Tabs -> 0 .. MaxIssues]
  /\ ui \in [Tabs -> {"restoring", "in", "out"}]
  /\ call \in [Tabs -> Call]
  /\ faults \in 0 .. MaxFaults
  /\ lost \subseteq Tabs
  /\ revoked \subseteq Issues
  /\ raced \in BOOLEAN

-----------------------------------------------------------------------------
(***************************************************************************)
(* The token list.                                                         *)
(***************************************************************************)
Over(kind, n) == n <= expired[kind]

PrunePersistedTokens(list) == {entry \in list : ~Over(entry.kind, entry.issue)}

Sids(list) == {entry.sid : entry \in list}
NewestIssue(list, s) ==
  CHOOSE n \in {entry.issue : entry \in {x \in list : x.sid = s}} :
    \A entry \in list : entry.sid = s => entry.issue <= n

\* Mutant: the sessions that are kept are the oldest ones.
MergeKeepingOldest(list, added) ==
  LET all == list \cup added
  IN {entry \in all :
        Cardinality({s \in Sids(all) :
          NewestIssue(all, s) < NewestIssue(all, entry.sid)}) < MaxSessions}

\* mergePersistedSessionTokens: the sessions that were signed last are kept.
MergePersistedSessionTokens(list, added) ==
  LET all == list \cup added
  IN {entry \in all :
        Cardinality({s \in Sids(all) :
          NewestIssue(all, s) > NewestIssue(all, entry.sid)}) < MaxSessions}

\* Mutant: the session id is not stored with the tokens.
PairWithoutSession(s, n) ==
  {[sid |-> None, issue |-> n, kind |-> kind] : kind \in {"access", "refresh"}}

Pair(s, n) == {[sid |-> s, issue |-> n, kind |-> kind] : kind \in {"access", "refresh"}}

Stored(list, kind, n) == \E entry \in list : entry.kind = kind /\ entry.issue = n

\* A handler writes the list it worked out from the one it read.
WriteTokens(read, list) ==
  /\ tokens' = list
  /\ raced' = (raced \/ tokens # read)

-----------------------------------------------------------------------------
(***************************************************************************)
(* Calls of a tab.                                                         *)
(***************************************************************************)
Idle(t) == call[t].op = "none"

Sends(t, op, pc, then, retried) ==
  call' = [call EXCEPT ![t] =
             [op |-> op, pc |-> pc, access |-> access'[t], refresh |-> jar'[jarOf[t]],
              read |-> {}, answer |-> "none", issue |-> None, then |-> then,
              retried |-> retried]]

Ends(t) == call' = [call EXCEPT ![t] = NoCall]

Moves(t, pc) == call' = [call EXCEPT ![t].pc = pc]
Answers(t, answer) ==
  call' = [call EXCEPT ![t].pc = "answer", ![t].answer = answer, ![t].read = {}]

\* A page load forgets the access token and asks whether it can be restored.
Load(t) ==
  /\ Idle(t) /\ ui[t] # "restoring"
  /\ access' = [access EXCEPT ![t] = None]
  /\ ui' = [ui EXCEPT ![t] = "restoring"]
  /\ UNCHANGED <<jar, revoked>>
  /\ Sends(t, "probe", "read", "none", FALSE)
  /\ UNCHANGED <<store, jarOf, faults, lost>>

Login(t) ==
  /\ Idle(t) /\ ui[t] = "out"
  /\ access' = [access EXCEPT ![t] = None]
  /\ UNCHANGED <<jar, ui, revoked>>
  /\ Sends(t, "signin", "read", "none", FALSE)
  /\ UNCHANGED <<store, jarOf, faults, lost>>

Request(t) ==
  /\ Idle(t) /\ ui[t] = "in"
  /\ UNCHANGED client
  /\ Sends(t, "request", "guard", "none", FALSE)
  /\ UNCHANGED <<store, jarOf, faults, lost>>

\* logout refreshes first when it has no access token to sign out with.
Logout(t) ==
  /\ Idle(t) /\ ui[t] = "in"
  /\ UNCHANGED client
  /\ IF access[t] = None THEN Sends(t, "refresh", "read", "logout", FALSE)
     ELSE Sends(t, "logout", "guard", "none", FALSE)
  /\ UNCHANGED <<store, jarOf, faults, lost>>

-----------------------------------------------------------------------------
(***************************************************************************)
(* The server.  verifyToken: the token has to be unexpired and stored.  A  *)
(* list with expired tokens in it is written back pruned, some time later. *)
(***************************************************************************)
Guard(t) ==
  LET n == call[t].access
      live == PrunePersistedTokens(tokens)
  IN /\ call[t].pc = "guard"
     /\ prunes' = IF live = tokens \/ n = None \/ Over("access", n) THEN prunes
                  ELSE prunes \cup {[read |-> tokens, write |-> live]}
     /\ IF n = None THEN Answers(t, "error")
        ELSE IF Over("access", n) \/ ~Stored(live, "access", n)
        THEN Answers(t, "invalid")
        ELSE IF call[t].op = "request" THEN Answers(t, "ok")
        ELSE Moves(t, "read")
     /\ UNCHANGED <<tokens, issued, sidOf, expired, raced, client, jarOf, faults, lost>>

GuardPrunes ==
  \E p \in prunes :
    /\ prunes' = prunes \ {p}
    /\ WriteTokens(p.read, p.write)
    /\ UNCHANGED <<issued, sidOf, expired, client, jarOf, call, faults, lost>>

(***************************************************************************)
(* resolveRefreshSession, which the probe and the refresh begin with, and  *)
(* the reads of sign-in and sign-out.                                      *)
(***************************************************************************)
UsesRefreshToken(t) == call[t].op \in {"probe", "refresh"}

Read(t) ==
  LET n == call[t].refresh
  IN /\ call[t].pc = "read"
     /\ IF UsesRefreshToken(t) /\ (n = None \/ Over("refresh", n))
        THEN Answers(t, "invalid")
        ELSE call' = [call EXCEPT ![t].read = tokens,
               ![t].pc = IF UsesRefreshToken(t) THEN "prune" ELSE "write"]
     /\ UNCHANGED <<store, client, jarOf, faults, lost>>

Prune(t) ==
  LET list == PrunePersistedTokens(call[t].read)
  IN /\ call[t].pc = "prune"
     /\ IF list = call[t].read THEN UNCHANGED <<tokens, raced>>
        ELSE WriteTokens(call[t].read, list)
     /\ IF ~Stored(list, "refresh", call[t].refresh) THEN Answers(t, "invalid")
        ELSE IF call[t].op = "probe" THEN Answers(t, "ok")
        ELSE call' = [call EXCEPT ![t].pc = "write", ![t].read = list]
     /\ UNCHANGED <<issued, sidOf, expired, prunes, client, jarOf, faults, lost>>

Issue(t, s, list) ==
  LET n == issued + 1
  IN /\ issued' = n
     /\ sidOf' = [sidOf EXCEPT ![n] = s]
     /\ WriteTokens(call[t].read, MergePersistedSessionTokens(list, Pair(s, n)))
     /\ call' = [call EXCEPT ![t].pc = "answer", ![t].answer = "ok",
                             ![t].issue = n, ![t].read = {}]

WriteSignin(t) ==
  /\ call[t].op = "signin" /\ call[t].pc = "write"
  /\ issued < MaxIssues
  /\ Issue(t, issued + 1, PrunePersistedTokens(call[t].read))
  /\ UNCHANGED <<expired, prunes, client, jarOf, faults, lost>>

\* The pair of a session is replaced by a new one.
WriteRefresh(t) ==
  LET s == sidOf[call[t].refresh]
  IN /\ call[t].op = "refresh" /\ call[t].pc = "write"
     /\ issued < MaxIssues
     /\ Issue(t, s, {entry \in call[t].read : entry.sid # s})
     /\ UNCHANGED <<expired, prunes, client, jarOf, faults, lost>>

\* The storage is full: sign-in answers 503, a refresh 500.
WriteRefused(t) ==
  /\ call[t].op \in {"signin", "refresh"} /\ call[t].pc = "write"
  /\ issued = MaxIssues
  /\ Answers(t, "error")
  /\ UNCHANGED <<store, client, jarOf, faults, lost>>

\* Mutant: only the tokens that were presented go, not their session's.
WriteLogoutTokensOnly(t) ==
  LET c == call[t]
      list == PrunePersistedTokens(c.read)
  IN /\ c.op = "logout" /\ c.pc = "write"
     /\ WriteTokens(c.read, {x \in list : x.kind # "access" \/ x.issue # c.access})
     /\ Answers(t, "ok")
     /\ UNCHANGED <<issued, sidOf, expired, prunes, client, jarOf, faults, lost>>

\* Sign-out takes every token of the sessions that were presented.
WriteLogout(t) ==
  LET c == call[t]
      list == PrunePersistedTokens(c.read)
      Presented(entry) == \/ entry.kind = "access" /\ entry.issue = c.access
                          \/ entry.kind = "refresh" /\ entry.issue = c.refresh
      keys == {entry.sid : entry \in {x \in list : Presented(x)}}
  IN /\ c.op = "logout" /\ c.pc = "write"
     /\ WriteTokens(c.read, {x \in list : x.sid \notin keys})
     /\ Answers(t, "ok")
     /\ UNCHANGED <<issued, sidOf, expired, prunes, client, jarOf, faults, lost>>

-----------------------------------------------------------------------------
(***************************************************************************)
(* The answer reaches the tab: first the cookie that comes with it, then   *)
(* what api.js and AuthContext.jsx make of it.                             *)
(***************************************************************************)
CookieOf(t) ==
  LET c == call[t]
  IN IF c.op \in {"signin", "refresh"} /\ c.answer = "ok" THEN c.issue
     ELSE IF (c.op = "logout" /\ c.answer = "ok")
          \/ (UsesRefreshToken(t) /\ c.answer = "invalid") THEN None
     ELSE jar[jarOf[t]]

Shows(t, screen) == ui' = [ui EXCEPT ![t] = screen]
Keeps(t, n) == access' = [access EXCEPT ![t] = n]

Receives(t, op) ==
  /\ call[t].op = op /\ call[t].pc = "answer"
  /\ jar' = [jar EXCEPT ![jarOf[t]] = CookieOf(t)]
  /\ UNCHANGED <<store, jarOf, faults, lost>>

ReceiveProbe(t) ==
  /\ Receives(t, "probe")
  /\ Keeps(t, None)
  /\ IF call[t].answer = "ok"
     THEN Sends(t, "refresh", "read", "restore", FALSE) /\ UNCHANGED ui
     ELSE Ends(t) /\ Shows(t, "out")
  /\ UNCHANGED revoked

ReceiveSignin(t) ==
  /\ Receives(t, "signin")
  /\ IF call[t].answer = "ok" THEN Keeps(t, call[t].issue) /\ Shows(t, "in")
     ELSE UNCHANGED <<access, ui>>
  /\ Ends(t)
  /\ UNCHANGED revoked

ReceiveRefresh(t) ==
  LET c == call[t]
  IN /\ Receives(t, "refresh")
     /\ IF c.answer = "ok"
        THEN /\ Keeps(t, c.issue)
             /\ CASE c.then = "restore" -> Ends(t) /\ Shows(t, "in")
                  [] c.then = "retry" ->
                       Sends(t, "request", "guard", "none", TRUE) /\ UNCHANGED ui
                  [] c.then = "logout" ->
                       Sends(t, "logout", "guard", "none", FALSE) /\ UNCHANGED ui
        ELSE Keeps(t, None) /\ Ends(t) /\ Shows(t, "out")
     /\ UNCHANGED revoked

\* Mutant: a retried request that is rejected again is retried again.
ReceiveRequestRetrying(t) ==
  LET c == call[t]
  IN /\ Receives(t, "request")
     /\ UNCHANGED <<access, ui>>
     /\ IF c.answer = "invalid" THEN Sends(t, "request", "guard", "none", TRUE)
        ELSE Ends(t)
     /\ UNCHANGED revoked

\* A rejected request is repeated once, after a refresh.
ReceiveRequest(t) ==
  LET c == call[t]
  IN /\ Receives(t, "request")
     /\ IF c.answer = "invalid" /\ ~c.retried
        THEN UNCHANGED <<access, ui>> /\ Sends(t, "refresh", "read", "retry", FALSE)
        ELSE IF c.answer = "invalid" THEN Keeps(t, None) /\ Shows(t, "out") /\ Ends(t)
        ELSE UNCHANGED <<access, ui>> /\ Ends(t)
     /\ UNCHANGED revoked

\* Whatever the server says, the tab is signed out.
ReceiveLogout(t) ==
  /\ Receives(t, "logout")
  /\ Keeps(t, None) /\ Shows(t, "out") /\ Ends(t)
  /\ revoked' = IF call[t].answer = "ok" THEN revoked \cup {sidOf[call[t].access]}
                ELSE revoked

\* The answer does not arrive: the tab sees an error without a status.
LoseAnswer(t) ==
  /\ call[t].pc = "answer" /\ faults < MaxFaults
  /\ faults' = faults + 1
  /\ lost' = lost \cup {jarOf[t]}
  /\ access' = IF call[t].op \in {"refresh", "logout"}
               THEN [access EXCEPT ![t] = None] ELSE access
  /\ ui' = IF call[t].op \in {"signin", "request"} THEN ui ELSE [ui EXCEPT ![t] = "out"]
  /\ Ends(t)
  /\ UNCHANGED <<store, jar, revoked, jarOf>>

\* An access token lives shorter than the refresh token of its issue.
Expire(kind) ==
  /\ expired[kind] < IF kind = "access" THEN issued ELSE expired["access"]
  /\ expired' = [expired EXCEPT ![kind] = @ + 1]
  /\ UNCHANGED <<tokens, issued, sidOf, prunes, raced, client, jarOf, call, faults,
                 lost>>

-----------------------------------------------------------------------------
Init ==
  /\ tokens = {} /\ issued = 0 /\ sidOf = [n \in Issues |-> 0]
  /\ expired = [access |-> 0, refresh |-> 0] /\ prunes = {} /\ raced = FALSE
  /\ jarOf \in {[t \in Tabs |-> t], [t \in Tabs |-> CHOOSE b \in Tabs : TRUE]}
  /\ jar = [t \in Tabs |-> None] /\ access = [t \in Tabs |-> None]
  /\ ui = [t \in Tabs |-> "out"]
  /\ call = [t \in Tabs |-> NoCall]
  /\ faults = 0 /\ lost = {} /\ revoked = {}

Server(t) ==
  \/ Guard(t) \/ Read(t) \/ Prune(t)
  \/ WriteSignin(t) \/ WriteRefresh(t) \/ WriteRefused(t) \/ WriteLogout(t)

Receive(t) ==
  \/ ReceiveProbe(t) \/ ReceiveSignin(t) \/ ReceiveRefresh(t)
  \/ ReceiveRequest(t) \/ ReceiveLogout(t)

User(t) == Load(t) \/ Login(t) \/ Request(t) \/ Logout(t)

Next ==
  \/ \E t \in Tabs : User(t) \/ Server(t) \/ Receive(t) \/ LoseAnswer(t)
  \/ GuardPrunes
  \/ \E kind \in {"access", "refresh"} : Expire(kind)

Spec == Init /\ [][Next]_vars

\* Handlers run to their end and answers are delivered or lost.
FairSpec == Spec /\ \A t \in Tabs : WF_vars(Server(t) \/ Receive(t))

-----------------------------------------------------------------------------
OwnJar(t) == \A u \in Tabs : jarOf[u] = jarOf[t] => u = t

(***************************************************************************)
(* A session that was signed out never comes back, as long as no list was  *)
(* written over a newer one and no other tab of the browser refreshed the  *)
(* session while it was signed out.                                        *)
(***************************************************************************)
RevokedStaysRevoked ==
  ~raced /\ (\A t \in Tabs : OwnJar(t)) => Sids(tokens) \cap revoked = {}

(***************************************************************************)
(* The refresh cookie of a browser works until it expires, unless newer    *)
(* sessions displaced it, an answer got lost, or a list was written over a *)
(* newer one: no refresh, sign-in or sign-out elsewhere takes it away.     *)
(***************************************************************************)
CookieStaysGood ==
  \A t \in Tabs :
    LET n == jar[t]
        newer == {sidOf[m] : m \in {k \in 1 .. issued : k > n}} \ {sidOf[n]}
    IN (/\ n # None /\ OwnJar(t) /\ jarOf[t] = t /\ Idle(t)
        /\ ~raced /\ t \notin lost /\ ~Over("refresh", n)
        /\ Cardinality(newer) < MaxSessions)
       => Stored(tokens, "refresh", n)

(***************************************************************************)
(* A tab never waits for ever, nor refreshes and retries for ever, however *)
(* tokens expire and sessions displace one another meanwhile.              *)
(***************************************************************************)
EveryCallEnds == \A t \in Tabs : call[t].op # "none" ~> call[t].op = "none"
=============================================================================
