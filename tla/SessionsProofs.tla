--------------------------- MODULE SessionsProofs ---------------------------
(***************************************************************************)
(* Theorems about Sessions: a session that was signed out stays out, and a *)
(* refresh cookie stays good, for any number of tabs, of sessions kept and *)
(* of pairs signed.                                                        *)
(*                                                                         *)
(* Inv says what a call carries and that lists are only ever pruned of     *)
(* expired tokens.  The invariants after it are about tabs that share no   *)
(* browser: no two of them hold the same session (OwnerInv), which is why  *)
(* no handler of one tab takes away, or brings back, a session of another. *)
(***************************************************************************)
EXTENDS Sessions, FiniteSetTheorems, WellFoundedInduction, TLAPS

(***************************************************************************)
(* What a tab carries.  A call under way carries the access token of its   *)
(* tab; one that was answered with a pair is a sign-in or a refresh.       *)
(***************************************************************************)
Answered(t, answer) == call[t].pc = "answer" /\ call[t].answer = answer

CallInv ==
  \A t \in Tabs :
    /\ call[t].op = "none" => call[t] = NoCall
    /\ call[t].op # "none" => call[t].access = access[t]
    /\ call[t].op = "logout" => access[t] # None
    /\ call[t].op = "signin" => access[t] = None
    /\ call[t].op = "refresh" => call[t].then # "none"
    /\ call[t].op = "refresh" /\ call[t].pc \in {"prune", "write"} => call[t].refresh # None
    /\ call[t].issue # None <=> call[t].op \in {"signin", "refresh"} /\ Answered(t, "ok")

\* Only what was signed is carried, and it belongs to a session.
SignedInv ==
  /\ \A t \in Tabs : /\ jar[t] <= issued /\ access[t] <= issued
                     /\ call[t].refresh <= issued /\ call[t].issue <= issued
  /\ \A n \in 1 .. issued : sidOf[n] \in 1 .. n
  /\ \A s \in revoked : s <= issued

\* A list that a guard has still to write lacks expired tokens only.
PrunesInv ==
  \A p \in prunes :
    /\ p.write \subseteq p.read
    /\ \A x \in p.read : ~Over(x.kind, x.issue) => x \in p.write

\* Without a race, a stored token is of the session its issue belongs to.
ListInv == ~raced => \A x \in tokens : x.issue <= issued /\ x.sid = sidOf[x.issue]

Inv == TypeOK /\ CallInv /\ SignedInv /\ PrunesInv /\ ListInv

(***************************************************************************)
(* Tabs that share no browser share no session: what a tab holds is the    *)
(* refresh token of its browser and the pair that is on its way to it.     *)
(***************************************************************************)
AllOwnJars == \A t \in Tabs : OwnJar(t)

Held(t) == {jar[jarOf[t]], call[t].issue} \ {None}
Mine(t) == {sidOf[n] : n \in Held(t)}

JarInv ==
  AllOwnJars =>
    \A t \in Tabs : /\ call[t].op # "none" => call[t].refresh = jar[jarOf[t]]
                    /\ access[t] # None => access[t] = jar[jarOf[t]]

OwnerInv ==
  AllOwnJars =>
    \A t \in Tabs : /\ Mine(t) \cap revoked = {}
                    /\ \A u \in Tabs \ {t} : Mine(t) \cap Mine(u) = {}

(***************************************************************************)
(* Without a race, the tokens stored of a session are of one issue, which  *)
(* its tab knows while it has an access token; and none is left of one     *)
(* whose sign-out was answered.                                            *)
(***************************************************************************)
Latest(t) == IF call[t].issue # None THEN call[t].issue ELSE jar[jarOf[t]]
Knows(t) == call[t].issue # None \/ access[t] # None
SignedOut(t) == call[t].op = "logout" /\ Answered(t, "ok")

RevokedInv ==
  AllOwnJars /\ ~raced =>
    /\ \A t \in Tabs, x \in tokens :
         /\ Knows(t) /\ x.sid = sidOf[Latest(t)] => x.issue = Latest(t)
         /\ SignedOut(t) => x.sid # sidOf[Latest(t)]
    /\ Sids(tokens) \cap revoked = {}

(***************************************************************************)
(* Without a race or a lost answer, the latest refresh token of a tab is   *)
(* stored, unless newer sessions displaced it or it was signed out.        *)
(***************************************************************************)
Newer(n) == {sidOf[m] : m \in {k \in 1 .. issued : k > n}} \ {sidOf[n]}

StoredInv ==
  AllOwnJars /\ ~raced =>
    \A t \in Tabs :
      (/\ Latest(t) # None /\ ~SignedOut(t) /\ jarOf[t] \notin lost
       /\ ~Over("refresh", Latest(t)) /\ Cardinality(Newer(Latest(t))) < MaxSessions)
      => Stored(tokens, "refresh", Latest(t))

-----------------------------------------------------------------------------
(***************************************************************************)
(* What the steps of a call do to it.                                      *)
(***************************************************************************)
OthersKept(t) ==
  /\ call' \in [Tabs -> Call]
  /\ \A u \in Tabs \ {t} : call'[u] = call[u]

LEMMA Replaced ==
  ASSUME call \in [Tabs -> Call], NEW t \in Tabs, NEW r \in Call,
         call' = [call EXCEPT ![t] = r]
  PROVE  OthersKept(t) /\ call'[t] = r
BY DEF OthersKept

LEMMA Empty == NoCall \in Call
BY SessionsAssumption DEF NoCall, Call, None

LEMMA Ending ==
  ASSUME call \in [Tabs -> Call], NEW t \in Tabs, Ends(t)
  PROVE  OthersKept(t) /\ call'[t] = NoCall
BY Empty, Replaced DEF Ends

LEMMA Sending ==
  ASSUME TypeOK, NEW t \in Tabs,
         access'[t] \in 0 .. MaxIssues, jar'[jarOf[t]] \in 0 .. MaxIssues,
         NEW op \in {"probe", "signin", "refresh", "request", "logout"},
         NEW pc \in {"guard", "read"}, NEW then \in {"none", "restore", "retry", "logout"},
         NEW retried \in BOOLEAN, Sends(t, op, pc, then, retried)
  PROVE  /\ OthersKept(t)
         /\ call'[t].op = op /\ call'[t].pc = pc /\ call'[t].then = then
         /\ call'[t].access = access'[t] /\ call'[t].refresh = jar'[jarOf[t]]
         /\ call'[t].issue = None
<1>. DEFINE r == [op |-> op, pc |-> pc, access |-> access'[t], refresh |-> jar'[jarOf[t]],
                  read |-> {}, answer |-> "none", issue |-> None, then |-> then,
                  retried |-> retried]
<1>1. /\ r.op = op /\ r.pc = pc /\ r.then = then /\ r.access = access'[t]
      /\ r.refresh = jar'[jarOf[t]] /\ r.issue = None
  OBVIOUS
<1>2. r \in Call
  BY SessionsAssumption DEF Call, None
<1>3. call' = [call EXCEPT ![t] = r]
  BY DEF Sends
<1>. HIDE DEF r
<1>. QED
  BY <1>1, <1>2, <1>3, Replaced DEF TypeOK

Continues(t) ==
  /\ OthersKept(t)
  /\ call'[t].op = call[t].op /\ call'[t].access = call[t].access
  /\ call'[t].refresh = call[t].refresh /\ call'[t].issue = call[t].issue
  /\ call'[t].then = call[t].then

LEMMA Answering ==
  ASSUME call \in [Tabs -> Call], NEW t \in Tabs,
         NEW answer \in {"ok", "invalid", "error"}, Answers(t, answer)
  PROVE  Continues(t) /\ call'[t].pc = "answer" /\ call'[t].answer = answer
<1>1. call' = [call EXCEPT ![t] = [[[@ EXCEPT !.pc = "answer"] EXCEPT !.answer = answer]
                                     EXCEPT !.read = {}]]
  BY DEF Answers
<1>. QED
  BY <1>1 DEF Continues, OthersKept, Call

LEMMA Moving ==
  ASSUME call \in [Tabs -> Call], NEW t \in Tabs,
         NEW pc \in {"read", "prune", "write"}, Moves(t, pc)
  PROVE  Continues(t) /\ call'[t].pc = pc
BY DEF Moves, Continues, OthersKept, Call

LEMMA Reading ==
  ASSUME call \in [Tabs -> Call], NEW t \in Tabs, NEW pc \in {"prune", "write"},
         NEW list \in SUBSET Entry,
         call' = [call EXCEPT ![t].pc = pc, ![t].read = list]
  PROVE  Continues(t) /\ call'[t].pc = pc /\ call'[t].read = list
BY DEF Continues, OthersKept, Call

-----------------------------------------------------------------------------
(***************************************************************************)
(* The four kinds of step of a tab, and what they leave alone.             *)
(***************************************************************************)
Asks(t) ==
  /\ OthersKept(t) /\ UNCHANGED <<store, jar, jarOf, revoked, faults, lost>>
  /\ access' \in [Tabs -> 0 .. MaxIssues] /\ ui' \in [Tabs -> {"restoring", "in", "out"}]
  /\ \A u \in Tabs \ {t} : access'[u] = access[u]
  /\ access'[t] \in {None, access[t]}
  /\ call[t] = NoCall
  /\ call'[t].op # "none" /\ call'[t].pc \in {"guard", "read"} /\ call'[t].issue = None
  /\ call'[t].access = access'[t] /\ call'[t].refresh = jar[jarOf[t]]
  /\ call'[t].op = "logout" => access'[t] # None
  /\ call'[t].op = "signin" => access'[t] = None
  /\ call'[t].op = "refresh" => call'[t].then # "none"

LEMMA UserAsks ==
  ASSUME Inv, NEW t \in Tabs, User(t)
  PROVE  Asks(t)
<1>1. TypeOK /\ None \in 0 .. MaxIssues /\ jarOf[t] \in Tabs
  BY SessionsAssumption DEF Inv, TypeOK, None
<1>2. call[t] = NoCall
  BY DEF Inv, CallInv, User, Load, Login, Request, Logout, Idle
<1>3. CASE Load(t) \/ Login(t)
  <2>1. /\ access' = [access EXCEPT ![t] = None] /\ UNCHANGED <<jar, revoked>>
        /\ Sends(t, "probe", "read", "none", FALSE) \/ Sends(t, "signin", "read", "none", FALSE)
        /\ UNCHANGED <<store, jarOf, faults, lost>>
        /\ ui' = [ui EXCEPT ![t] = "restoring"] \/ UNCHANGED ui
    BY <1>3 DEF Load, Login
  <2>2. /\ access' \in [Tabs -> 0 .. MaxIssues] /\ access'[t] = None
        /\ \A u \in Tabs \ {t} : access'[u] = access[u]
        /\ ui' \in [Tabs -> {"restoring", "in", "out"}]
        /\ jar'[jarOf[t]] \in 0 .. MaxIssues /\ access'[t] \in 0 .. MaxIssues
    BY <1>1, <2>1 DEF TypeOK
  <2>3. /\ OthersKept(t) /\ call'[t].op \in {"probe", "signin"} /\ call'[t].pc = "read"
        /\ call'[t].access = access'[t] /\ call'[t].refresh = jar'[jarOf[t]]
        /\ call'[t].issue = None
    BY <1>1, <2>1, <2>2, Sending
  <2>. QED
    BY <1>2, <2>1, <2>2, <2>3 DEF Asks
<1>5. CASE Request(t)
  BY <1>1, <1>2, <1>5, Sending DEF Request, Asks, store, client, TypeOK
<1>6. CASE Logout(t)
  BY <1>1, <1>2, <1>6, Sending DEF Logout, Asks, store, client, TypeOK
<1>. QED
  BY <1>3, <1>5, <1>6 DEF User

\* A handler goes on without signing anything.
Handles(t) ==
  /\ Continues(t) /\ UNCHANGED <<issued, sidOf, expired, client, jarOf, faults, lost>>
  /\ call[t].pc \notin {"none", "answer"}
  /\ Answered(t, "ok")' => call[t].op \in {"probe", "request"} \/ WriteLogout(t)
  /\ call[t].op = "refresh" /\ call'[t].pc \in {"prune", "write"} =>
       call[t].refresh # None

LEMMA ServerHandles ==
  ASSUME Inv, NEW t \in Tabs,
         Guard(t) \/ Read(t) \/ Prune(t) \/ WriteRefused(t) \/ WriteLogout(t)
  PROVE  Handles(t)
<1>1. TypeOK /\ CallInv /\ call \in [Tabs -> Call]
  BY DEF Inv, TypeOK
<1>2. CASE Guard(t)
  <2>1. \/ Answers(t, "error") \/ Answers(t, "invalid")
        \/ Answers(t, "ok") /\ call[t].op = "request"
        \/ Moves(t, "read")
    BY <1>2 DEF Guard
  <2>. QED
    BY <1>1, <1>2, <2>1, Answering, Moving DEF Guard, Handles, Answered, client
<1>3. CASE Read(t)
  <2>1. CASE Answers(t, "invalid")
    BY <1>1, <1>3, <2>1, Answering DEF Read, Handles, Answered, store, client
  <2>2. CASE ~Answers(t, "invalid")
    <3>. DEFINE next == IF UsesRefreshToken(t) THEN "prune" ELSE "write"
    <3>1. /\ call' = [call EXCEPT ![t].read = tokens, ![t].pc = next]
          /\ call[t].op = "refresh" => call[t].refresh # None
      BY <1>3, <2>2 DEF Read, UsesRefreshToken
    <3>2. next \in {"prune", "write"} /\ tokens \in SUBSET Entry
      BY <1>1 DEF TypeOK
    <3>. HIDE DEF next
    <3>3. call' = [call EXCEPT ![t] = [[@ EXCEPT !.read = tokens] EXCEPT !.pc = next]]
      BY <3>1
    <3>4. Continues(t) /\ call'[t].pc = next
      BY <1>1, <3>2, <3>3 DEF Continues, OthersKept, Call
    <3>. QED
      BY <1>1, <1>3, <3>1, <3>2, <3>4 DEF Read, Handles, Answered, store, client
  <2>. QED
    BY <2>1, <2>2
<1>4. CASE Prune(t)
  <2>. DEFINE list == PrunePersistedTokens(call[t].read)
  <2>1. \/ Answers(t, "invalid")
        \/ Answers(t, "ok") /\ call[t].op = "probe"
        \/ call' = [call EXCEPT ![t].pc = "write", ![t].read = list]
    BY <1>4 DEF Prune
  <2>2. list \in SUBSET Entry
    BY <1>1 DEF PrunePersistedTokens, Call
  <2>3. call[t].op = "refresh" => call[t].refresh # None
    BY <1>1, <1>4 DEF Prune, CallInv
  <2>. HIDE DEF list
  <2>. QED
    BY <1>1, <1>4, <2>1, <2>2, <2>3, Answering, Reading DEF Prune, Handles, Answered, client
<1>5. CASE WriteRefused(t)
  BY <1>1, <1>5, Answering DEF WriteRefused, Handles, Answered, store, client
<1>6. CASE WriteLogout(t)
  BY <1>1, <1>6, Answering DEF WriteLogout, Handles, Answered, client
<1>. QED
  BY <1>2, <1>3, <1>4, <1>5, <1>6

\* A pair of session s is signed and stored with list.
Signs(t, s, list) ==
  LET n == issued + 1
  IN /\ OthersKept(t) /\ UNCHANGED <<expired, prunes, client, jarOf, faults, lost>>
     /\ n \in Issues /\ issued' = n /\ sidOf' = [sidOf EXCEPT ![n] = s]
     /\ WriteTokens(call[t].read, MergePersistedSessionTokens(list, Pair(s, n)))
     /\ list \subseteq call[t].read
     /\ \A x \in call[t].read : ~Over(x.kind, x.issue) /\ x.sid # s => x \in list
     /\ call[t].issue = None /\ call'[t].issue = n /\ Answered(t, "ok")'
     /\ call'[t].op = call[t].op /\ call[t].op \in {"signin", "refresh"}
     /\ call'[t].access = call[t].access /\ call'[t].refresh = call[t].refresh
     /\ call'[t].then = call[t].then

SignsNew(t) == Signs(t, issued + 1, PrunePersistedTokens(call[t].read))
SignsAgain(t) ==
  LET s == sidOf[call[t].refresh]
  IN /\ call[t].op = "refresh" /\ call[t].refresh \in 1 .. issued
     /\ Signs(t, s, {x \in call[t].read : x.sid # s})

LEMMA Signing ==
  ASSUME Inv, NEW t \in Tabs, NEW s, NEW list, Issue(t, s, list), issued < MaxIssues,
         call[t].op \in {"signin", "refresh"}, call[t].pc = "write",
         list \subseteq call[t].read,
         \A x \in call[t].read : ~Over(x.kind, x.issue) /\ x.sid # s => x \in list,
         UNCHANGED <<expired, prunes, client, jarOf, faults, lost>>
  PROVE  Signs(t, s, list)
<1>. DEFINE n == issued + 1
<1>1. n \in Issues /\ n \in 0 .. MaxIssues
  BY SessionsAssumption DEF Inv, TypeOK, Issues
<1>2. call \in [Tabs -> Call] /\ call[t].issue = None
  BY DEF Inv, TypeOK, CallInv, Answered
<1>3. call' = [call EXCEPT ![t] = [[[[@ EXCEPT !.pc = "answer"] EXCEPT !.answer = "ok"]
                                     EXCEPT !.issue = n] EXCEPT !.read = {}]]
  BY DEF Issue
<1>. HIDE DEF n
<1>4. /\ OthersKept(t) /\ call'[t].pc = "answer" /\ call'[t].answer = "ok"
      /\ call'[t].issue = n /\ call'[t].op = call[t].op
      /\ call'[t].access = call[t].access /\ call'[t].refresh = call[t].refresh
      /\ call'[t].then = call[t].then
  BY <1>1, <1>2, <1>3 DEF OthersKept, Call
<1>. QED
  BY <1>1, <1>2, <1>4 DEF Signs, Issue, Answered, n

LEMMA ServerSigns ==
  ASSUME Inv, NEW t \in Tabs, WriteSignin(t) \/ WriteRefresh(t)
  PROVE  SignsNew(t) \/ SignsAgain(t)
<1>1. CASE WriteSignin(t)
  BY <1>1, Signing DEF WriteSignin, SignsNew, PrunePersistedTokens
<1>2. CASE WriteRefresh(t)
  <2>1. call[t].refresh \in 1 .. issued
    BY <1>2, SessionsAssumption
    DEF WriteRefresh, Inv, CallInv, SignedInv, TypeOK, Call, None
  <2>. QED
    BY <1>2, <2>1, Signing DEF WriteRefresh, SignsAgain
<1>. QED
  BY <1>1, <1>2

\* The answer is taken in: a pair is kept, or tokens are forgotten.
TakesIn(t) ==
  /\ OthersKept(t) /\ UNCHANGED <<store, jarOf, faults, lost>>
  /\ call[t].pc = "answer" /\ call[t].op # "none"
  /\ jar' \in [Tabs -> 0 .. MaxIssues] /\ access' \in [Tabs -> 0 .. MaxIssues]
  /\ ui' \in [Tabs -> {"restoring", "in", "out"}]
  /\ \A b \in Tabs \ {jarOf[t]} : jar'[b] = jar[b]
  /\ \A u \in Tabs \ {t} : access'[u] = access[u]
  /\ IF call[t].issue # None
     THEN jar'[jarOf[t]] = call[t].issue /\ access'[t] = call[t].issue
     ELSE /\ jar'[jarOf[t]] \in {None, jar[jarOf[t]]} /\ access'[t] \in {None, access[t]}
          /\ access'[t] = None \/ jar'[jarOf[t]] = jar[jarOf[t]]
  /\ \/ call'[t] = NoCall
     \/ /\ call'[t].op \in {"refresh", "request", "logout"} /\ call'[t].pc \in {"guard", "read"}
        /\ call'[t].issue = None /\ call'[t].access = access'[t]
        /\ call'[t].refresh = jar'[jarOf[t]]
        /\ call'[t].op = "logout" => access'[t] # None
        /\ call'[t].op = "refresh" => call'[t].then # "none"
  /\ SignedOut(t) => jar'[jarOf[t]] = None
  /\ \/ UNCHANGED revoked
     \/ SignedOut(t) /\ revoked' = revoked \cup {sidOf[call[t].access]}

LEMMA TabTakesIn ==
  ASSUME Inv, NEW t \in Tabs, Receive(t)
  PROVE  TakesIn(t)
<1>. DEFINE c == call[t]
            b == jarOf[t]
<1>1. /\ TypeOK /\ None \in 0 .. MaxIssues /\ b \in Tabs /\ c \in Call
      /\ call \in [Tabs -> Call]
  BY SessionsAssumption DEF Inv, TypeOK, None
<1>2. /\ c.issue # None <=> c.op \in {"signin", "refresh"} /\ c.answer = "ok"
      /\ c.op = "refresh" => c.then \in {"restore", "retry", "logout"}
      /\ c.pc = "answer" /\ c.op # "none"
  BY <1>1 DEF Inv, CallInv, Answered, Receive, ReceiveProbe, ReceiveSignin, ReceiveRefresh,
              ReceiveRequest, ReceiveLogout, Receives, Call
<1>3. /\ UNCHANGED <<store, jarOf, faults, lost>> /\ jar' = [jar EXCEPT ![b] = CookieOf(t)]
      /\ CookieOf(t) \in {None, jar[b], c.issue}
  BY DEF Receive, ReceiveProbe, ReceiveSignin, ReceiveRefresh, ReceiveRequest, ReceiveLogout,
         Receives, CookieOf
<1>4. /\ jar' \in [Tabs -> 0 .. MaxIssues] /\ jar'[b] = CookieOf(t)
      /\ jar'[b] \in 0 .. MaxIssues
      /\ \A d \in Tabs \ {b} : jar'[d] = jar[d]
  BY <1>1, <1>3 DEF TypeOK, Call
<1>5. /\ c.op \in {"signin", "refresh"} /\ c.answer = "ok" => jar'[b] = c.issue
      /\ c.op \in {"signin", "request"} /\ c.answer # "ok" => jar'[b] = jar[b]
      /\ c.op = "request" => jar'[b] = jar[b]
      /\ SignedOut(t) => jar'[b] = None
      /\ c.issue = None => jar'[b] \in {None, jar[b]}
  BY <1>2, <1>3, <1>4 DEF CookieOf, UsesRefreshToken, SignedOut, Answered
<1>. DEFINE Kept(n) ==
              /\ access' \in [Tabs -> 0 .. MaxIssues] /\ access'[t] = n
              /\ access'[t] \in 0 .. MaxIssues
              /\ \A u \in Tabs \ {t} : access'[u] = access[u]
            Drawn == UNCHANGED ui \/ \E screen \in {"in", "out"} : Shows(t, screen)
<1>6. /\ \A n \in 0 .. MaxIssues : Keeps(t, n) => Kept(n)
      /\ UNCHANGED access => Kept(access[t])
  BY <1>1 DEF Keeps, TypeOK
<1>7. Drawn => ui' \in [Tabs -> {"restoring", "in", "out"}]
  BY <1>1 DEF Shows, TypeOK
<1>. HIDE DEF c, b, Kept
<1>8. CASE ReceiveProbe(t)
  <2>1. /\ Keeps(t, None) /\ UNCHANGED revoked /\ Drawn /\ c.op = "probe"
        /\ Sends(t, "refresh", "read", "restore", FALSE) \/ Ends(t)
    BY <1>8 DEF ReceiveProbe, Receives, c
  <2>2. c.issue = None /\ Kept(None)
    BY <1>1, <1>2, <1>6, <2>1
  <2>3. OthersKept(t) /\ (call'[t] = NoCall \/ (/\ call'[t].op = "refresh" /\ call'[t].pc = "read"
          /\ call'[t].issue = None /\ call'[t].access = access'[t]
          /\ call'[t].refresh = jar'[b] /\ call'[t].then = "restore"))
    BY <1>1, <1>4, <2>1, <2>2, Sending, Ending DEF b, Kept
  <2>. QED
    BY <1>2, <1>3, <1>4, <1>5, <1>7, <2>1, <2>2, <2>3 DEF TakesIn, b, c, Kept
<1>9. CASE ReceiveSignin(t)
  <2>1. /\ UNCHANGED revoked /\ Drawn /\ c.op = "signin" /\ Ends(t)
        /\ IF c.answer = "ok" THEN Keeps(t, c.issue) ELSE UNCHANGED access
    BY <1>9 DEF ReceiveSignin, Receives, c
  <2>2. IF c.issue # None THEN Kept(c.issue) ELSE Kept(access[t])
    BY <1>1, <1>2, <1>6, <2>1 DEF Call
  <2>3. OthersKept(t) /\ call'[t] = NoCall
    BY <1>1, <2>1, Ending
  <2>4. c.issue = None => access'[t] = None
    BY <1>1, <1>2, <2>1, <1>9 DEF Inv, CallInv, c, Kept
  <2>. QED
    BY <1>2, <1>3, <1>4, <1>5, <1>7, <2>1, <2>2, <2>3, <2>4 DEF TakesIn, b, c, Kept
<1>10. CASE ReceiveRefresh(t)
  <2>1. /\ UNCHANGED revoked /\ Drawn /\ c.op = "refresh"
        /\ IF c.answer = "ok"
           THEN /\ Keeps(t, c.issue)
                /\ \/ Ends(t) \/ Sends(t, "request", "guard", "none", TRUE)
                   \/ Sends(t, "logout", "guard", "none", FALSE)
           ELSE Keeps(t, None) /\ Ends(t)
    BY <1>2, <1>10 DEF ReceiveRefresh, Receives, c
  <2>2. IF c.issue # None THEN Kept(c.issue) ELSE Kept(None) /\ Ends(t)
    BY <1>1, <1>2, <1>6, <2>1 DEF Call
  <2>3. OthersKept(t) /\ (call'[t] = NoCall
          \/ (/\ call'[t].op \in {"request", "logout"} /\ call'[t].pc = "guard"
              /\ call'[t].issue = None /\ call'[t].access = access'[t]
              /\ call'[t].refresh = jar'[b] /\ c.issue # None))
    BY <1>1, <1>2, <1>4, <2>1, <2>2, Sending, Ending DEF b, Kept
  <2>. QED
    BY <1>2, <1>3, <1>4, <1>5, <1>7, <2>1, <2>2, <2>3 DEF TakesIn, b, c, Kept
<1>11. CASE ReceiveRequest(t)
  <2>1. /\ UNCHANGED revoked /\ Drawn /\ c.op = "request"
        /\ \/ UNCHANGED access /\ (Ends(t) \/ Sends(t, "refresh", "read", "retry", FALSE))
           \/ Keeps(t, None) /\ Ends(t)
    BY <1>11 DEF ReceiveRequest, Receives, c
  <2>2. Kept(access[t]) \/ (Kept(None) /\ Ends(t))
    BY <1>1, <1>6, <2>1
  <2>3. OthersKept(t) /\ (call'[t] = NoCall
          \/ (/\ call'[t].op = "refresh" /\ call'[t].pc = "read"
              /\ call'[t].issue = None /\ call'[t].access = access'[t]
              /\ call'[t].refresh = jar'[b] /\ call'[t].then = "retry"))
    BY <1>1, <1>4, <2>1, <2>2, Sending, Ending DEF b, Kept
  <2>4. c.issue = None /\ jar'[b] = jar[b]
    BY <1>2, <1>5, <2>1
  <2>. QED
    BY <1>2, <1>3, <1>4, <1>5, <1>7, <2>1, <2>2, <2>3, <2>4 DEF TakesIn, b, c, Kept
<1>12. CASE ReceiveLogout(t)
  <2>1. /\ Keeps(t, None) /\ Drawn /\ Ends(t) /\ c.op = "logout"
        /\ revoked' = IF c.answer = "ok" THEN revoked \cup {sidOf[c.access]} ELSE revoked
    BY <1>12 DEF ReceiveLogout, Receives, c
  <2>2. c.issue = None /\ Kept(None)
    BY <1>1, <1>2, <1>6, <2>1
  <2>3. OthersKept(t) /\ call'[t] = NoCall
    BY <1>1, <2>1, Ending
  <2>. QED
    BY <1>2, <1>3, <1>4, <1>5, <1>7, <2>1, <2>2, <2>3
    DEF TakesIn, b, c, Kept, SignedOut, Answered
<1>. QED
  BY <1>8, <1>9, <1>10, <1>11, <1>12 DEF Receive

\* The answer is lost, and with it a pair.
Loses(t) ==
  /\ OthersKept(t) /\ UNCHANGED <<store, jar, revoked, jarOf>>
  /\ call[t].pc = "answer" /\ call'[t] = NoCall
  /\ faults' \in 0 .. MaxFaults /\ lost' = lost \cup {jarOf[t]}
  /\ access' \in [Tabs -> 0 .. MaxIssues] /\ ui' \in [Tabs -> {"restoring", "in", "out"}]
  /\ \A u \in Tabs \ {t} : access'[u] = access[u]
  /\ access'[t] \in {None, access[t]} /\ (call[t].op = "refresh" => access'[t] = None)

LEMMA TabLoses ==
  ASSUME Inv, NEW t \in Tabs, LoseAnswer(t)
  PROVE  Loses(t)
<1>1. TypeOK /\ None \in 0 .. MaxIssues /\ MaxFaults \in Nat
  BY SessionsAssumption DEF Inv, None
<1>2. OthersKept(t) /\ call'[t] = NoCall
  BY <1>1, Ending DEF LoseAnswer, TypeOK
<1>3. /\ access' = [access EXCEPT ![t] = None] \/ UNCHANGED access
      /\ call[t].op = "refresh" => access' = [access EXCEPT ![t] = None]
      /\ ui' = [ui EXCEPT ![t] = "out"] \/ UNCHANGED ui
  BY DEF LoseAnswer
<1>. QED
  BY <1>1, <1>2, <1>3 DEF LoseAnswer, Loses, TypeOK

-----------------------------------------------------------------------------
(***************************************************************************)
(* What the steps do to the list.  Without a race, a list is the stored    *)
(* one less expired tokens and less the sessions that a sign-out takes.    *)
(***************************************************************************)
Shrinks ==
  /\ tokens' \subseteq Entry /\ raced' \in BOOLEAN
  /\ ~raced' => ~raced /\ tokens' \subseteq tokens

Takes(t, x) ==
  WriteLogout(t) /\ \E y \in tokens : /\ y.sid = x.sid
                                      /\ y.issue \in {call[t].access, call[t].refresh}

LEMMA Shrinking ==
  ASSUME TypeOK, NEW read, NEW list, list \subseteq read, read \subseteq Entry,
         WriteTokens(read, list)
  PROVE  Shrinks /\ (~raced' => tokens = read)
BY DEF WriteTokens, Shrinks, TypeOK

LEMMA HandlerShrinks ==
  ASSUME Inv, NEW t \in Tabs,
         Guard(t) \/ Read(t) \/ Prune(t) \/ WriteRefused(t) \/ WriteLogout(t)
  PROVE  /\ Shrinks
         /\ \A x \in tokens : ~raced' /\ ~Over(x.kind, x.issue) => x \in tokens' \/ Takes(t, x)
<1>1. TypeOK /\ call[t].read \subseteq Entry
  BY DEF Inv, TypeOK, Call
<1>2. CASE UNCHANGED <<tokens, raced>>
  BY <1>1, <1>2 DEF Shrinks, TypeOK
<1>3. CASE Prune(t)
  <2>. DEFINE list == PrunePersistedTokens(call[t].read)
  <2>1. CASE WriteTokens(call[t].read, list)
    <3>1. Shrinks /\ (~raced' => tokens = call[t].read)
      BY <1>1, <2>1, Shrinking DEF PrunePersistedTokens
    <3>. QED
      BY <2>1, <3>1 DEF WriteTokens, PrunePersistedTokens
  <2>. QED
    BY <1>2, <1>3, <2>1 DEF Prune
<1>4. CASE WriteLogout(t)
  <2>. DEFINE list == PrunePersistedTokens(call[t].read)
              Presented(x) == \/ x.kind = "access" /\ x.issue = call[t].access
                              \/ x.kind = "refresh" /\ x.issue = call[t].refresh
              keys == {x.sid : x \in {y \in list : Presented(y)}}
              rest == {x \in list : x.sid \notin keys}
  <2>1. WriteTokens(call[t].read, rest)
    BY <1>4 DEF WriteLogout
  <2>2. list \subseteq call[t].read
    BY DEF PrunePersistedTokens
  <2>3. Shrinks /\ (~raced' => tokens = call[t].read) /\ tokens' = rest
    BY <1>1, <2>1, <2>2, Shrinking DEF WriteTokens
  <2>4. ASSUME NEW x \in tokens, ~raced', ~Over(x.kind, x.issue), x \notin tokens'
        PROVE  Takes(t, x)
    <3>1. x \in list /\ x.sid \in keys
      BY <2>3, <2>4 DEF PrunePersistedTokens
    <3>2. PICK y \in list : Presented(y) /\ y.sid = x.sid
      BY <3>1
    <3>. QED
      BY <1>4, <2>2, <2>3, <2>4, <3>2 DEF Takes
  <2>. QED
    BY <2>3, <2>4
<1>. QED
  BY <1>2, <1>3, <1>4 DEF Guard, Read, WriteRefused, store

LEMMA GuardShrinks ==
  ASSUME Inv, GuardPrunes
  PROVE  /\ Shrinks
         /\ \A x \in tokens : ~raced' /\ ~Over(x.kind, x.issue) => x \in tokens'
<1>1. PICK p \in prunes : WriteTokens(p.read, p.write)
  BY DEF GuardPrunes
<1>2. /\ p.read \subseteq Entry /\ p.write \subseteq p.read
      /\ \A x \in p.read : ~Over(x.kind, x.issue) => x \in p.write
  BY DEF Inv, TypeOK, PrunesInv
<1>3. Shrinks /\ (~raced' => tokens = p.read)
  BY <1>1, <1>2, Shrinking DEF Inv
<1>. QED
  BY <1>1, <1>2, <1>3 DEF WriteTokens

LEMMA SignerWrites ==
  ASSUME Inv, NEW t \in Tabs, NEW s \in Issues, NEW list, Signs(t, s, list)
  PROVE  /\ tokens' \subseteq Entry /\ raced' \in BOOLEAN
         /\ ~raced' => ~raced /\ tokens = call[t].read
         /\ tokens' = MergePersistedSessionTokens(list, Pair(s, issued'))
         /\ tokens' \subseteq list \cup Pair(s, issued')
         /\ Pair(s, issued') \subseteq Entry
<1>1. call[t].read \subseteq Entry
  BY DEF Inv, TypeOK, Call
<1>2. Pair(s, issued') \subseteq Entry
  BY DEF Signs, Pair, Entry
<1>. QED
  BY <1>1, <1>2 DEF Signs, WriteTokens, MergePersistedSessionTokens, Inv, TypeOK

LEMMA SessionSigned ==
  ASSUME Inv, NEW t \in Tabs, SignsAgain(t)
  PROVE  sidOf[call[t].refresh] \in Issues /\ sidOf[call[t].refresh] <= issued
BY SessionsAssumption DEF SignsAgain, Inv, SignedInv, TypeOK, Issues

-----------------------------------------------------------------------------
LEMMA TypeStep ==
  ASSUME Inv, [Next]_vars
  PROVE  TypeOK'
<1>1. TypeOK /\ MaxIssues \in Nat
  BY SessionsAssumption DEF Inv
<1>2. ASSUME NEW t \in Tabs, User(t) PROVE TypeOK'
  BY <1>1, <1>2, UserAsks DEF Asks, OthersKept, TypeOK, store
<1>3. ASSUME NEW t \in Tabs,
             Guard(t) \/ Read(t) \/ Prune(t) \/ WriteRefused(t) \/ WriteLogout(t)
      PROVE  TypeOK'
  <2>1. prunes' \subseteq [read : SUBSET Entry, write : SUBSET Entry]
    <3>1. CASE Guard(t)
      <4>. DEFINE p == [read |-> tokens, write |-> PrunePersistedTokens(tokens)]
      <4>1. p \in [read : SUBSET Entry, write : SUBSET Entry]
        BY <1>1 DEF TypeOK, PrunePersistedTokens
      <4>2. prunes' = prunes \/ prunes' = prunes \cup {p}
        BY <3>1 DEF Guard
      <4>. QED
        BY <1>1, <4>1, <4>2 DEF TypeOK
    <3>. QED
      BY <1>1, <1>3, <3>1 DEF Read, Prune, WriteRefused, WriteLogout, store, TypeOK
  <2>. QED
    BY <1>1, <1>3, <2>1, ServerHandles, HandlerShrinks
    DEF Handles, Shrinks, Continues, OthersKept, TypeOK, client
<1>4. ASSUME NEW t \in Tabs, WriteSignin(t) \/ WriteRefresh(t) PROVE TypeOK'
  <2>1. PICK s \in Issues, list \in {PrunePersistedTokens(call[t].read),
                                     {x \in call[t].read : x.sid # sidOf[call[t].refresh]}} :
          Signs(t, s, list)
    BY <1>4, ServerSigns, SessionSigned DEF SignsNew, SignsAgain, Signs
  <2>2. issued' \in 0 .. MaxIssues /\ sidOf' \in [Issues -> 0 .. MaxIssues]
    BY <1>1, <2>1 DEF Signs, TypeOK, Issues
  <2>. QED
    BY <1>1, <2>1, <2>2, SignerWrites DEF Signs, OthersKept, TypeOK, client
<1>5. ASSUME NEW t \in Tabs, Receive(t) PROVE TypeOK'
  <2>1. TakesIn(t)
    BY <1>5, TabTakesIn
  <2>2. revoked' \subseteq Issues
    <3>1. CASE revoked' = revoked \cup {sidOf[call[t].access]} /\ SignedOut(t)
      <4>1. call[t].access \in 1 .. issued
        BY <1>1, <3>1 DEF Inv, CallInv, SignedInv, SignedOut, TypeOK, None
      <4>2. sidOf[call[t].access] \in 1 .. call[t].access
        BY <4>1 DEF Inv, SignedInv
      <4>3. issued \in 0 .. MaxIssues
        BY <1>1 DEF TypeOK
      <4>4. sidOf[call[t].access] \in Issues
        BY <1>1, <4>1, <4>2, <4>3 DEF Issues
      <4>. QED
        BY <1>1, <3>1, <4>4 DEF TypeOK
    <3>. QED
      BY <1>1, <2>1, <3>1 DEF TakesIn, TypeOK
  <2>. QED
    BY <1>1, <2>1, <2>2 DEF TakesIn, OthersKept, TypeOK, store
<1>6. ASSUME NEW t \in Tabs, LoseAnswer(t) PROVE TypeOK'
  BY <1>1, <1>6, TabLoses DEF Loses, OthersKept, TypeOK, store
<1>7. CASE GuardPrunes
  BY <1>1, <1>7, GuardShrinks DEF GuardPrunes, Shrinks, TypeOK, client
<1>8. ASSUME NEW kind \in {"access", "refresh"}, Expire(kind) PROVE TypeOK'
  BY <1>1, <1>8 DEF Expire, TypeOK, client
<1>9. CASE UNCHANGED vars
  BY <1>1, <1>9 DEF vars, store, client, TypeOK
<1>. QED
  BY <1>2, <1>3, <1>4, <1>5, <1>6, <1>7, <1>8, <1>9 DEF Next, Server

Serves(t) == Guard(t) \/ Read(t) \/ Prune(t) \/ WriteRefused(t) \/ WriteLogout(t)

LEMMA CallStep ==
  ASSUME Inv, [Next]_vars
  PROVE  CallInv'
<1>1. TypeOK /\ CallInv
  BY DEF Inv
<1>2. ASSUME NEW t \in Tabs, Asks(t) PROVE CallInv'
  BY <1>1, <1>2 DEF Asks, OthersKept, CallInv, Answered, NoCall, None
<1>3. ASSUME NEW t \in Tabs, Serves(t) PROVE CallInv'
  <2>1. Handles(t)
    BY <1>3, ServerHandles DEF Serves
  <2>2. call[t].issue = None
    BY <1>1, <2>1 DEF Handles, CallInv, Answered
  <2>3. WriteLogout(t) => call[t].op = "logout"
    BY DEF WriteLogout
  <2>. QED
    BY <1>1, <2>1, <2>2, <2>3
    DEF Handles, Continues, OthersKept, CallInv, Answered, NoCall, client
<1>4. ASSUME NEW t \in Tabs, NEW s, NEW list, Signs(t, s, list) PROVE CallInv'
  <2>1. issued' # None
    BY <1>1, <1>4 DEF Signs, TypeOK, None
  <2>. QED
    BY <1>1, <1>4, <2>1 DEF Signs, OthersKept, CallInv, Answered, client
<1>5. ASSUME NEW t \in Tabs, TakesIn(t) PROVE CallInv'
  BY <1>1, <1>5 DEF TakesIn, OthersKept, CallInv, Answered, NoCall
<1>6. ASSUME NEW t \in Tabs, Loses(t) PROVE CallInv'
  BY <1>1, <1>6 DEF Loses, OthersKept, CallInv, Answered, NoCall
<1>7. CASE UNCHANGED <<call, access>>
  BY <1>1, <1>7 DEF CallInv, Answered
<1>8. GuardPrunes \/ (\E kind \in {"access", "refresh"} : Expire(kind)) \/ UNCHANGED vars =>
        UNCHANGED <<call, access>>
  BY DEF GuardPrunes, Expire, vars, client
<1>. QED
  BY <1>2, <1>3, <1>4, <1>5, <1>6, <1>7, <1>8, UserAsks, ServerSigns, TabTakesIn, TabLoses
  DEF Next, Server, Serves, SignsNew, SignsAgain

LEMMA SignedStep ==
  ASSUME Inv, [Next]_vars
  PROVE  SignedInv'
<1>1. TypeOK /\ SignedInv /\ issued \in Nat /\ 0 <= issued
  BY DEF Inv, TypeOK
<1>2. ASSUME NEW t \in Tabs, Asks(t) PROVE SignedInv'
  <2>1. call'[t].refresh <= issued /\ access'[t] <= issued /\ call'[t].issue <= issued
    BY <1>1, <1>2 DEF Asks, SignedInv, TypeOK, None
  <2>. QED
    BY <1>1, <1>2, <2>1 DEF Asks, OthersKept, SignedInv, store
<1>3. ASSUME NEW t \in Tabs, Serves(t) PROVE SignedInv'
  <2>1. Handles(t)
    BY <1>3, ServerHandles DEF Serves
  <2>. QED
    BY <1>1, <2>1 DEF Handles, Continues, OthersKept, SignedInv, client
<1>4. ASSUME NEW t \in Tabs, NEW s \in Issues, NEW list, Signs(t, s, list), s <= issued + 1
      PROVE  SignedInv'
  <2>1. /\ issued' = issued + 1 /\ sidOf' = [sidOf EXCEPT ![issued + 1] = s]
        /\ issued + 1 \in Issues /\ UNCHANGED <<jar, access, revoked>>
        /\ call'[t].issue = issued + 1 /\ call'[t].refresh = call[t].refresh
        /\ \A u \in Tabs \ {t} : call'[u] = call[u]
    BY <1>4 DEF Signs, OthersKept, client
  <2>2. \A k \in 0 .. MaxIssues : k <= issued => k <= issued'
    BY <1>1, <2>1
  <2>3. \A u \in Tabs : /\ jar[u] <= issued' /\ access[u] <= issued'
                        /\ call[u].refresh <= issued' /\ call[u].issue <= issued'
    BY <1>1, <2>2 DEF SignedInv, TypeOK, Call
  <2>4. \A u \in Tabs : /\ jar'[u] <= issued' /\ access'[u] <= issued'
                        /\ call'[u].refresh <= issued' /\ call'[u].issue <= issued'
    BY <1>1, <2>1, <2>3
  <2>5. ASSUME NEW n \in 1 .. issued' PROVE sidOf'[n] \in 1 .. n
    <3>1. CASE n = issued + 1
      BY <1>1, <1>4, <2>1, <3>1 DEF TypeOK, Issues
    <3>2. CASE n \in 1 .. issued
      <4>1. n \in Issues /\ n # issued + 1
        BY <1>1, <3>2, SessionsAssumption DEF TypeOK, Issues
      <4>2. sidOf'[n] = sidOf[n]
        BY <1>1, <2>1, <4>1 DEF TypeOK
      <4>. QED
        BY <1>1, <3>2, <4>2 DEF SignedInv
    <3>. QED
      BY <1>1, <2>1, <2>5, <3>1, <3>2
  <2>6. \A r \in revoked' : r <= issued'
    BY <1>1, <2>1 DEF SignedInv, TypeOK, Issues
  <2>. QED
    BY <2>4, <2>5, <2>6 DEF SignedInv
<1>5. ASSUME NEW t \in Tabs, TakesIn(t) PROVE SignedInv'
  <2>. DEFINE b == jarOf[t]
  <2>1. b \in Tabs /\ call[t].issue <= issued /\ access[t] <= issued /\ jar[b] <= issued
    BY <1>1 DEF SignedInv, TypeOK
  <2>2. jar'[b] <= issued /\ access'[t] <= issued
    BY <1>1, <1>5, <2>1 DEF TakesIn, None
  <2>3. call'[t].refresh <= issued /\ call'[t].issue <= issued
    BY <1>1, <1>5, <2>2 DEF TakesIn, NoCall, None
  <2>4. \A r \in revoked' : r <= issued
    <3>1. SignedOut(t) => sidOf[call[t].access] <= issued
      BY <1>1 DEF SignedOut, Inv, CallInv, SignedInv, TypeOK, None
    <3>. QED
      BY <1>1, <1>5, <3>1 DEF TakesIn, SignedInv
  <2>. QED
    BY <1>1, <1>5, <2>2, <2>3, <2>4 DEF TakesIn, OthersKept, SignedInv, store
<1>6. ASSUME NEW t \in Tabs, Loses(t) PROVE SignedInv'
  <2>1. access'[t] <= issued /\ call'[t].refresh <= issued /\ call'[t].issue <= issued
    BY <1>1, <1>6 DEF Loses, SignedInv, NoCall, None
  <2>. QED
    BY <1>1, <1>6, <2>1 DEF Loses, OthersKept, SignedInv, store
<1>7. CASE UNCHANGED <<jar, access, call, issued, sidOf, revoked>>
  BY <1>1, <1>7 DEF SignedInv
<1>8. GuardPrunes \/ (\E kind \in {"access", "refresh"} : Expire(kind)) \/ UNCHANGED vars =>
        UNCHANGED <<jar, access, call, issued, sidOf, revoked>>
  BY DEF GuardPrunes, Expire, vars, client, store
<1>9. ASSUME NEW t \in Tabs, SignsNew(t) \/ SignsAgain(t) PROVE SignedInv'
  <2>1. issued + 1 \in Issues
    BY <1>9 DEF SignsNew, SignsAgain, Signs
  <2>2. SignsAgain(t) => /\ sidOf[call[t].refresh] \in Issues
                         /\ sidOf[call[t].refresh] <= issued + 1
    BY <1>1, SessionSigned DEF Issues
  <2>. QED
    BY <1>1, <1>4, <1>9, <2>1, <2>2 DEF SignsNew, SignsAgain
<1>. QED
  BY <1>2, <1>3, <1>5, <1>6, <1>7, <1>8, <1>9, UserAsks, ServerSigns, TabTakesIn, TabLoses
  DEF Next, Server, Serves

LEMMA PrunesStep ==
  ASSUME Inv, [Next]_vars
  PROVE  PrunesInv'
<1>1. PrunesInv /\ TypeOK
  BY DEF Inv
<1>2. \A kind \in {"access", "refresh"} : \A n \in Issues : Over(kind, n) => Over(kind, n)'
  <2>1. ASSUME NEW k \in {"access", "refresh"}, Expire(k),
               NEW kind \in {"access", "refresh"}, NEW n \in Issues, Over(kind, n)
        PROVE  Over(kind, n)'
    BY <1>1, <2>1 DEF Expire, Over, TypeOK, Issues
  <2>2. (\E k \in {"access", "refresh"} : Expire(k)) \/ UNCHANGED expired
    BY UserAsks, ServerHandles, ServerSigns, TabTakesIn, TabLoses
    DEF Next, Server, Asks, Handles, SignsNew, SignsAgain, Signs, TakesIn, Loses, GuardPrunes,
        store, vars
  <2>. QED
    BY <2>1, <2>2 DEF Over
<1>3. CASE prunes' \subseteq prunes
  BY <1>1, <1>2, <1>3 DEF PrunesInv, TypeOK, Entry
<1>4. ASSUME NEW t \in Tabs, Guard(t) PROVE PrunesInv'
  <2>. DEFINE p == [read |-> tokens, write |-> PrunePersistedTokens(tokens)]
  <2>1. prunes' \subseteq prunes \cup {p} /\ UNCHANGED expired
    BY <1>4 DEF Guard
  <2>2. /\ p.write \subseteq p.read
        /\ \A x \in p.read : ~Over(x.kind, x.issue) => x \in p.write
    BY DEF PrunePersistedTokens
  <2>. HIDE DEF p
  <2>. QED
    BY <1>1, <2>1, <2>2 DEF PrunesInv, Over
<1>5. prunes' \subseteq prunes \/ \E t \in Tabs : Guard(t)
  BY UserAsks, ServerSigns, TabTakesIn, TabLoses
  DEF Next, Server, Asks, Read, Prune, WriteRefused, WriteLogout, SignsNew, SignsAgain, Signs,
      TakesIn, Loses, GuardPrunes, Expire, store, vars
<1>. QED
  BY <1>3, <1>4, <1>5

LEMMA ListStep ==
  ASSUME Inv, [Next]_vars
  PROVE  ListInv'
<1>1. ListInv /\ TypeOK /\ SignedInv
  BY DEF Inv
<1>2. CASE UNCHANGED <<tokens, raced, issued, sidOf>>
  BY <1>1, <1>2 DEF ListInv
<1>3. CASE Shrinks /\ UNCHANGED <<issued, sidOf>>
  BY <1>1, <1>3 DEF ListInv, Shrinks
<1>4. ASSUME NEW t \in Tabs, NEW s \in Issues, NEW list, Signs(t, s, list), s <= issued + 1
      PROVE  ListInv'
  <2>1. SUFFICES ASSUME ~raced', NEW x \in tokens'
                 PROVE  x.issue <= issued' /\ x.sid = sidOf'[x.issue]
    BY DEF ListInv
  <2>2. /\ ~raced /\ tokens = call[t].read /\ list \subseteq tokens
        /\ issued' = issued + 1 /\ sidOf' = [sidOf EXCEPT ![issued + 1] = s]
        /\ issued + 1 \in Issues /\ x \in list \cup Pair(s, issued')
    BY <1>4, <2>1, SignerWrites DEF Signs
  <2>3. CASE x \in list
    <3>1. x.issue \in Issues /\ x.issue <= issued /\ x.sid = sidOf[x.issue]
      BY <1>1, <2>2, <2>3 DEF ListInv, TypeOK, Entry
    <3>2. x.issue # issued + 1 /\ x.issue <= issued + 1
      BY <1>1, <3>1 DEF TypeOK, Issues
    <3>. QED
      BY <1>1, <2>2, <3>1, <3>2 DEF TypeOK
  <2>4. CASE x \in Pair(s, issued')
    BY <1>1, <2>2, <2>4 DEF Pair, TypeOK, Issues
  <2>. QED
    BY <2>2, <2>3, <2>4
<1>5. ASSUME NEW t \in Tabs, SignsNew(t) \/ SignsAgain(t) PROVE ListInv'
  <2>1. issued + 1 \in Issues /\ issued + 1 <= issued + 1
    BY <1>1, <1>5 DEF SignsNew, SignsAgain, Signs, TypeOK, Issues
  <2>2. SignsAgain(t) => /\ sidOf[call[t].refresh] \in Issues
                         /\ sidOf[call[t].refresh] <= issued + 1
    BY <1>1, SessionSigned DEF Issues, TypeOK
  <2>. QED
    BY <1>4, <1>5, <2>1, <2>2 DEF SignsNew, SignsAgain
<1>6. ASSUME NEW t \in Tabs, Serves(t) PROVE ListInv'
  BY <1>3, <1>6, ServerHandles, HandlerShrinks DEF Serves, Handles
<1>7. CASE GuardPrunes
  BY <1>3, <1>7, GuardShrinks DEF GuardPrunes
<1>8. ASSUME NEW t \in Tabs, Asks(t) \/ TakesIn(t) \/ Loses(t) PROVE ListInv'
  BY <1>2, <1>8 DEF Asks, TakesIn, Loses, store
<1>9. ASSUME (\E kind \in {"access", "refresh"} : Expire(kind)) \/ UNCHANGED vars PROVE ListInv'
  BY <1>2, <1>9 DEF Expire, vars, store
<1>. QED
  BY <1>5, <1>6, <1>7, <1>8, <1>9, UserAsks, ServerSigns, TabTakesIn, TabLoses
  DEF Next, Server, Serves

LEMMA StartsRight == Init => Inv
<1>. SUFFICES ASSUME Init PROVE Inv
  OBVIOUS
<1>1. jarOf \in [Tabs -> Tabs]
  BY DEF Init
<1>2. NoCall \in Call /\ 0 \in 0 .. MaxIssues /\ 0 \in 0 .. MaxFaults
  BY Empty, SessionsAssumption
<1>3. \A t \in Tabs : call[t] = NoCall
  BY DEF Init
<1>4. TypeOK
  <2>1. /\ call \in [Tabs -> Call] /\ jar \in [Tabs -> 0 .. MaxIssues]
        /\ access \in [Tabs -> 0 .. MaxIssues] /\ ui \in [Tabs -> {"restoring", "in", "out"}]
    BY <1>2 DEF Init, None
  <2>2. /\ expired \in [{"access", "refresh"} -> 0 .. MaxIssues]
        /\ sidOf \in [Issues -> 0 .. MaxIssues] /\ issued \in 0 .. MaxIssues
        /\ faults \in 0 .. MaxFaults
    BY <1>2 DEF Init
  <2>. QED
    BY <1>1, <2>1, <2>2 DEF Init, TypeOK
<1>5. CallInv
  BY <1>3 DEF Init, CallInv, NoCall, Answered
<1>6. SignedInv
  BY <1>3 DEF Init, SignedInv, NoCall, None
<1>. QED
  BY <1>4, <1>5, <1>6 DEF Init, Inv, PrunesInv, ListInv

LEMMA Invariance == Spec => []Inv
<1>1. Inv /\ [Next]_vars => Inv'
  BY TypeStep, CallStep, SignedStep, PrunesStep, ListStep DEF Inv
<1>. QED
  BY <1>1, StartsRight, PTL DEF Spec

(***************************************************************************)
(* What a call carries, and what a session is, is of its type.             *)
(***************************************************************************)
THEOREM TypeCorrect == Spec => []TypeOK
<1>1. Inv => TypeOK
  BY DEF Inv
<1>. QED
  BY <1>1, Invariance, PTL

-----------------------------------------------------------------------------
(***************************************************************************)
(* The kinds of step there are; the last one is of no tab.                 *)
(***************************************************************************)
Passes ==
  \/ GuardPrunes \/ UNCHANGED vars
  \/ \E kind \in {"access", "refresh"} : Expire(kind)

LEMMA Kinds ==
  ASSUME Inv, [Next]_vars
  PROVE  \/ Passes
         \/ \E t \in Tabs : \/ Asks(t) \/ (Serves(t) /\ Handles(t)) \/ SignsNew(t)
                            \/ SignsAgain(t) \/ TakesIn(t) \/ Loses(t)
BY UserAsks, ServerHandles, ServerSigns, TabTakesIn, TabLoses DEF Next, Server, Serves, Passes

LEMMA PassesBy ==
  ASSUME Passes
  PROVE  UNCHANGED <<issued, sidOf, jarOf, jar, access, revoked, call, lost>>
BY DEF Passes, GuardPrunes, Expire, vars, store, client

LEMMA JarStep ==
  ASSUME Inv, JarInv, [Next]_vars
  PROVE  JarInv'
<1>1. UNCHANGED jarOf
  BY Kinds, PassesBy
  DEF Asks, Handles, SignsNew, SignsAgain, Signs, TakesIn, Loses
<1>. SUFFICES ASSUME AllOwnJars PROVE JarInv'
  BY <1>1 DEF JarInv, AllOwnJars, OwnJar
<1>2. /\ \A t, u \in Tabs : t # u => jarOf[t] # jarOf[u]
      /\ \A t \in Tabs : jarOf[t] \in Tabs
      /\ TypeOK /\ CallInv
  BY DEF AllOwnJars, OwnJar, Inv, TypeOK
<1>3. \A t \in Tabs : /\ call[t].op # "none" => call[t].refresh = jar[jarOf[t]]
                      /\ access[t] # None => access[t] = jar[jarOf[t]]
  BY DEF JarInv
<1>. SUFFICES \A t \in Tabs : /\ call'[t].op # "none" => call'[t].refresh = jar'[jarOf[t]]
                              /\ access'[t] # None => access'[t] = jar'[jarOf[t]]
  BY <1>1 DEF JarInv
<1>4. CASE Passes
  BY <1>3, <1>4, PassesBy
<1>5. ASSUME NEW t \in Tabs, Asks(t)
      PROVE  \A u \in Tabs : /\ call'[u].op # "none" => call'[u].refresh = jar'[jarOf[u]]
                             /\ access'[u] # None => access'[u] = jar'[jarOf[u]]
  BY <1>3, <1>5 DEF Asks, OthersKept
<1>6. ASSUME NEW t \in Tabs, Handles(t) \/ SignsNew(t) \/ SignsAgain(t)
      PROVE  \A u \in Tabs : /\ call'[u].op # "none" => call'[u].refresh = jar'[jarOf[u]]
                             /\ access'[u] # None => access'[u] = jar'[jarOf[u]]
  BY <1>3, <1>6
  DEF Handles, Continues, OthersKept, SignsNew, SignsAgain, Signs, client
<1>7. ASSUME NEW t \in Tabs, TakesIn(t)
      PROVE  \A u \in Tabs : /\ call'[u].op # "none" => call'[u].refresh = jar'[jarOf[u]]
                             /\ access'[u] # None => access'[u] = jar'[jarOf[u]]
  BY <1>2, <1>3, <1>7 DEF TakesIn, OthersKept, NoCall
<1>8. ASSUME NEW t \in Tabs, Loses(t)
      PROVE  \A u \in Tabs : /\ call'[u].op # "none" => call'[u].refresh = jar'[jarOf[u]]
                             /\ access'[u] # None => access'[u] = jar'[jarOf[u]]
  BY <1>2, <1>3, <1>8 DEF Loses, OthersKept, NoCall
<1>. QED
  BY <1>4, <1>5, <1>6, <1>7, <1>8, Kinds

\* What a tab holds was signed, and its sessions with it.
LEMMA HeldSigned ==
  ASSUME Inv
  PROVE  \A t \in Tabs : /\ Held(t) \subseteq 1 .. issued
                         /\ \A s \in Mine(t) : s \in 1 .. issued
<1>1. TypeOK /\ SignedInv
  BY DEF Inv
<1>2. \A t \in Tabs : Held(t) \subseteq 1 .. issued
  BY <1>1 DEF Held, SignedInv, TypeOK, Call, None
<1>3. \A n \in 1 .. issued : sidOf[n] \in 1 .. issued
  <2>1. ASSUME NEW n \in 1 .. issued PROVE sidOf[n] \in 1 .. issued
    <3>1. sidOf[n] \in 1 .. n /\ n \in Nat /\ issued \in Nat /\ n <= issued
      BY <1>1 DEF SignedInv, TypeOK
    <3>. QED
      BY <3>1
  <2>. QED
    BY <2>1
<1>. QED
  BY <1>2, <1>3 DEF Mine

\* Signing leaves the sessions of earlier issues alone.
LEMMA EarlierIssues ==
  ASSUME Inv, NEW t \in Tabs, NEW s, NEW list, Signs(t, s, list)
  PROVE  /\ \A n \in 1 .. issued : sidOf'[n] = sidOf[n]
         /\ sidOf'[issued'] = s
         /\ issued' \notin 1 .. issued /\ issued' # None
         /\ \A n \in 1 .. issued : n <= issued'
<1>1. issued \in Nat /\ issued' = issued + 1 /\ sidOf' = [sidOf EXCEPT ![issued + 1] = s]
  BY DEF Inv, TypeOK, Signs
<1>2. issued + 1 \in Issues /\ sidOf \in [Issues -> 0 .. MaxIssues]
  BY DEF Inv, TypeOK, Signs
<1>3. \A n \in 1 .. issued : n # issued + 1 /\ n \in Issues /\ n <= issued + 1
  BY <1>1, <1>2, SessionsAssumption DEF Issues
<1>. QED
  BY <1>1, <1>2, <1>3 DEF None

LEMMA OwnerStep ==
  ASSUME Inv, JarInv, OwnerInv, [Next]_vars
  PROVE  OwnerInv'
<1>1. UNCHANGED jarOf
  BY Kinds, PassesBy
  DEF Asks, Handles, SignsNew, SignsAgain, Signs, TakesIn, Loses
<1>. SUFFICES ASSUME AllOwnJars PROVE OwnerInv'
  BY <1>1 DEF OwnerInv, AllOwnJars, OwnJar
<1>2. /\ \A t, u \in Tabs : t # u => jarOf[t] # jarOf[u]
      /\ \A t \in Tabs : jarOf[t] \in Tabs
      /\ TypeOK /\ CallInv /\ SignedInv
  BY DEF AllOwnJars, OwnJar, Inv, TypeOK
<1>3. \A t \in Tabs : /\ call[t].op # "none" => call[t].refresh = jar[jarOf[t]]
                      /\ access[t] # None => access[t] = jar[jarOf[t]]
  BY DEF JarInv
<1>4. \A t \in Tabs : /\ Mine(t) \cap revoked = {}
                      /\ \A u \in Tabs \ {t} : Mine(t) \cap Mine(u) = {}
  BY DEF OwnerInv
<1>5. CASE /\ \A u \in Tabs : Mine(u)' \subseteq Mine(u)
           /\ revoked' = revoked
  BY <1>4, <1>5 DEF OwnerInv
<1>6. CASE Passes
  BY <1>1, <1>5, <1>6, PassesBy DEF Mine, Held
<1>7. ASSUME NEW t \in Tabs, Asks(t) PROVE OwnerInv'
  <2>1. \A u \in Tabs : Held(u)' \subseteq Held(u)
    BY <1>1, <1>7 DEF Asks, OthersKept, Held, None
  <2>. QED
    BY <1>5, <1>7, <2>1 DEF Asks, store, Mine
<1>8. ASSUME NEW t \in Tabs, Handles(t) PROVE OwnerInv'
  <2>1. \A u \in Tabs : Held(u)' \subseteq Held(u)
    BY <1>1, <1>8 DEF Handles, Continues, OthersKept, Held, client
  <2>. QED
    BY <1>5, <1>8, <2>1 DEF Handles, client, Mine
<1>9. ASSUME NEW t \in Tabs, NEW s, NEW list, Signs(t, s, list)
      PROVE  /\ Mine(t)' \subseteq Mine(t) \cup {s}
             /\ \A u \in Tabs \ {t} : Mine(u)' \subseteq Mine(u)
             /\ revoked' = revoked
  <2>1. /\ Held(t)' \subseteq Held(t) \cup {issued'}
        /\ \A u \in Tabs \ {t} : Held(u)' \subseteq Held(u)
    BY <1>1, <1>9 DEF Signs, OthersKept, Held, client
  <2>2. \A u \in Tabs : \A n \in Held(u) : sidOf'[n] = sidOf[n]
    BY <1>9, HeldSigned, EarlierIssues
  <2>3. sidOf'[issued'] = s
    BY <1>9, EarlierIssues
  <2>. QED
    BY <1>9, <2>1, <2>2, <2>3 DEF Signs, client, Mine
<1>10. ASSUME NEW t \in Tabs, SignsNew(t) PROVE OwnerInv'
  <2>. DEFINE s == issued + 1
  <2>1. Signs(t, s, PrunePersistedTokens(call[t].read))
    BY <1>10 DEF SignsNew
  <2>2. s \notin 1 .. issued /\ s \notin revoked
    BY <1>2 DEF SignedInv, TypeOK
  <2>3. \A u \in Tabs : s \notin Mine(u)
    BY <2>2, HeldSigned
  <2>. HIDE DEF s
  <2>4. /\ Mine(t)' \subseteq Mine(t) \cup {s}
        /\ \A u \in Tabs \ {t} : Mine(u)' \subseteq Mine(u)
        /\ revoked' = revoked
    BY <1>9, <2>1
  <2>. QED
    BY <1>4, <2>2, <2>3, <2>4 DEF OwnerInv
<1>11. ASSUME NEW t \in Tabs, SignsAgain(t) PROVE OwnerInv'
  <2>. DEFINE s == sidOf[call[t].refresh]
  <2>1. Signs(t, s, {x \in call[t].read : x.sid # s}) /\ call[t].refresh \in 1 .. issued
    BY <1>11 DEF SignsAgain
  <2>2. call[t].refresh = jar[jarOf[t]] /\ call[t].refresh # None
    BY <1>3, <1>11, <2>1 DEF SignsAgain, None
  <2>3. s \in Mine(t)
    BY <2>2 DEF Mine, Held
  <2>. HIDE DEF s
  <2>. QED
    BY <1>5, <1>9, <2>1, <2>3
<1>12. ASSUME NEW t \in Tabs, TakesIn(t) PROVE OwnerInv'
  <2>1. \A u \in Tabs : Held(u)' \subseteq Held(u)
    BY <1>1, <1>2, <1>12 DEF TakesIn, OthersKept, Held, NoCall
  <2>2. \A u \in Tabs : Mine(u)' \subseteq Mine(u)
    BY <1>12, <2>1 DEF TakesIn, store, Mine
  <2>3. CASE SignedOut(t) /\ revoked' = revoked \cup {sidOf[call[t].access]}
    <3>1. /\ call[t].op = "logout" /\ call[t].access = access[t] /\ access[t] # None
          /\ call[t].issue = None
      BY <1>2, <2>3 DEF SignedOut, CallInv
    <3>2. access[t] = jar[jarOf[t]] /\ jar'[jarOf[t]] = None /\ call'[t].issue = None
      BY <1>3, <1>12, <2>3, <3>1 DEF TakesIn, NoCall
    <3>3. sidOf[call[t].access] \in Mine(t) /\ Mine(t)' = {}
      BY <1>1, <3>1, <3>2 DEF Mine, Held
    <3>. QED
      BY <1>4, <2>2, <2>3, <3>3 DEF OwnerInv
  <2>. QED
    BY <1>5, <1>12, <2>2, <2>3 DEF TakesIn
<1>13. ASSUME NEW t \in Tabs, Loses(t) PROVE OwnerInv'
  <2>1. \A u \in Tabs : Held(u)' \subseteq Held(u)
    BY <1>1, <1>13 DEF Loses, OthersKept, Held, NoCall
  <2>. QED
    BY <1>5, <1>13, <2>1 DEF Loses, store, Mine
<1>. QED
  BY <1>6, <1>7, <1>8, <1>10, <1>11, <1>12, <1>13, Kinds

-----------------------------------------------------------------------------
(***************************************************************************)
(* What a signature adds: a session that is the tab's own, or new, and     *)
(* none of whose tokens is left in the list.                               *)
(***************************************************************************)
LEMMA SignsItsOwn ==
  ASSUME Inv, JarInv, OwnerInv, AllOwnJars, ~raced', NEW t \in Tabs,
         SignsNew(t) \/ SignsAgain(t)
  PROVE  \E s \in Issues : \E list \in SUBSET tokens :
           /\ Signs(t, s, list) /\ ~raced
           /\ \A x \in tokens : ~Over(x.kind, x.issue) /\ x.sid # s => x \in list
           /\ s \notin revoked /\ \A u \in Tabs \ {t} : s \notin Mine(u)
           /\ \A x \in list : x.sid # s
<1>1. TypeOK /\ SignedInv /\ ListInv
  BY DEF Inv
<1>2. CASE SignsNew(t)
  <2>. DEFINE s == issued + 1
              list == PrunePersistedTokens(call[t].read)
  <2>1. Signs(t, s, list) /\ s \in Issues
    BY <1>2 DEF SignsNew, Signs
  <2>2. ~raced /\ tokens = call[t].read /\ list \subseteq tokens
    BY <2>1, SignerWrites DEF PrunePersistedTokens
  <2>3. s \notin 1 .. issued /\ s \notin revoked
    BY <1>1 DEF SignedInv, TypeOK
  <2>4. \A u \in Tabs : s \notin Mine(u)
    BY <2>3, HeldSigned
  <2>5. \A x \in tokens : x.sid # s
    <3>1. \A x \in tokens : x.issue \in 1 .. issued /\ x.sid = sidOf[x.issue]
      BY <1>1, <2>2 DEF ListInv, TypeOK, Entry, Issues
    <3>2. \A n \in 1 .. issued : sidOf[n] # s
      BY <1>1 DEF SignedInv, TypeOK
    <3>. QED
      BY <3>1, <3>2
  <2>. HIDE DEF s
  <2>. QED
    BY <2>1, <2>2, <2>3, <2>4, <2>5 DEF PrunePersistedTokens
<1>3. CASE SignsAgain(t)
  <2>. DEFINE s == sidOf[call[t].refresh]
              list == {x \in call[t].read : x.sid # s}
  <2>1. Signs(t, s, list) /\ s \in Issues
    BY <1>3, SessionSigned DEF SignsAgain
  <2>2. ~raced /\ tokens = call[t].read /\ list \subseteq tokens
    BY <2>1, SignerWrites
  <2>3. call[t].refresh = jar[jarOf[t]] /\ call[t].refresh # None
    BY <1>1, <1>3 DEF SignsAgain, JarInv, None, TypeOK
  <2>4. s \in Mine(t)
    BY <2>3 DEF Mine, Held
  <2>. HIDE DEF s
  <2>. QED
    BY <2>1, <2>2, <2>4 DEF OwnerInv
<1>. QED
  BY <1>2, <1>3

\* A tab that knows its latest issue, or has just signed it out, holds it.
LEMMA KnownIsHeld ==
  ASSUME Inv, JarInv, AllOwnJars, NEW t \in Tabs, Knows(t) \/ SignedOut(t)
  PROVE  /\ Latest(t) \in Held(t) /\ sidOf[Latest(t)] \in Mine(t)
         /\ SignedOut(t) => Latest(t) = access[t] /\ Knows(t)
<1>1. SignedOut(t) => access[t] # None /\ call[t].issue = None
  BY DEF SignedOut, Inv, CallInv
<1>. QED
  BY <1>1 DEF Knows, Latest, Held, Mine, JarInv

LEMMA RevokedKept ==
  ASSUME Inv, RevokedInv, AllOwnJars, ~raced', Shrinks, UNCHANGED <<sidOf, jarOf>>,
         \A t \in Tabs : Knows(t)' => Knows(t) /\ Latest(t)' = Latest(t),
         \A t \in Tabs : SignedOut(t)' =>
           /\ Latest(t)' = Latest(t)
           /\ SignedOut(t) \/ \A x \in tokens' : x.sid # sidOf[Latest(t)],
         \A s \in revoked' \ revoked : \E t \in Tabs : SignedOut(t) /\ s = sidOf[Latest(t)]
  PROVE  RevokedInv'
<1>1. ~raced /\ tokens' \subseteq tokens
  BY DEF Shrinks
<1>2. /\ \A t \in Tabs, x \in tokens :
           /\ Knows(t) /\ x.sid = sidOf[Latest(t)] => x.issue = Latest(t)
           /\ SignedOut(t) => x.sid # sidOf[Latest(t)]
      /\ \A x \in tokens : x.sid \notin revoked
  BY <1>1 DEF RevokedInv, Sids
<1>3. ASSUME NEW t \in Tabs, NEW x \in tokens'
      PROVE  /\ Knows(t)' /\ x.sid = sidOf[Latest(t)'] => x.issue = Latest(t)'
             /\ SignedOut(t)' => x.sid # sidOf[Latest(t)']
  BY <1>1, <1>2
<1>4. \A x \in tokens' : x.sid \notin revoked'
  BY <1>1, <1>2
<1>. QED
  BY <1>3, <1>4 DEF RevokedInv, Sids

LEMMA RevokedStep ==
  ASSUME Inv, JarInv, OwnerInv, RevokedInv, [Next]_vars
  PROVE  RevokedInv'
<1>1. UNCHANGED jarOf
  BY Kinds, PassesBy
  DEF Asks, Handles, SignsNew, SignsAgain, Signs, TakesIn, Loses
<1>. SUFFICES ASSUME AllOwnJars, ~raced' PROVE RevokedInv'
  BY <1>1 DEF RevokedInv, AllOwnJars, OwnJar
<1>2. /\ \A t, u \in Tabs : t # u => jarOf[t] # jarOf[u]
      /\ \A t \in Tabs : jarOf[t] \in Tabs
      /\ TypeOK /\ CallInv
  BY DEF AllOwnJars, OwnJar, Inv, TypeOK
<1>3. \A t \in Tabs : access[t] # None => access[t] = jar[jarOf[t]]
  BY DEF JarInv
<1>. DEFINE Same(t) == /\ Knows(t)' => Knows(t) /\ Latest(t)' = Latest(t)
                       /\ SignedOut(t)' => SignedOut(t) /\ Latest(t)' = Latest(t)
<1>4. CASE Passes
  <2>1. Shrinks
    <3>1. CASE UNCHANGED <<tokens, raced>>
      BY <1>2, <3>1 DEF Shrinks, TypeOK
    <3>. QED
      BY <1>4, <3>1, GuardShrinks DEF Passes, Expire, vars, store
  <2>2. \A t \in Tabs : Same(t)
    BY <1>4, PassesBy DEF Knows, Latest, SignedOut, Answered
  <2>. QED
    BY <1>1, <1>4, <2>1, <2>2, PassesBy, RevokedKept
<1>5. ASSUME NEW t \in Tabs, Asks(t) PROVE RevokedInv'
  <2>1. Shrinks /\ UNCHANGED <<sidOf, revoked>>
    BY <1>2, <1>5 DEF Asks, store, Shrinks, TypeOK
  <2>2. \A u \in Tabs : Same(u)
    BY <1>1, <1>5 DEF Asks, OthersKept, Knows, Latest, SignedOut, Answered, NoCall
  <2>. QED
    BY <1>1, <2>1, <2>2, RevokedKept
<1>6. ASSUME NEW t \in Tabs, Serves(t), Handles(t) PROVE RevokedInv'
  <2>1. Shrinks /\ UNCHANGED <<sidOf, revoked>> /\ ~raced
    BY <1>6, HandlerShrinks DEF Serves, Handles, client, Shrinks
  <2>2. \A u \in Tabs \ {t} : Same(u)
    BY <1>1, <1>6
    DEF Handles, Continues, OthersKept, Knows, Latest, SignedOut, Answered, client
  <2>3. /\ Knows(t)' = Knows(t) /\ Latest(t)' = Latest(t)
        /\ SignedOut(t)' => WriteLogout(t)
    BY <1>1, <1>6 DEF Handles, Continues, Knows, Latest, SignedOut, client
  <2>4. ASSUME WriteLogout(t), NEW x \in tokens' PROVE x.sid # sidOf[Latest(t)]
    <3>. DEFINE list == PrunePersistedTokens(call[t].read)
                Presented(y) == \/ y.kind = "access" /\ y.issue = call[t].access
                                \/ y.kind = "refresh" /\ y.issue = call[t].refresh
                keys == {y.sid : y \in {z \in list : Presented(z)}}
    <3>1. tokens' = {y \in list : y.sid \notin keys} /\ call[t].op = "logout"
      BY <2>4 DEF WriteLogout, WriteTokens
    <3>2. /\ access[t] # None /\ call[t].access = access[t] /\ call[t].issue = None
          /\ call[t].refresh = jar[jarOf[t]]
      BY <1>2, <3>1 DEF CallInv, JarInv
    <3>3. Knows(t) /\ Latest(t) = call[t].access /\ Latest(t) = call[t].refresh
      BY <1>3, <3>2 DEF Knows, Latest
    <3>4. x \in tokens /\ x \in list /\ x.sid \notin keys /\ x.kind \in {"access", "refresh"}
      BY <1>2, <2>1, <3>1 DEF Shrinks, TypeOK, Entry
    <3>5. ~Presented(x)
      BY <3>4
    <3>. QED
      BY <2>1, <3>3, <3>4, <3>5 DEF RevokedInv
  <2>. QED
    BY <1>1, <2>1, <2>2, <2>3, <2>4, RevokedKept
<1>7. ASSUME NEW t \in Tabs, SignsNew(t) \/ SignsAgain(t) PROVE RevokedInv'
  <2>1. PICK s \in Issues, list \in SUBSET tokens :
          /\ Signs(t, s, list) /\ ~raced
          /\ s \notin revoked /\ \A u \in Tabs \ {t} : s \notin Mine(u)
          /\ \A x \in list : x.sid # s
    BY <1>7, SignsItsOwn
  <2>2. tokens' \subseteq list \cup Pair(s, issued')
    BY <2>1, SignerWrites
  <2>3. \A x \in Pair(s, issued') : x.sid = s /\ x.issue = issued'
    BY DEF Pair
  <2>4. /\ \A n \in 1 .. issued : sidOf'[n] = sidOf[n]
        /\ sidOf'[issued'] = s /\ issued' # None
    BY <2>1, EarlierIssues
  <2>5. Latest(t)' = issued' /\ ~SignedOut(t)' /\ revoked' = revoked
    BY <2>1, <2>4 DEF Signs, Latest, SignedOut, client
  <2>6. ASSUME NEW u \in Tabs \ {t}
        PROVE  /\ Knows(u)' => Knows(u) /\ Latest(u)' = Latest(u)
               /\ SignedOut(u)' => SignedOut(u) /\ Latest(u)' = Latest(u)
    BY <1>1, <2>1 DEF Signs, OthersKept, Knows, Latest, SignedOut, Answered, client
  <2>7. ASSUME NEW u \in Tabs \ {t}, NEW x \in tokens', Knows(u)' \/ SignedOut(u)'
        PROVE  /\ Knows(u)' /\ x.sid = sidOf'[Latest(u)'] => x.issue = Latest(u)'
               /\ SignedOut(u)' => x.sid # sidOf'[Latest(u)']
    <3>1. /\ Latest(u) \in Held(u) /\ sidOf[Latest(u)] \in Mine(u)
          /\ Knows(u) \/ SignedOut(u)
      BY <2>6, <2>7, KnownIsHeld
    <3>2. sidOf'[Latest(u)'] = sidOf[Latest(u)]
      BY <2>4, <2>6, <2>7, <3>1, HeldSigned
    <3>3. x \in list \/ x.sid # sidOf[Latest(u)]
      BY <2>1, <2>2, <2>3, <3>1
    <3>. QED
      BY <2>1, <2>6, <3>2, <3>3 DEF RevokedInv
  <2>8. ASSUME NEW x \in tokens', x.sid = sidOf'[Latest(t)'] PROVE x.issue = Latest(t)'
    BY <2>1, <2>2, <2>3, <2>4, <2>5, <2>8
  <2>9. \A x \in tokens' : x.sid \notin revoked'
    BY <2>1, <2>2, <2>3, <2>5 DEF RevokedInv, Sids
  <2>. QED
    BY <2>5, <2>7, <2>8, <2>9 DEF RevokedInv, Sids
<1>8. ASSUME NEW t \in Tabs, TakesIn(t) PROVE RevokedInv'
  <2>1. Shrinks /\ UNCHANGED sidOf
    BY <1>2, <1>8 DEF TakesIn, store, Shrinks, TypeOK
  <2>2. \A u \in Tabs \ {t} : Same(u)
    BY <1>1, <1>2, <1>8 DEF TakesIn, OthersKept, Knows, Latest, SignedOut, Answered
  <2>3. call'[t].issue = None /\ ~SignedOut(t)'
    BY <1>8 DEF TakesIn, SignedOut, Answered, NoCall
  <2>4. Knows(t)' => Knows(t) /\ Latest(t)' = Latest(t)
    BY <1>1, <1>3, <1>8, <2>3 DEF TakesIn, Knows, Latest
  <2>5. ASSUME SignedOut(t) PROVE call[t].access = Latest(t)
    BY <1>2, <2>5, KnownIsHeld DEF SignedOut, CallInv
  <2>6. \A s \in revoked' \ revoked : \E u \in Tabs : SignedOut(u) /\ s = sidOf[Latest(u)]
    BY <1>8, <2>5 DEF TakesIn
  <2>. QED
    BY <1>1, <2>1, <2>2, <2>3, <2>4, <2>6, RevokedKept
<1>9. ASSUME NEW t \in Tabs, Loses(t) PROVE RevokedInv'
  <2>1. Shrinks /\ UNCHANGED <<sidOf, revoked>>
    BY <1>2, <1>9 DEF Loses, store, Shrinks, TypeOK
  <2>2. \A u \in Tabs \ {t} : Same(u)
    BY <1>1, <1>9 DEF Loses, OthersKept, Knows, Latest, SignedOut, Answered
  <2>3. call'[t].issue = None /\ ~SignedOut(t)'
    BY <1>9 DEF Loses, SignedOut, Answered, NoCall
  <2>4. call[t].issue # None => access'[t] = None
    BY <1>2, <1>9 DEF Loses, CallInv
  <2>5. Same(t)
    BY <1>1, <1>9, <2>3, <2>4 DEF Loses, Knows, Latest
  <2>. QED
    BY <1>1, <2>1, <2>2, <2>5, RevokedKept
<1>. QED
  BY <1>4, <1>5, <1>6, <1>7, <1>8, <1>9, Kinds

-----------------------------------------------------------------------------
(***************************************************************************)
(* mergePersistedSessionTokens: a token is kept unless MaxSessions other   *)
(* sessions have a token that was signed after it.                         *)
(***************************************************************************)
LEMMA NewestExists ==
  ASSUME NEW S, S \subseteq Issues, S # {}
  PROVE  \E n \in S : \A m \in S : m <= n
<1>. DEFINE R == {ss \in Nat \X Nat : ss[1] < ss[2]}
            T == {MaxIssues - n : n \in S}
<1>1. IsWellFoundedOn(R, Nat)
  BY NatLessThanWellFounded DEF OpToRel
<1>2. \A m, n \in Nat : m < n => <<m, n>> \in R
  OBVIOUS
<1>3. \A n \in S : n \in Nat /\ MaxIssues - n \in Nat
  BY SessionsAssumption DEF Issues
<1>4. T \subseteq Nat /\ T # {}
  BY <1>3
<1>. HIDE DEF R, T
<1>5. PICK d \in T : \A e \in T : ~ (<<e, d>> \in R)
  BY <1>1, <1>4, WFMin
<1>6. PICK n \in S : d = MaxIssues - n
  BY DEF T
<1>7. ASSUME NEW m \in S PROVE m <= n
  <2>1. MaxIssues - m \in T /\ MaxIssues - m \in Nat /\ d \in Nat
    BY <1>3, <1>4 DEF T
  <2>2. ~ (MaxIssues - m < d)
    BY <1>2, <1>5, <2>1
  <2>. QED
    BY <1>3, <1>6, <2>2, SessionsAssumption
<1>. QED
  BY <1>7

LEMMA NewestOf ==
  ASSUME NEW list, list \subseteq Entry, NEW s \in Sids(list)
  PROVE  /\ \E x \in list : x.sid = s /\ x.issue = NewestIssue(list, s)
         /\ \A x \in list : x.sid = s => x.issue <= NewestIssue(list, s)
<1>. DEFINE S == {x.issue : x \in {y \in list : y.sid = s}}
            Top(n) == \A x \in list : x.sid = s => x.issue <= n
<1>1. S \subseteq Issues /\ S # {}
  BY DEF Entry, Sids
<1>2. \E n \in S : \A m \in S : m <= n
  BY <1>1, NewestExists
<1>3. \E n \in S : Top(n)
  BY <1>2
<1>4. NewestIssue(list, s) = CHOOSE n \in S : Top(n)
  BY DEF NewestIssue
<1>5. NewestIssue(list, s) \in S /\ Top(NewestIssue(list, s))
  <2>. HIDE DEF S, Top
  <2>. QED
    BY <1>3, <1>4, Zenon
<1>. QED
  BY <1>5

LEMMA MergeKeeps ==
  ASSUME NEW list, NEW added, list \cup added \subseteq Entry, NEW x \in list \cup added,
         NEW W, IsFiniteSet(W), Cardinality(W) < MaxSessions,
         \A y \in list \cup added : y.issue > x.issue /\ y.sid # x.sid => y.sid \in W
  PROVE  x \in MergePersistedSessionTokens(list, added)
<1>. DEFINE all == list \cup added
            S == {s \in Sids(all) : NewestIssue(all, s) > NewestIssue(all, x.sid)}
<1>1. x.sid \in Sids(all) /\ \A y \in all : y.issue \in Nat
  BY SessionsAssumption DEF Sids, Entry, Issues
<1>2. x.issue <= NewestIssue(all, x.sid) /\ NewestIssue(all, x.sid) \in Nat
  BY <1>1, NewestOf
<1>3. ASSUME NEW s \in S PROVE s \in W
  <2>1. PICK y \in all : y.sid = s /\ y.issue = NewestIssue(all, s)
    BY NewestOf
  <2>2. y.issue > NewestIssue(all, x.sid) /\ y.issue \in Nat /\ x.issue \in Nat
    BY <1>1, <2>1
  <2>3. y.issue > x.issue /\ s # x.sid
    BY <1>2, <2>1, <2>2
  <2>. QED
    BY <2>1, <2>3
<1>4. S \subseteq W
  BY <1>3
<1>5. Cardinality(S) <= Cardinality(W) /\ Cardinality(S) \in Nat /\ Cardinality(W) \in Nat
  BY <1>4, FS_Subset, FS_CardinalityType
<1>6. Cardinality(S) < MaxSessions
  BY <1>5, SessionsAssumption
<1>. QED
  BY <1>6 DEF MergePersistedSessionTokens

LEMMA NewerFinite ==
  ASSUME TypeOK, NEW n
  PROVE  IsFiniteSet(Newer(n)) /\ Cardinality(Newer(n)) \in Nat
<1>1. Newer(n) \in SUBSET (0 .. MaxIssues)
  BY SessionsAssumption DEF Newer, TypeOK, Issues
<1>2. IsFiniteSet(0 .. MaxIssues)
  BY FS_Interval, SessionsAssumption
<1>. QED
  BY <1>1, <1>2, FS_Subset, FS_CardinalityType

\* A sign-out takes tokens of the session that its tab holds.
LEMMA TakesItsOwn ==
  ASSUME Inv, JarInv, AllOwnJars, ~raced, NEW t \in Tabs, NEW x \in tokens, Takes(t, x)
  PROVE  x.sid \in Mine(t)
<1>1. PICK y \in tokens : y.sid = x.sid /\ y.issue \in {call[t].access, call[t].refresh}
  BY DEF Takes
<1>2. y.sid = sidOf[y.issue] /\ y.issue # None
  BY SessionsAssumption DEF Inv, ListInv, TypeOK, Entry, Issues, None
<1>3. /\ call[t].op = "logout" /\ call[t].access = access[t] /\ access[t] # None
      /\ call[t].refresh = jar[jarOf[t]] /\ access[t] = jar[jarOf[t]]
  BY DEF Takes, WriteLogout, Inv, CallInv, JarInv
<1>. QED
  BY <1>1, <1>2, <1>3 DEF Mine, Held

LEMMA StoredKept ==
  ASSUME Inv, JarInv, OwnerInv, StoredInv, AllOwnJars, ~raced', ~raced,
         UNCHANGED <<sidOf, jarOf, issued>>, lost \subseteq lost',
         \A n \in Issues : Over("refresh", n) => Over("refresh", n)',
         \A t \in Tabs : jarOf[t] \notin lost' /\ Latest(t)' # None /\ ~SignedOut(t)' =>
                           Latest(t)' = Latest(t) /\ ~SignedOut(t),
         \A x \in tokens : ~Over(x.kind, x.issue)' =>
           x \in tokens' \/ \E t \in Tabs : Takes(t, x) /\ SignedOut(t)'
  PROVE  StoredInv'
<1>1. SUFFICES ASSUME NEW t \in Tabs, Latest(t)' # None, ~SignedOut(t)',
                      jarOf[t] \notin lost', ~Over("refresh", Latest(t))',
                      Cardinality(Newer(Latest(t)))' < MaxSessions
               PROVE  Stored(tokens, "refresh", Latest(t))'
  BY DEF StoredInv
<1>. DEFINE n == Latest(t)
<1>2. Latest(t)' = n /\ ~SignedOut(t) /\ jarOf[t] \notin lost /\ n # None
  BY <1>1
<1>3. n \in Held(t)
  BY <1>2 DEF Latest, Held
<1>4. n \in Issues
  BY <1>3, HeldSigned, SessionsAssumption DEF Inv, TypeOK, Issues
<1>5. ~Over("refresh", n) /\ ~(n <= expired'["refresh"])
  BY <1>1, <1>2, <1>4 DEF Over
<1>6. Cardinality(Newer(n)) < MaxSessions
  <2>1. Newer(Latest(t))' = Newer(n)
    BY <1>2 DEF Newer
  <2>. QED
    BY <1>1, <2>1
<1>7. PICK x \in tokens : x.kind = "refresh" /\ x.issue = n
  BY <1>2, <1>5, <1>6 DEF StoredInv, Stored
<1>8. x.sid \in Mine(t)
  BY <1>3, <1>7 DEF Inv, ListInv, Mine
<1>9. \A u \in Tabs : Takes(u, x) /\ SignedOut(u)' => FALSE
  BY <1>1, <1>8, TakesItsOwn DEF OwnerInv
<1>10. x \in tokens'
  BY <1>5, <1>7, <1>9 DEF Over
<1>. QED
  BY <1>2, <1>7, <1>10 DEF Stored

LEMMA StoredSigned ==
  ASSUME Inv, Inv', JarInv, OwnerInv, StoredInv, AllOwnJars, UNCHANGED jarOf, ~raced',
         NEW t \in Tabs, SignsNew(t) \/ SignsAgain(t)
  PROVE  StoredInv'
<1>1. PICK s \in Issues, list \in SUBSET tokens :
        /\ Signs(t, s, list) /\ ~raced
        /\ \A x \in tokens : ~Over(x.kind, x.issue) /\ x.sid # s => x \in list
        /\ s \notin revoked /\ \A u \in Tabs \ {t} : s \notin Mine(u)
        /\ \A x \in list : x.sid # s
  BY SignsItsOwn
<1>. DEFINE pair == Pair(s, issued')
<1>2. /\ tokens' = MergePersistedSessionTokens(list, pair)
      /\ list \cup pair \subseteq Entry /\ pair \subseteq Entry
  BY <1>1, SignerWrites DEF Inv, TypeOK
<1>3. \A x \in pair : x.sid = s /\ x.issue = issued'
  BY DEF Pair
<1>4. /\ \A n \in 1 .. issued : sidOf'[n] = sidOf[n] /\ n <= issued'
      /\ sidOf'[issued'] = s /\ issued' # None
  BY <1>1, EarlierIssues
<1>5. /\ issued' = issued + 1 /\ issued \in Nat
      /\ \A x \in list : x.issue \in 1 .. issued /\ x.sid = sidOf[x.issue]
  BY <1>1 DEF Signs, Inv, TypeOK, ListInv, Entry, Issues
<1>6. \A y \in list \cup pair : y.issue \in 1 .. issued' /\ y.sid = sidOf'[y.issue]
  BY <1>3, <1>4, <1>5
<1>. HIDE DEF pair
<1>7. SUFFICES ASSUME NEW u \in Tabs, Latest(u)' # None, ~SignedOut(u)',
                      jarOf[u] \notin lost', ~Over("refresh", Latest(u))',
                      Cardinality(Newer(Latest(u)))' < MaxSessions
               PROVE  Stored(tokens, "refresh", Latest(u))'
  BY DEF StoredInv
<1>8. CASE u = t
  <2>1. Latest(t)' = issued'
    BY <1>1, <1>4 DEF Signs, Latest
  <2>. DEFINE x == [sid |-> s, issue |-> issued', kind |-> "refresh"]
  <2>2. x \in pair
    BY DEF Pair, pair
  <2>3. \A y \in list \cup pair : ~(y.issue > x.issue)
    BY <1>5, <1>6
  <2>4. IsFiniteSet({}) /\ Cardinality({}) < MaxSessions
    BY FS_EmptySet, SessionsAssumption
  <2>5. x \in tokens'
    <3>1. x \in list \cup pair
      BY <2>2
    <3>. HIDE DEF x
    <3>2. \A y \in list \cup pair : y.issue > x.issue /\ y.sid # x.sid => y.sid \in {}
      BY <2>3
    <3>. QED
      BY <1>2, <2>4, <3>1, <3>2, MergeKeeps
  <2>. QED
    BY <1>8, <2>1, <2>5 DEF Stored
<1>9. CASE u # t
  <2>. DEFINE n == Latest(u)
  <2>1. /\ Latest(u)' = n /\ ~SignedOut(u) /\ jarOf[u] \notin lost /\ n # None
        /\ UNCHANGED expired
    BY <1>1, <1>7, <1>9 DEF Signs, OthersKept, Latest, SignedOut, Answered, client
  <2>2. n \in Held(u) /\ n \in 1 .. issued /\ sidOf[n] \in Mine(u)
    <3>1. n \in Held(u)
      BY <2>1 DEF Latest, Held
    <3>. QED
      BY <3>1, HeldSigned DEF Mine
  <2>3. ~Over("refresh", n)
    BY <1>7, <2>1 DEF Over
  <2>. DEFINE W == Newer(Latest(u))'
  <2>4. W = {sidOf'[m] : m \in {k \in 1 .. issued' : k > n}} \ {sidOf'[n]}
    BY <2>1 DEF Newer
  <2>5. IsFiniteSet(W) /\ Cardinality(W) \in Nat /\ Cardinality(W) < MaxSessions
    <3>1. IsFiniteSet({sidOf'[m] : m \in {k \in 1 .. issued' : k > n}} \ {sidOf'[n]})
      <4>1. {sidOf'[m] : m \in {k \in 1 .. issued' : k > n}} \ {sidOf'[n]}
              \in SUBSET (0 .. MaxIssues)
        BY SessionsAssumption DEF Inv, TypeOK, Issues
      <4>2. IsFiniteSet(0 .. MaxIssues)
        BY FS_Interval, SessionsAssumption
      <4>. QED
        BY <4>1, <4>2, FS_Subset
    <3>. QED
      BY <1>7, <2>4, <3>1, FS_CardinalityType
  <2>. HIDE DEF W
  <2>6. Newer(n) \in SUBSET W
    BY <1>4, <1>5, <2>2, <2>4 DEF Newer
  <2>7. Cardinality(Newer(n)) < MaxSessions
    <3>1. Cardinality(Newer(n)) <= Cardinality(W)
      BY <2>5, <2>6, FS_Subset
    <3>2. Cardinality(Newer(n)) \in Nat
      BY NewerFinite DEF Inv
    <3>. QED
      BY <2>5, <3>1, <3>2, SessionsAssumption
  <2>8. PICK x \in tokens : x.kind = "refresh" /\ x.issue = n
    BY <1>1, <2>1, <2>3, <2>7 DEF StoredInv, Stored
  <2>9. x.sid = sidOf[n] /\ x.sid # s
    BY <1>1, <1>9, <2>2, <2>8 DEF Inv, ListInv
  <2>10. x \in list
    BY <1>1, <2>3, <2>8, <2>9
  <2>11. \A y \in list \cup pair : y.issue > x.issue /\ y.sid # x.sid => y.sid \in W
    BY <1>4, <1>6, <2>2, <2>4, <2>8, <2>9
  <2>12. x \in tokens'
    BY <1>2, <2>5, <2>10, <2>11, MergeKeeps
  <2>. QED
    BY <2>1, <2>8, <2>12 DEF Stored
<1>. QED
  BY <1>8, <1>9

LEMMA StoredStep ==
  ASSUME Inv, Inv', JarInv, OwnerInv, StoredInv, [Next]_vars
  PROVE  StoredInv'
<1>1. UNCHANGED jarOf
  BY Kinds, PassesBy
  DEF Asks, Handles, SignsNew, SignsAgain, Signs, TakesIn, Loses
<1>. SUFFICES ASSUME AllOwnJars, ~raced' PROVE StoredInv'
  BY <1>1 DEF StoredInv, AllOwnJars, OwnJar
<1>2. /\ \A t, u \in Tabs : t # u => jarOf[t] # jarOf[u]
      /\ \A t \in Tabs : jarOf[t] \in Tabs
      /\ TypeOK /\ CallInv
  BY DEF AllOwnJars, OwnJar, Inv, TypeOK
<1>. DEFINE Same(t) == /\ Latest(t)' = Latest(t) \/ Latest(t)' = None
                       /\ SignedOut(t) => SignedOut(t)' \/ Latest(t)' = None
<1>3. CASE Passes
  <2>1. ~raced /\ \A x \in tokens : ~Over(x.kind, x.issue)' => x \in tokens'
    BY <1>3, GuardShrinks DEF Passes, GuardPrunes, Expire, vars, store, Shrinks, Over
  <2>2. \A n \in Issues : Over("refresh", n) => Over("refresh", n)'
    <3>1. CASE \E kind \in {"access", "refresh"} : Expire(kind)
      BY <1>2, <3>1, SessionsAssumption DEF Expire, Over, TypeOK, Issues
    <3>. QED
      BY <1>3, <3>1 DEF Passes, GuardPrunes, vars, store, Over
  <2>3. \A t \in Tabs : Latest(t)' = Latest(t) /\ SignedOut(t)' = SignedOut(t)
    BY <1>3, PassesBy DEF Latest, SignedOut, Answered
  <2>. QED
    BY <1>1, <1>3, <2>1, <2>2, <2>3, PassesBy, StoredKept
<1>4. ASSUME NEW t \in Tabs, Asks(t) PROVE StoredInv'
  <2>1. \A u \in Tabs : Latest(u)' = Latest(u) /\ (SignedOut(u) => SignedOut(u)')
    BY <1>1, <1>4 DEF Asks, OthersKept, Latest, SignedOut, Answered, NoCall
  <2>. QED
    BY <1>1, <1>4, <2>1, StoredKept DEF Asks, store, Over
<1>5. ASSUME NEW t \in Tabs, Serves(t), Handles(t) PROVE StoredInv'
  <2>1. ~raced /\ \A x \in tokens : ~Over(x.kind, x.issue) => x \in tokens' \/ Takes(t, x)
    BY <1>5, HandlerShrinks DEF Serves, Shrinks
  <2>2. WriteLogout(t) => SignedOut(t)'
    BY <1>2, Answering DEF WriteLogout, SignedOut, Answered, Continues, TypeOK
  <2>3. \A u \in Tabs : Latest(u)' = Latest(u)
    BY <1>1, <1>5 DEF Handles, Continues, OthersKept, Latest, client
  <2>4. \A u \in Tabs : SignedOut(u) => SignedOut(u)'
    BY <1>5 DEF Handles, Continues, OthersKept, SignedOut, Answered
  <2>5. UNCHANGED <<sidOf, issued, lost, expired>>
    BY <1>5 DEF Handles
  <2>6. \A x \in tokens : ~Over(x.kind, x.issue)' =>
          x \in tokens' \/ \E u \in Tabs : Takes(u, x) /\ SignedOut(u)'
    BY <2>1, <2>2, <2>5 DEF Over, Takes
  <2>. QED
    BY <1>1, <2>1, <2>3, <2>4, <2>5, <2>6, StoredKept DEF Over
<1>6. ASSUME NEW t \in Tabs, TakesIn(t) PROVE StoredInv'
  <2>1. \A u \in Tabs \ {t} : Latest(u)' = Latest(u) /\ (SignedOut(u) => SignedOut(u)')
    BY <1>1, <1>2, <1>6 DEF TakesIn, OthersKept, Latest, SignedOut, Answered
  <2>2. call'[t].issue = None /\ Latest(t)' = jar'[jarOf[t]]
    BY <1>1, <1>6 DEF TakesIn, NoCall, Latest
  <2>3. /\ Latest(t)' # None => Latest(t)' = Latest(t)
        /\ SignedOut(t) => Latest(t)' = None
    BY <1>6, <2>2 DEF TakesIn, Latest
  <2>. QED
    BY <1>1, <1>6, <2>1, <2>3, StoredKept DEF TakesIn, store, Over
<1>7. ASSUME NEW t \in Tabs, Loses(t) PROVE StoredInv'
  <2>1. \A u \in Tabs \ {t} : Latest(u)' = Latest(u) /\ (SignedOut(u) => SignedOut(u)')
    BY <1>1, <1>7 DEF Loses, OthersKept, Latest, SignedOut, Answered
  <2>. QED
    BY <1>1, <1>7, <2>1, StoredKept DEF Loses, store, Over
<1>8. ASSUME NEW t \in Tabs, SignsNew(t) \/ SignsAgain(t) PROVE StoredInv'
  BY <1>1, <1>8, StoredSigned
<1>. QED
  BY <1>3, <1>4, <1>5, <1>6, <1>7, <1>8, Kinds

-----------------------------------------------------------------------------
(***************************************************************************)
(* Tabs share one browser or none.                                         *)
(***************************************************************************)
SharedOrNot == jarOf \in {[t \in Tabs |-> t], [t \in Tabs |-> CHOOSE b \in Tabs : TRUE]}

SessionsInv == JarInv /\ OwnerInv /\ RevokedInv /\ StoredInv /\ SharedOrNot

LEMMA SessionsInvariance == Spec => [](Inv /\ SessionsInv)
<1>1. Init => SessionsInv
  <2>. SUFFICES ASSUME Init PROVE SessionsInv
    OBVIOUS
  <2>1. \A t \in Tabs : call[t] = NoCall /\ access[t] = None /\ jarOf[t] \in Tabs
    BY DEF Init
  <2>2. \A t \in Tabs : jar[jarOf[t]] = None /\ call[t].op = "none" /\ call[t].issue = None
    BY <2>1 DEF Init, NoCall
  <2>3. \A t \in Tabs : Mine(t) = {} /\ Latest(t) = None
    BY <2>2 DEF Mine, Held, Latest
  <2>. QED
    BY <2>1, <2>2, <2>3
    DEF Init, SessionsInv, JarInv, OwnerInv, RevokedInv, StoredInv, SharedOrNot, Sids
<1>2. Inv /\ Inv' /\ SessionsInv /\ [Next]_vars => SessionsInv'
  <2>. SUFFICES ASSUME Inv, Inv', SessionsInv, [Next]_vars PROVE SessionsInv'
    OBVIOUS
  <2>1. UNCHANGED jarOf
    BY Kinds, PassesBy DEF Asks, Handles, SignsNew, SignsAgain, Signs, TakesIn, Loses
  <2>. QED
    BY <2>1, JarStep, OwnerStep, RevokedStep, StoredStep DEF SessionsInv, SharedOrNot
<1>. QED
  BY <1>1, <1>2, Invariance, PTL DEF Spec

(***************************************************************************)
(* RevokedStaysRevoked, however many tabs sign in and out, refresh, and    *)
(* expire: as only its tab can sign for a session, and a sign-out presents *)
(* the tokens of its latest issue, nothing of it is left or comes back.    *)
(***************************************************************************)
THEOREM SignedOutForGood == Spec => []RevokedStaysRevoked
<1>1. SessionsInv => RevokedStaysRevoked
  BY DEF SessionsInv, RevokedInv, RevokedStaysRevoked, AllOwnJars
<1>. QED
  BY <1>1, SessionsInvariance, PTL

(***************************************************************************)
(* CookieStaysGood for any cap on sessions: what the merge keeps, and what *)
(* every other write of the list leaves, includes a cookie's token until   *)
(* MaxSessions other sessions are newer.                                   *)
(***************************************************************************)
THEOREM CookieIsGood == Spec => []CookieStaysGood
<1>1. Inv /\ SessionsInv => CookieStaysGood
  <2>1. SUFFICES ASSUME Inv, SessionsInv, NEW t \in Tabs, jar[t] # None, OwnJar(t),
                        jarOf[t] = t, Idle(t), ~raced, t \notin lost,
                        ~Over("refresh", jar[t]), Cardinality(Newer(jar[t])) < MaxSessions
                 PROVE  Stored(tokens, "refresh", jar[t])
    BY DEF CookieStaysGood, Newer
  <2>2. AllOwnJars
    BY <2>1 DEF AllOwnJars, OwnJar, SessionsInv, SharedOrNot
  <2>3. call[t] = NoCall
    BY <2>1 DEF Idle, Inv, CallInv
  <2>4. Latest(t) = jar[t] /\ ~SignedOut(t)
    BY <2>1, <2>3 DEF Latest, SignedOut, NoCall
  <2>. QED
    BY <2>1, <2>2, <2>4 DEF SessionsInv, StoredInv
<1>. QED
  BY <1>1, SessionsInvariance, PTL
=============================================================================
