----------------------------- MODULE RateLimiter ------------------------------
(***************************************************************************)
(* A rate limiter of the service (src/middlewares/rateLimit.js): a window  *)
(* per user or address that begins with its first request, of which at     *)
(* most Limit are let through; now and then the windows that have ended are  *)
(* removed.  A request is judged without a pause, so requests of one       *)
(* process do not interleave within it.                                    *)
(***************************************************************************)
EXTENDS Integers, FiniteSetsExt

CONSTANTS
  Keys,      \* users or addresses, each with the scope of the limiter
  Window, Limit, Cleanup,
  Second,    \* ticks of a second
  MaxTime,   \* bound: ticks of the clock
  MaxRequests \* bound: requests

VARIABLES
  now,
  store,     \* the windows that are kept, by key
  cleanedAt,
  passed,    \* how many requests of a key were let through at each tick
  retryAt,   \* when a key whose last request was refused may come back, or 0
  requests,
  unjust     \* a key was refused though it had waited, or had no full window

vars == <<now, store, cleanedAt, passed, retryAt, requests, unjust>>

Times == 0 .. MaxTime
NoEntry == [count |-> 0, resetAt |-> 0]

\* A window of which the last moment were counted to it.
EndedLater(entry, t) == entry.resetAt < t

\* A window that has ended at time t is as good as none.
Ended(entry, t) == entry.resetAt =< t

\* formatRetryAfterSeconds, in ticks
RetryAfter(ticks) ==
  LET seconds == (ticks + Second - 1) \div Second
  IN Second * (IF seconds < 1 THEN 1 ELSE seconds)

Cleaned(s) == IF now - cleanedAt >= Cleanup
              THEN [k \in Keys |-> IF Ended(s[k], now) THEN NoEntry ELSE s[k]] ELSE s

\* The window if every request prolonged it.
CountedSliding(entry) ==
  IF Ended(entry, now) THEN [count |-> 1, resetAt |-> now + Window]
  ELSE [count |-> entry.count + 1, resetAt |-> now + Window]

\* The window a request falls in, as it is after the request.
Counted(entry) ==
  IF Ended(entry, now) THEN [count |-> 1, resetAt |-> now + Window]
  ELSE [entry EXCEPT !.count = @ + 1]

\* How many of a key were let through in the window before time t.
PassedIn(k, from, to) == MapThenSumSet(LAMBDA t : passed[k][t], {t \in Times : from =< t /\ t < to})

Request(k) ==
  LET kept == Cleaned(store)
      entry == Counted(kept[k])
  IN /\ requests < MaxRequests
     /\ requests' = requests + 1
     /\ cleanedAt' = IF now - cleanedAt >= Cleanup THEN now ELSE cleanedAt
     /\ store' = [kept EXCEPT ![k] = entry]
     /\ IF entry.count =< Limit
        THEN /\ passed' = [passed EXCEPT ![k][now] = @ + 1]
             /\ retryAt' = [retryAt EXCEPT ![k] = 0]
             /\ UNCHANGED unjust
        ELSE /\ retryAt' = [retryAt EXCEPT ![k] = now + RetryAfter(entry.resetAt - now)]
             /\ unjust' = (unjust \/ PassedIn(k, now - Window + 1, now + 1) < Limit
                                  \/ (retryAt[k] # 0 /\ now >= retryAt[k]))
             /\ UNCHANGED passed
     /\ UNCHANGED now

Tick ==
  /\ now < MaxTime
  /\ now' = now + 1
  /\ UNCHANGED <<store, cleanedAt, passed, retryAt, requests, unjust>>

Init ==
  /\ now = 0 /\ cleanedAt = 0 /\ requests = 0 /\ unjust = FALSE
  /\ store = [k \in Keys |-> NoEntry]
  /\ passed = [k \in Keys |-> [t \in Times |-> 0]]
  /\ retryAt = [k \in Keys |-> 0]

Next == Tick \/ \E k \in Keys : Request(k)

Spec == Init /\ [][Next]_vars

-----------------------------------------------------------------------------

\* A limiter neither lets through too much nor refuses too much: in no span
\* of one window, wherever it begins, do more than twice Limit pass; a request
\* is refused only where Limit have passed within the window before it, and
\* never if its key has waited as long as its last refusal said; the windows
\* of others, and the removal of those that have ended, change none of it.
LimitIsFair ==
  /\ ~unjust
  /\ \A k \in Keys : \A t \in Times : PassedIn(k, t, t + Window) =< 2 * Limit
=============================================================================
