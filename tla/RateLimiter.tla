----------------------------- MODULE RateLimiter -----------------------------
(***************************************************************************)
(* The limiter of API requests (api/ratelimit.go, api/middleware.go): a    *)
(* window of one minute per client that starts with its first request.     *)
(*                                                                         *)
(* Both groups of routes count in the same window.  rateLimitAPI asks for  *)
(* the claims of the user, but it runs before the middleware that sets     *)
(* them, so the key of every request is the address of the client.  The    *)
(* mutex makes a call of Allow one step; the clock stands still during it. *)
(* A request that is refused, or that has no limit, changes nothing.       *)
(***************************************************************************)
EXTENDS Naturals, Sequences

CONSTANTS
  Addresses,   \* client addresses
  AuthLimit,   \* requests per minute to the /auth routes, 0 for any number
  APILimit,    \* requests per minute to the /v1 routes, 0 for any number
  Minute,      \* the length of a window
  LastMoment   \* when the clock of the model stops

ASSUME LimiterAssumption ==
  AuthLimit \in Nat /\ APILimit \in Nat /\ Minute \in Nat /\ LastMoment \in Nat

VARIABLES
  now,
  windows,   \* the window of each address; without one its count is 0
  granted,   \* history: when each request that counted was let through
  first      \* history: of each of them, the first one of its window

limiterVars == <<now, windows, granted, first>>

NoWindow == [count |-> 0, expiresAt |-> 0]

LimiterInit ==
  /\ now = 0
  /\ windows = [a \in Addresses |-> NoWindow]
  /\ granted = [a \in Addresses |-> <<>>]
  /\ first = [a \in Addresses |-> <<>>]

Last(s) == s[Len(s)]

Expired(a) == windows[a].count = 0 \/ now > windows[a].expiresAt

\* "Start a new 1-minute window"
StartWindow(a) ==
  /\ Expired(a)
  /\ windows' = [windows EXCEPT ![a] = [count |-> 1, expiresAt |-> now + Minute]]
  /\ granted' = [granted EXCEPT ![a] = Append(@, now)]
  /\ first' = [first EXCEPT ![a] = Append(@, Len(granted[a]) + 1)]

\* Mutant: the count may reach one more than the limit.
MUT_CountToLimit(a, limit) ==
  /\ ~Expired(a)
  /\ windows[a].count <= limit
  /\ windows' = [windows EXCEPT ![a].count = @ + 1]
  /\ granted' = [granted EXCEPT ![a] = Append(@, now)]
  /\ first' = [first EXCEPT ![a] = Append(@, Last(@))]

CountIn(a, limit) ==
  /\ ~Expired(a)
  /\ windows[a].count < limit
  /\ windows' = [windows EXCEPT ![a].count = @ + 1]
  /\ granted' = [granted EXCEPT ![a] = Append(@, now)]
  /\ first' = [first EXCEPT ![a] = Append(@, Last(@))]

Allow(a, limit) ==
  /\ limit > 0
  /\ StartWindow(a) \/ CountIn(a, limit)
  /\ UNCHANGED now

AuthRequest(a) == Allow(a, AuthLimit)
APIRequest(a) == Allow(a, APILimit)

\* The goroutine looks at all windows every five minutes; here at any time.
Cleanup ==
  /\ windows' = [a \in Addresses |-> IF Expired(a) THEN NoWindow ELSE windows[a]]
  /\ UNCHANGED <<now, granted, first>>

ClockTick ==
  /\ now < LastMoment
  /\ now' = now + 1
  /\ UNCHANGED <<windows, granted, first>>

LimiterNext ==
  \/ \E a \in Addresses : AuthRequest(a) \/ APIRequest(a)
  \/ Cleanup
  \/ ClockTick

LimiterSpec == LimiterInit /\ [][LimiterNext]_limiterVars
(****************************** properties *******************************)
Limit == IF AuthLimit > APILimit THEN AuthLimit ELSE APILimit

\* A window counts no more requests than the larger of the limits.
LimiterTypeOK ==
  /\ now \in Nat
  /\ windows \in [Addresses -> [count: 0..Limit, expiresAt: Nat]]
  /\ granted \in [Addresses -> Seq(Nat)]
  /\ first \in [Addresses -> Seq(Nat)]

\* The window starts with a request, so a burst at the end of one and another
\* at the start of the next are let through together, but never more than
\* that: of the requests of an address, one and the one that is twice the
\* limit after it are more than a minute apart, whichever routes they go to
\* and whenever the goroutine deletes windows (RateLimiter.Allow and cleanup).
AtMostTwiceTheLimit ==
  \A a \in Addresses :
    \A i \in 1..Len(granted[a]) :
      i + 2 * Limit <= Len(granted[a]) => granted[a][i + 2 * Limit] > granted[a][i] + Minute

=============================================================================
