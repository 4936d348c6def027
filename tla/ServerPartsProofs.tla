-------------------------- MODULE ServerPartsProofs --------------------------
(***************************************************************************)
(* Proofs about the limit on the requests of an address (RateLimiter): it  *)
(* lets through at most twice the limit within a minute, for every number  *)
(* of addresses, every limit and every length of the window.  With the     *)
(* proofs about the stages of a build, the kernel configuration, the       *)
(* images and the database they give the types of ServerPartsMC.           *)
(***************************************************************************)
EXTENDS ServerPartsMC, StageProofs, PersistenceProofs

-----------------------------------------------------------------------------
(***************************************************************************)
(* The requests of an address.                                             *)
(***************************************************************************)

\* What one address has been granted until t: every request belongs to a
\* window that starts at or before it and holds fewer than Limit requests
\* ahead of it, and a window starts more than a minute after the one before.
History(g, f, t) ==
  /\ Len(f) = Len(g)
  /\ \A j \in 1..Len(g) : f[j] \in 1..j /\ j < f[j] + Limit
  /\ \A j \in 1..Len(g) : g[j] <= t
  /\ \A i, j \in 1..Len(g) : i <= j => g[i] <= g[j]
  /\ \A j \in 1..Len(g) : f[j] > 1 => g[f[j]] > g[f[f[j] - 1]] + Minute

\* How the window in the map belongs to the history: it is the one of the
\* last request, or it was deleted after it expired.
Current(w, g, f, t) ==
  \/ Len(g) = 0 /\ w.count = 0
  \/ /\ Len(g) > 0
     /\ w.count = (Len(g) + 1) - f[Len(g)]
     /\ w.expiresAt = g[f[Len(g)]] + Minute
  \/ /\ Len(g) > 0
     /\ w.count = 0
     /\ t > g[f[Len(g)]] + Minute

Window == [count: 0..Limit, expiresAt: Nat]

LimiterInv ==
  /\ LimiterTypeOK
  /\ \A a \in Addresses : /\ History(granted[a], first[a], now)
                          /\ Current(windows[a], granted[a], first[a], now)

\* The limits are numbers (the settings security.rate_limit of the server).
LEMMA LimitIsNat == Limit \in Nat /\ Minute \in Nat
BY LimiterAssumption DEF LimiterAssumption, Limit

\* Time passes over a window and its history.
LEMMA LaterKept ==
  ASSUME NEW g \in Seq(Nat), NEW f \in Seq(Nat), NEW w \in Window, NEW t \in Nat, NEW u \in Nat,
         u >= t, History(g, f, t), Current(w, g, f, t)
  PROVE  History(g, f, u) /\ Current(w, g, f, u)
<1>1. \A j \in 1..Len(g) : g[j] \in Nat
  OBVIOUS
<1>2. History(g, f, u)
  BY <1>1 DEF History
<1>3. Current(w, g, f, u)
  <2>1. Len(g) > 0 => f[Len(g)] \in 1..Len(g) /\ g[f[Len(g)]] \in Nat
    BY DEF History
  <2> QED BY <2>1, LimitIsNat DEF Current
<1> QED BY <1>2, <1>3

\* The goroutine deletes a window that has expired.
LEMMA DeletedKept ==
  ASSUME NEW g \in Seq(Nat), NEW f \in Seq(Nat), NEW w \in Window, NEW t \in Nat,
         History(g, f, t), Current(w, g, f, t), w.count = 0 \/ t > w.expiresAt
  PROVE  Current(NoWindow, g, f, t)
<1>1. Len(g) > 0 => f[Len(g)] \in 1..Len(g) /\ g[f[Len(g)]] \in Nat
  BY DEF History
<1> QED BY <1>1, LimitIsNat DEF Current, NoWindow, Window

\* A request that starts a window starts it more than a minute after the
\* window before it did.
LEMMA StartKept ==
  ASSUME NEW g \in Seq(Nat), NEW f \in Seq(Nat), NEW w \in Window, NEW t \in Nat,
         History(g, f, t), Current(w, g, f, t), w.count = 0 \/ t > w.expiresAt, Limit > 0
  PROVE  /\ History(Append(g, t), Append(f, Len(g) + 1), t)
         /\ Current([count |-> 1, expiresAt |-> t + Minute], Append(g, t), Append(f, Len(g) + 1), t)
<1> DEFINE n == Len(g)
           gg == Append(g, t)
           ff == Append(f, n + 1)
<1>1. /\ n \in Nat /\ Len(f) = n /\ Len(gg) = n + 1 /\ Len(ff) = n + 1
      /\ gg[n + 1] = t /\ ff[n + 1] = n + 1
  BY DEF History
<1>2. \A j \in 1..n : gg[j] = g[j] /\ ff[j] = f[j] /\ g[j] \in Nat /\ f[j] \in 1..j
  BY <1>1 DEF History
<1>3. ASSUME n > 0 PROVE f[n] \in 1..n /\ g[f[n]] \in Nat /\ t > g[f[n]] + Minute
  <2>1. n \in 1..n
    BY <1>1, <1>3
  <2>2. f[n] \in 1..n /\ g[f[n]] \in Nat
    BY <1>2, <2>1
  <2>3. w.count = 0 \/ w.count = (n + 1) - f[n]
    BY <1>3 DEF Current
  <2> QED BY <1>1, <1>3, <2>2, LimitIsNat DEF Current, Window
<1> HIDE DEF gg, ff
<1>4. \A j \in 1..(n + 1) : j = n + 1 \/ j \in 1..n
  BY <1>1
<1>5. \A j \in 1..(n + 1) : ff[j] \in 1..j /\ j < ff[j] + Limit
  BY <1>1, <1>2, <1>4, LimitIsNat DEF History
<1>6. \A j \in 1..(n + 1) : gg[j] <= t
  BY <1>1, <1>2, <1>4 DEF History
<1>7. \A i, j \in 1..(n + 1) : i <= j => gg[i] <= gg[j]
  <2> SUFFICES ASSUME NEW i \in 1..(n + 1), NEW j \in 1..(n + 1), i <= j PROVE gg[i] <= gg[j]
    OBVIOUS
  <2>1. CASE j = n + 1
    BY <1>1, <1>6, <2>1
  <2>2. CASE j # n + 1
    <3>1. j \in 1..n /\ i \in 1..n
      BY <1>1, <2>2
    <3> QED BY <1>2, <3>1 DEF History
  <2> QED BY <2>1, <2>2
<1>8. \A j \in 1..(n + 1) : ff[j] > 1 => gg[ff[j]] > gg[ff[ff[j] - 1]] + Minute
  <2> SUFFICES ASSUME NEW j \in 1..(n + 1), ff[j] > 1 PROVE gg[ff[j]] > gg[ff[ff[j] - 1]] + Minute
    OBVIOUS
  <2>1. CASE j = n + 1
    <3>1. n > 0 /\ n \in 1..n /\ ff[j] - 1 = n /\ gg[ff[j]] = t
      BY <1>1, <2>1
    <3>2. ff[n] = f[n] /\ f[n] \in 1..n
      BY <1>2, <3>1
    <3>3. gg[ff[n]] = g[f[n]]
      BY <1>2, <3>2
    <3> QED BY <1>3, <3>1, <3>3
  <2>2. CASE j # n + 1
    <3>1. j \in 1..n
      BY <1>1, <2>2
    <3>2. ff[j] = f[j] /\ f[j] \in 1..j
      BY <1>2, <3>1
    <3>3. f[j] - 1 \in 1..n /\ f[j] \in 1..n
      BY <1>1, <2>2, <3>1, <3>2
    <3>4. ff[f[j] - 1] = f[f[j] - 1] /\ f[f[j] - 1] \in 1..n
      <4>1. \A p \in 1..n : ff[p] = f[p] /\ f[p] \in 1..n
        BY <1>1, <1>2
      <4> QED BY <3>3, <4>1
    <3>5. gg[f[j]] = g[f[j]] /\ gg[f[f[j] - 1]] = g[f[f[j] - 1]]
      BY <1>2, <3>3, <3>4
    <3>6. f[j] > 1 => g[f[j]] > g[f[f[j] - 1]] + Minute
      BY <3>1 DEF History
    <3> QED BY <3>2, <3>4, <3>5, <3>6
  <2> QED BY <2>1, <2>2
<1>9. History(gg, ff, t)
  BY <1>1, <1>5, <1>6, <1>7, <1>8 DEF History
<1>10. Current([count |-> 1, expiresAt |-> t + Minute], gg, ff, t)
  BY <1>1, LimitIsNat DEF Current
<1> QED BY <1>9, <1>10 DEF gg, ff

\* A request that is counted in the window of the address belongs to the
\* window of the request before it, which has room.
LEMMA CountKept ==
  ASSUME NEW g \in Seq(Nat), NEW f \in Seq(Nat), NEW w \in Window, NEW t \in Nat,
         History(g, f, t), Current(w, g, f, t), w.count # 0, w.count < Limit
  PROVE  /\ Len(g) > 0
         /\ History(Append(g, t), Append(f, Last(f)), t)
         /\ Current([w EXCEPT !.count = @ + 1], Append(g, t), Append(f, Last(f)), t)
<1> DEFINE n == Len(g)
           gg == Append(g, t)
           ff == Append(f, Last(f))
<1>1. /\ n \in Nat /\ n > 0 /\ n \in 1..n /\ Len(f) = n /\ Last(f) = f[n]
      /\ Len(gg) = n + 1 /\ Len(ff) = n + 1 /\ gg[n + 1] = t /\ ff[n + 1] = f[n]
  <2>1. n \in Nat /\ n > 0 /\ Len(f) = n
    BY DEF History, Current
  <2>2. Last(f) = f[n] /\ f[n] \in Nat
    BY <2>1 DEF Last
  <2> QED BY <2>1, <2>2
<1>2. \A j \in 1..n : gg[j] = g[j] /\ ff[j] = f[j] /\ g[j] \in Nat /\ f[j] \in 1..j
  <2>1. Last(f) \in Nat
    BY <1>1
  <2> QED BY <1>1, <2>1 DEF History
<1>3. /\ w.count = (n + 1) - f[n]
      /\ w.expiresAt = g[f[n]] + Minute
  BY <1>1 DEF Current
<1> HIDE DEF gg, ff
<1>4. \A j \in 1..(n + 1) : j = n + 1 \/ j \in 1..n
  BY <1>1
<1>5. \A j \in 1..(n + 1) : ff[j] \in 1..j /\ j < ff[j] + Limit
  <2>1. f[n] \in 1..n
    BY <1>1, <1>2
  <2>2. n + 1 < f[n] + Limit
    BY <1>1, <1>3, <2>1, LimitIsNat DEF Window
  <2>3. \A j \in 1..n : ff[j] \in 1..j /\ j < ff[j] + Limit
    BY <1>2 DEF History
  <2>4. ff[n + 1] \in 1..(n + 1) /\ n + 1 < ff[n + 1] + Limit
    BY <1>1, <2>1, <2>2
  <2> QED BY <1>4, <2>3, <2>4
<1>6. \A j \in 1..(n + 1) : gg[j] <= t
  BY <1>1, <1>2, <1>4 DEF History
<1>7. \A i, j \in 1..(n + 1) : i <= j => gg[i] <= gg[j]
  <2> SUFFICES ASSUME NEW i \in 1..(n + 1), NEW j \in 1..(n + 1), i <= j PROVE gg[i] <= gg[j]
    OBVIOUS
  <2>1. CASE j = n + 1
    BY <1>1, <1>6, <2>1
  <2>2. CASE j # n + 1
    <3>1. j \in 1..n
      BY <1>4, <2>2
    <3>2. i \in 1..n
      BY <3>1
    <3> QED BY <1>2, <3>1, <3>2 DEF History
  <2> QED BY <2>1, <2>2
<1>8. \A j \in 1..(n + 1) : ff[j] > 1 => gg[ff[j]] > gg[ff[ff[j] - 1]] + Minute
  <2>1. \A j \in 1..n : f[j] > 1 => gg[f[j]] > gg[ff[f[j] - 1]] + Minute
    <3> SUFFICES ASSUME NEW j \in 1..n, f[j] > 1 PROVE gg[f[j]] > gg[ff[f[j] - 1]] + Minute
      OBVIOUS
    <3>0. f[j] \in 1..j
      BY <1>2
    <3>1. f[j] \in 1..n /\ f[j] - 1 \in 1..n
      BY <3>0
    <3>2. \A p \in 1..n : ff[p] = f[p] /\ f[p] \in 1..n
      BY <1>1, <1>2
    <3>3. gg[f[j]] = g[f[j]] /\ ff[f[j] - 1] = f[f[j] - 1] /\ gg[f[f[j] - 1]] = g[f[f[j] - 1]]
      BY <1>2, <3>1, <3>2
    <3>4. g[f[j]] > g[f[f[j] - 1]] + Minute
      BY DEF History
    <3> QED BY <3>3, <3>4
  <2>2. \A j \in 1..(n + 1) : \E i \in 1..n : ff[j] = f[i]
    <3> SUFFICES ASSUME NEW j \in 1..(n + 1) PROVE \E i \in 1..n : ff[j] = f[i]
      OBVIOUS
    <3>1. CASE j = n + 1
      BY <1>1, <3>1
    <3>2. CASE j \in 1..n
      BY <1>2, <3>2
    <3> QED BY <1>4, <3>1, <3>2
  <2> QED BY <2>1, <2>2
<1>9. History(gg, ff, t)
  BY <1>1, <1>5, <1>6, <1>7, <1>8 DEF History
<1>10. Current([w EXCEPT !.count = @ + 1], gg, ff, t)
  <2>1. f[n] \in 1..n /\ gg[f[n]] = g[f[n]]
    BY <1>1, <1>2
  <2> QED BY <1>1, <1>3, <2>1, LimitIsNat DEF Current, Window
<1> QED BY <1>1, <1>9, <1>10 DEF gg, ff

\* The limiter begins without windows.
LEMMA LimiterStart == LimiterInit => LimiterInv
<1> SUFFICES ASSUME LimiterInit PROVE LimiterInv
  OBVIOUS
<1>1. LimiterTypeOK
  BY LimitIsNat DEF LimiterInit, LimiterTypeOK, NoWindow
<1>2. History(<<>>, <<>>, 0) /\ Current(NoWindow, <<>>, <<>>, 0)
  BY DEF History, Current, NoWindow
<1>3. \A a \in Addresses : /\ History(granted[a], first[a], now)
                           /\ Current(windows[a], granted[a], first[a], now)
  BY <1>2 DEF LimiterInit
<1> QED BY <1>1, <1>3 DEF LimiterInv

\* Every step of the limiter keeps the invariant.
LEMMA LimiterStep == LimiterInv /\ [LimiterNext]_limiterVars => LimiterInv'
<1> SUFFICES ASSUME LimiterInv, [LimiterNext]_limiterVars PROVE LimiterInv'
  OBVIOUS
<1>1. /\ LimiterTypeOK
      /\ \A a \in Addresses : /\ granted[a] \in Seq(Nat) /\ first[a] \in Seq(Nat) /\ windows[a] \in Window
                              /\ History(granted[a], first[a], now)
                              /\ Current(windows[a], granted[a], first[a], now)
      /\ now \in Nat
  BY DEF LimiterInv, LimiterTypeOK, Window
<1>2. ASSUME NEW a \in Addresses, NEW limit \in {AuthLimit, APILimit}, Allow(a, limit)
      PROVE  LimiterInv'
  <2>1. limit \in Nat /\ limit > 0 /\ limit <= Limit /\ Limit > 0 /\ now' = now
    BY <1>2, LimiterAssumption DEF Allow, LimiterAssumption, Limit
  <2>2. CASE StartWindow(a)
    <3>1. /\ windows' = [windows EXCEPT ![a] = [count |-> 1, expiresAt |-> now + Minute]]
          /\ granted' = [granted EXCEPT ![a] = Append(granted[a], now)]
          /\ first' = [first EXCEPT ![a] = Append(first[a], Len(granted[a]) + 1)]
          /\ windows[a].count = 0 \/ now > windows[a].expiresAt
      BY <2>2 DEF StartWindow, Expired
    <3>2. LimiterTypeOK'
      BY <1>1, <2>1, <3>1, LimitIsNat DEF LimiterTypeOK, Limit
    <3>3. /\ History(Append(granted[a], now), Append(first[a], Len(granted[a]) + 1), now)
          /\ Current([count |-> 1, expiresAt |-> now + Minute], Append(granted[a], now),
                     Append(first[a], Len(granted[a]) + 1), now)
      BY <1>1, <2>1, <3>1, StartKept
    <3>4. \A b \in Addresses : /\ History(granted'[b], first'[b], now')
                               /\ Current(windows'[b], granted'[b], first'[b], now')
      BY <1>1, <2>1, <3>1, <3>3 DEF LimiterTypeOK
    <3> QED BY <3>2, <3>4 DEF LimiterInv, History, Current, Limit
  <2>3. CASE CountIn(a, limit)
    <3>1. /\ windows' = [windows EXCEPT ![a] = [windows[a] EXCEPT !.count = @ + 1]]
          /\ granted' = [granted EXCEPT ![a] = Append(granted[a], now)]
          /\ first' = [first EXCEPT ![a] = Append(first[a], Last(first[a]))]
          /\ windows[a].count # 0 /\ windows[a].count < limit
      BY <2>3 DEF CountIn, Expired
    <3>2. /\ Len(granted[a]) > 0
          /\ History(Append(granted[a], now), Append(first[a], Last(first[a])), now)
          /\ Current([windows[a] EXCEPT !.count = @ + 1], Append(granted[a], now),
                     Append(first[a], Last(first[a])), now)
      <4>1. windows[a].count < Limit
        BY <1>1, <2>1, <3>1, LimitIsNat DEF Window
      <4> QED BY <1>1, <3>1, <4>1, CountKept
    <3>3. Last(first[a]) \in Nat
      BY <1>1, <3>2 DEF History, Last
    <3>4. LimiterTypeOK'
      <4>0. windows[a].count \in Nat /\ windows[a].count + 1 \in 0..Limit
        BY <1>1, <2>1, <3>1, LimitIsNat DEF Window
      <4>1. [windows[a] EXCEPT !.count = @ + 1] \in Window
        BY <1>1, <4>0 DEF Window
      <4> QED BY <1>1, <2>1, <3>1, <3>3, <4>1 DEF LimiterTypeOK, Window, Limit
    <3>5. \A b \in Addresses : /\ History(granted'[b], first'[b], now')
                               /\ Current(windows'[b], granted'[b], first'[b], now')
      BY <1>1, <2>1, <3>1, <3>2 DEF LimiterTypeOK
    <3> QED BY <3>4, <3>5 DEF LimiterInv, History, Current, Limit
  <2> QED BY <1>2, <2>2, <2>3 DEF Allow
<1>3. CASE Cleanup
  <2>1. LimiterTypeOK'
    BY <1>1, <1>3, LimitIsNat DEF Cleanup, LimiterTypeOK, NoWindow, Limit
  <2>2. \A a \in Addresses : Current(windows'[a], granted[a], first[a], now)
    BY <1>1, <1>3, DeletedKept DEF Cleanup, Expired
  <2> QED BY <1>1, <1>3, <2>1, <2>2 DEF LimiterInv, History, Current, Cleanup, Limit
<1>4. CASE ClockTick
  <2>1. LimiterTypeOK'
    BY <1>1, <1>4 DEF ClockTick, LimiterTypeOK, Limit
  <2>2. now' \in Nat /\ now' >= now
    BY <1>1, <1>4 DEF ClockTick
  <2>3. \A a \in Addresses : /\ History(granted[a], first[a], now')
                             /\ Current(windows[a], granted[a], first[a], now')
    BY <1>1, <2>2, LaterKept
  <2> QED BY <1>4, <2>1, <2>3 DEF LimiterInv, History, Current, ClockTick, Limit
<1>5. CASE UNCHANGED limiterVars
  BY <1>1, <1>5 DEF limiterVars, LimiterInv, LimiterTypeOK, History, Current, Limit
<1> QED BY <1>2, <1>3, <1>4, <1>5 DEF LimiterNext, AuthRequest, APIRequest

\* The elements of a sequence of moments are moments.
LEMMA Moments ==
  ASSUME NEW g \in Seq(Nat)
  PROVE  \A n \in 1..Len(g) : g[n] \in Nat
OBVIOUS

\* Windows that are two apart are more than a minute apart.
LEMMA TwiceApart ==
  ASSUME NEW g \in Seq(Nat), NEW f \in Seq(Nat), NEW t \in Nat, History(g, f, t),
         NEW i \in 1..Len(g), NEW j \in 1..Len(g), j = (i + Limit) + Limit
  PROVE  g[j] > g[i] + Minute
<1>1. Limit \in Nat /\ Minute \in Nat /\ Len(g) \in Nat
  BY LimitIsNat
<1>2. f[j] \in 1..j /\ j < f[j] + Limit
  BY DEF History
<1>3. PICK k \in 1..Len(g) : k = f[j] /\ k <= j /\ k > i + Limit
  BY <1>1, <1>2
<1>4. PICK l \in 1..Len(g) : l = k - 1 /\ l >= i + Limit
  BY <1>1, <1>3
<1>5. f[l] \in 1..l /\ l < f[l] + Limit
  BY DEF History
<1>6. PICK m \in 1..Len(g) : m = f[l] /\ i <= m
  <2>1. f[l] \in Nat /\ f[l] >= 1 /\ f[l] <= l
    BY <1>5
  <2>2. f[l] >= i
    <3>1. \A x, y, z, u \in Nat : (x >= y + z /\ x < u + z) => u >= y
      OBVIOUS
    <3>2. l \in Nat /\ i \in Nat
      BY <1>1
    <3> QED BY <1>1, <1>4, <1>5, <2>1, <3>1, <3>2
  <2>3. f[l] \in 1..Len(g)
    BY <1>1, <2>1
  <2> QED BY <2>2, <2>3
<1>7. g[j] \in Nat /\ g[k] \in Nat /\ g[m] \in Nat /\ g[i] \in Nat
  BY Moments
<1>8. g[k] > g[m] + Minute
  <2>1. f[j] > 1
    BY <1>1, <1>3
  <2>2. g[f[j]] > g[f[f[j] - 1]] + Minute
    BY <2>1 DEF History
  <2> QED BY <1>3, <1>4, <1>6, <2>2
<1>9. g[k] <= g[j] /\ g[i] <= g[m]
  BY <1>3, <1>6 DEF History
<1> QED
  <2>1. \A a, b, c, d, x \in Nat : (a > b + x /\ a <= c /\ d <= b) => c > d + x
    OBVIOUS
  <2> QED BY <1>1, <1>7, <1>8, <1>9, <2>1

\* Of the requests of an address that the limiter lets through, one and the
\* one that is twice the limit after it are more than a minute apart
\* (RateLimiter.Allow and cleanup), for every limit and number of addresses.
THEOREM TwiceTheLimit == LimiterSpec => [](LimiterTypeOK /\ AtMostTwiceTheLimit)
<1>1. LimiterInv => LimiterTypeOK /\ AtMostTwiceTheLimit
  <2> SUFFICES ASSUME LimiterInv PROVE AtMostTwiceTheLimit
    BY DEF LimiterInv
  <2>1. \A a \in Addresses : /\ granted[a] \in Seq(Nat) /\ first[a] \in Seq(Nat) /\ now \in Nat
                             /\ History(granted[a], first[a], now)
    BY DEF LimiterInv, LimiterTypeOK
  <2>2. ASSUME NEW a \in Addresses, NEW i \in 1..Len(granted[a]), i + 2 * Limit <= Len(granted[a])
        PROVE  granted[a][i + 2 * Limit] > granted[a][i] + Minute
    <3>1. i + 2 * Limit = (i + Limit) + Limit /\ i + 2 * Limit \in 1..Len(granted[a])
      BY <2>2, LimitIsNat
    <3> QED BY <2>1, <3>1, TwiceApart
  <2> QED BY <2>2 DEF AtMostTwiceTheLimit
<1> QED BY <1>1, LimiterStart, LimiterStep, PTL DEF LimiterSpec

-----------------------------------------------------------------------------
(***************************************************************************)
(* The five parts together.                                                *)
(***************************************************************************)
ServerInv ==
  /\ part = "stages" => StagesTypes
  /\ part = "kernel" => KernelTypes
  /\ part = "images" => ImageInv
  /\ part = "database" => PersistInv
  /\ part = "requests" => LimiterInv

\* Each part keeps its types beside the others.
THEOREM ServerTypes == ServerSpec => []ServerTypeOK
  <1>1. ServerInit => ServerInv
    <2> SUFFICES ASSUME ServerInit PROVE ServerInv
      OBVIOUS
    <2>1. part = "stages" => StagesInit
      BY DEF ServerInit, StagesStart
    <2>2. part = "kernel" => KernelInit
      BY DEF ServerInit
    <2>3. part = "database" => PersistInit
      BY DEF ServerInit
    <2>4. ImageInit /\ LimiterInit
      BY DEF ServerInit
    <2> QED
      BY <2>1, <2>2, <2>3, <2>4, StagesAssumption, StagesTypesInit, KernelConfigAssumption, KernelTypesInit,
         ImageStart, PersistStart, LimiterStart DEF ServerInv
  <1>2. ServerInv /\ [ServerNext]_serverVars => ServerInv'
    <2> SUFFICES ASSUME ServerInv, [ServerNext]_serverVars PROVE ServerInv'
      OBVIOUS
    <2>1. part' = part
      BY DEF ServerNext, serverVars
    <2>2. part = "stages" => [StagesNext]_stageVars
      BY DEF ServerNext, serverVars, StagesStep
    <2>3. part = "kernel" => [KernelNext]_kernelVars
      BY DEF ServerNext, serverVars
    <2>4. part = "images" => [ImageNext]_imageVars
      BY DEF ServerNext, serverVars
    <2>5. part = "database" => [PersistNext]_persistVars
      BY DEF ServerNext, serverVars
    <2>6. part = "requests" => [LimiterNext]_limiterVars
      BY DEF ServerNext, serverVars
    <2> QED
      BY <2>1, <2>2, <2>3, <2>4, <2>5, <2>6, StagesTypesNext, KernelTypesNext, ImageStep, PersistStep, LimiterStep
      DEF ServerInv
  <1>3. ServerInv => ServerTypeOK
    BY StagesTypesSound, KernelTypesSound, ImageInvTypes, PersistInvTypes DEF ServerInv, ServerTypeOK, LimiterInv
  <1> QED
    BY <1>1, <1>2, <1>3, PTL DEF ServerSpec
=============================================================================
