------------------------------ MODULE Throttle ------------------------------
(***************************************************************************)
(* The bandwidth limit of downloads (download/throttle.go).  A reader      *)
(* receives up to 32 KB and waits until every limiter lets them pass: the  *)
(* one of its transfer, made anew with each, and the one of all workers.   *)
(*                                                                         *)
(* A limiter counts whole bytes.  Its tokens are refilled by the time      *)
(* since lastRefill, rounded down, and lastRefill moves only when that     *)
(* gives a token.  The model keeps that time as the age of the bucket,     *)
(* which stops at an age that fills every bucket.                          *)
(***************************************************************************)
EXTENDS Integers, Sequences

CONSTANTS
  Readers,      \* download workers
  Global,       \* the limiter of all workers
  WorkerRate,   \* bytes per second of a worker, 0 for any number
  GlobalRate,   \* bytes per second of all workers, 0 for any number
  Second,       \* steps of the clock in a second
  BurstFloor,   \* 65536: the smallest burst
  MaxRead       \* 32768: the most bytes of one read

ASSUME ThrottleAssumption ==
  /\ WorkerRate \in Nat /\ GlobalRate \in Nat /\ Second \in Nat \ {0}
  /\ BurstFloor \in Nat /\ MaxRead \in Nat \ {0}
  /\ MaxRead <= BurstFloor
  /\ Global \notin Readers

VARIABLES
  bucket,   \* the tokens of each limiter and the time since its last refill
  exact,    \* history: a bucket that is never rounded, in bytes times Second
  transfer  \* what each worker does

throttleVars == <<bucket, exact, transfer>>

Limiters == Readers \cup {Global}
Rate(l) == IF l = Global THEN GlobalRate ELSE WorkerRate

\* "Max burst: 1 second worth of tokens (or 64KB minimum)"
MaxTokens(l) == IF Rate(l) > BurstFloor THEN Rate(l) ELSE BurstFloor

\* An age that fills the bucket.  One without a rate is never asked.
OldEnough(l) == IF Rate(l) = 0 THEN 0 ELSE MaxTokens(l) * Second
FullBucket(l) == [tokens |-> MaxTokens(l), age |-> 0]
NoTransfer == [step |-> "idle", n |-> 0, ahead |-> <<>>, sleep |-> 0]

ThrottleInit ==
  /\ bucket = [l \in Limiters |-> FullBucket(l)]
  /\ exact = [l \in Limiters |-> Second * MaxTokens(l)]
  /\ transfer = [r \in Readers |-> NoTransfer]

\* The limiters that are configured.
ActiveLimiters(r) ==
  IF WorkerRate > 0
  THEN IF GlobalRate > 0 THEN <<r, Global>> ELSE <<r>>
  ELSE IF GlobalRate > 0 THEN <<Global>> ELSE <<>>

StartTransfer(r) ==
  /\ transfer[r].step = "idle"
  /\ transfer' = [transfer EXCEPT ![r].step = "read"]
  /\ bucket' = [bucket EXCEPT ![r] = FullBucket(r)]
  /\ exact' = [exact EXCEPT ![r] = Second * MaxTokens(r)]

ReceiveBytes(r) ==
  /\ transfer[r].step = "read"
  /\ \E n \in 1..MaxRead :
       transfer' = [transfer EXCEPT ![r] = [step |-> "wait", n |-> n, ahead |-> ActiveLimiters(r), sleep |-> 0]]
  /\ UNCHANGED <<bucket, exact>>

NewTokens(l, age) == (age * Rate(l)) \div Second

\* Mutant: lastRefill moves also when the time gives no token.
MUT_RefillAlways(l) ==
  LET tokens == bucket[l].tokens + NewTokens(l, bucket[l].age)
  IN [tokens |-> IF tokens > MaxTokens(l) THEN MaxTokens(l) ELSE tokens, age |-> 0]

\* Mutant: lastRefill never moves.
MUT_RefillAgain(l) ==
  LET tokens == bucket[l].tokens + NewTokens(l, bucket[l].age)
  IN [bucket[l] EXCEPT !.tokens = IF tokens > MaxTokens(l) THEN MaxTokens(l) ELSE tokens]

\* "Refill tokens based on elapsed time"
Refilled(l) ==
  LET tokens == bucket[l].tokens + NewTokens(l, bucket[l].age)
  IN IF tokens = bucket[l].tokens THEN bucket[l]
     ELSE [tokens |-> IF tokens > MaxTokens(l) THEN MaxTokens(l) ELSE tokens, age |-> 0]

Asks(r, l) == transfer[r].step = "wait" /\ transfer[r].ahead # <<>> /\ l = Head(transfer[r].ahead)

Take(r) ==
  \E l \in Limiters :
    /\ Asks(r, l)
    /\ Refilled(l).tokens >= transfer[r].n
    /\ bucket' = [bucket EXCEPT ![l] = [Refilled(l) EXCEPT !.tokens = @ - transfer[r].n]]
    /\ exact' = [exact EXCEPT ![l] = @ - Second * transfer[r].n]
    /\ transfer' = [transfer EXCEPT ![r].ahead = Tail(@)]

\* "Calculate how long to wait for enough tokens"
Sleep(r) ==
  \E l \in Limiters :
    /\ Asks(r, l)
    /\ Refilled(l).tokens < transfer[r].n
    /\ bucket' = [bucket EXCEPT ![l] = Refilled(l)]
    /\ LET deficit == transfer[r].n - Refilled(l).tokens
       IN transfer' = [transfer EXCEPT ![r].step = "sleep", ![r].sleep = (deficit * Second) \div Rate(l)]
    /\ UNCHANGED exact

Wake(r) ==
  /\ transfer[r].step = "sleep"
  /\ transfer[r].sleep = 0
  /\ transfer' = [transfer EXCEPT ![r].step = "wait"]
  /\ UNCHANGED <<bucket, exact>>

\* Every limiter has let the bytes pass, and the downloader writes them.
Pass(r) ==
  /\ transfer[r].step = "wait"
  /\ transfer[r].ahead = <<>>
  /\ transfer' = [transfer EXCEPT ![r].step = "read"]
  /\ UNCHANGED <<bucket, exact>>

\* The body ends, the transfer fails, or the download is cancelled: while the
\* worker reads, or while it sleeps.  The next transfer begins afresh.
End(r) ==
  /\ transfer[r].step \in {"read", "sleep"}
  /\ transfer' = [transfer EXCEPT ![r] = NoTransfer]
  /\ UNCHANGED <<bucket, exact>>

TimePasses ==
  /\ bucket' = [l \in Limiters |-> IF bucket[l].age < OldEnough(l)
                                   THEN [bucket[l] EXCEPT !.age = @ + 1] ELSE bucket[l]]
  /\ exact' = [l \in Limiters |-> LET e == exact[l] + Rate(l)
                                  IN IF e > Second * MaxTokens(l) THEN Second * MaxTokens(l) ELSE e]
  /\ transfer' = [r \in Readers |-> IF transfer[r].sleep > 0
                                    THEN [transfer[r] EXCEPT !.sleep = @ - 1] ELSE transfer[r]]

ReaderStep(r) == Take(r) \/ Sleep(r) \/ Wake(r) \/ Pass(r)

ThrottleNext ==
  \/ \E r \in Readers : StartTransfer(r) \/ ReceiveBytes(r) \/ ReaderStep(r) \/ End(r)
  \/ TimePasses

\* A worker that waits is scheduled, and time passes.
ThrottleFairness == /\ \A r \in Readers : WF_throttleVars(ReaderStep(r))
                    /\ WF_throttleVars(TimePasses)

ThrottleSpec == ThrottleInit /\ [][ThrottleNext]_throttleVars /\ ThrottleFairness
(****************************** properties *******************************)
\* Types; and no bucket holds more than its burst.
ThrottleTypeOK ==
  /\ bucket \in [Limiters -> [tokens: Nat, age: Nat]]
  /\ \A l \in Limiters : bucket[l].tokens <= MaxTokens(l)
  /\ exact \in [Limiters -> Int]
  /\ \A r \in Readers : /\ transfer[r].step \in {"idle", "read", "wait", "sleep"}
                        /\ transfer[r].n \in 0..MaxRead
                        /\ transfer[r].ahead \in {<<>>, <<r>>, <<Global>>, <<r, Global>>}
                        /\ transfer[r].sleep \in Nat

\* However often a limiter is asked and by however many workers, it lets no
\* more bytes pass than a burst and its rate allow: a bucket that is refilled
\* without rounding, from which they are all taken, is never overdrawn by a
\* byte.  It may be by a part of one, which a full bucket keeps in its age
\* (rateLimiter.Wait).
WithinRate == \A l \in Limiters : exact[l] > -Second

\* When all workers wait for a limiter one of them passes, sleeps or not: no
\* read is larger than a bucket, and polls that are too close to each other to
\* give a token lose no time (rateLimiter.Wait, newRateLimiter).
SomeoneIsServed ==
  (\A r \in Readers : transfer[r].step \in {"wait", "sleep"})
    ~> (\E r \in Readers : transfer[r].step \notin {"wait", "sleep"})

=============================================================================
