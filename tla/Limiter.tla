------------------------------- MODULE Limiter --------------------------------
(***************************************************************************)
(* The limiter of attempts: for each key (the kind of request and the      *)
(* caller's address) the times of the attempts let through, oldest first,  *)
(* and a goroutine that throws away the buckets it takes to be finished.   *)
(* A time is kept as the age it has now, counted in units of the model and *)
(* up to one past the hour, beyond which nothing looks at it.              *)
(***************************************************************************)
EXTENDS Naturals, FiniteSets, Sequences, SequencesExt

CONSTANTS
  Caller,     \* keys of the map
  Allowed,    \* [Caller -> attempts let through in a window]
  Window,     \* [Caller -> length of its window]
  Hour        \* what the cleaner waits for

\* Every window the code asks for is a quarter of an hour or an hour.
ASSUME LimiterAssumption ==
  /\ Allowed \in [Caller -> Nat \ {0}] /\ Hour \in Nat \ {0}
  /\ Window \in [Caller -> 1 .. Hour]

VARIABLES
  buckets,    \* [Caller -> ages of the attempts it holds]; no bucket is an empty one
  granted     \* history: the ages of all attempts let through within the hour

limiterVars == <<buckets, granted>>

Age == 0 .. Hour + 1

\* Those younger than the limit, in their order. (SelectSeq, in terms a proof can open.)
Within(ages, limit) ==
  LET young == {i \in DOMAIN ages : ages[i] < limit}
      place(i) == Cardinality({j \in young : j <= i})
  IN  [k \in 1 .. Cardinality(young) |-> ages[CHOOSE i \in young : place(i) = k]]

LimiterTypeOK == /\ buckets \in [Caller -> Seq(Age)]
                 /\ granted \in [Caller -> Seq(0 .. Hour)]

LimiterInit == buckets = [c \in Caller |-> <<>>] /\ granted = [c \in Caller |-> <<>>]

\* One unit of time passes for every attempt there is.
Older(ages) == [i \in DOMAIN ages |-> IF ages[i] > Hour THEN ages[i] ELSE ages[i] + 1]

Tick ==
  /\ buckets' = [c \in Caller |-> Older(buckets[c])]
  /\ granted' = [c \in Caller |-> Within(Older(granted[c]), Hour + 1)]

\* allow: the attempts within the window are kept, in place; one more is let through, and
\* recorded, if they are fewer than allowed. A refused attempt is not recorded.
Kept(c) == Within(buckets[c], Window[c])

Allow(c) ==
  /\ Len(Kept(c)) < Allowed[c]
  /\ buckets' = [buckets EXCEPT ![c] = Append(Kept(c), 0)]
  /\ granted' = [granted EXCEPT ![c] = Append(@, 0)]

Refuse(c) ==
  /\ Len(Kept(c)) >= Allowed[c]
  /\ buckets' = [buckets EXCEPT ![c] = Kept(c)]
  /\ UNCHANGED granted

\* The cleaner deletes a bucket that is empty or whose last attempt is over an hour old.
\* Fault: it looks at the first.
FinishedByFirst(ages) == ages = <<>> \/ Head(ages) > Hour

Finished(ages) == ages = <<>> \/ Last(ages) > Hour

Clean == /\ buckets' = [c \in Caller |-> IF Finished(buckets[c]) THEN <<>> ELSE buckets[c]]
         /\ UNCHANGED granted

LimiterNext == Tick \/ Clean \/ \E c \in Caller : Allow(c) \/ Refuse(c)

LimiterSpec == LimiterInit /\ [][LimiterNext]_limiterVars

-----------------------------------------------------------------------------
\* In no window are more attempts let through than allowed, whatever was filtered, refused
\* or cleaned away in between, and none that still counts is forgotten: a caller is refused
\* only after as many as allowed within the window. (rateLimiter.allow, newRateLimiter.)
AtMostAllowed == \A c \in Caller :
  /\ Len(Within(granted[c], Window[c])) <= Allowed[c]
  /\ Within(buckets[c], Window[c]) = Within(granted[c], Window[c])
=============================================================================
