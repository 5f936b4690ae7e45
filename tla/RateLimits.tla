----------------------------- MODULE RateLimits -----------------------------
(***************************************************************************)
(* The quotas of the routes: consumeRateLimit counts a request in the      *)
(* shared store, and in the memory of its instance when the store does not *)
(* answer.  Windows are fixed: the key of a counter holds the number of    *)
(* the window.  A call reads the clock once, before it counts.             *)
(***************************************************************************)
EXTENDS Naturals, FiniteSets

CONSTANTS Calls, Instances,
          Quotas,          \* pairs of a policy and an identity
          Window, MaxRequests,
          MemoryMaxKeys,   \* MEMORY_STORE_MAX_KEYS
          MaxTime, MaxAsked, MaxResets,  \* bounds: the clock, requests, memories lost
          NoCall

\* What the constants are; assumed where values are given.
RateAssumption ==
  /\ IsFiniteSet(Instances) /\ Window \in Nat \ {0} /\ MaxRequests \in Nat \ {0}
  /\ MemoryMaxKeys \in Nat /\ MaxTime \in Nat /\ MaxAsked \in Nat /\ MaxResets \in Nat

VARIABLES
  store,     \* "none", "steady" or "flaky": is the shared store configured, does it answer?
  now,
  shared,    \* shared[q][w]: the counter of quota q in window w
  memory,    \* memory[i]: records of the instance, [key, count, resetAt]
  asking,    \* asking[c]: the request call c is counting
  passed,    \* history: passed[q][w], requests let through
  asked,     \* history: requests made
  resets     \* history: memories that lost a record that still counted

counters == <<shared, memory>>
counts == <<passed, asked, resets>>
vars == <<store, now, counters, asking, counts>>

WindowOf(t) == t \div Window
Windows == 0..WindowOf(MaxTime)
Free == [at |-> "idle", instance |-> NoCall, quota |-> NoCall, time |-> 0]

Init ==
  /\ store \in {"none", "steady", "flaky"} /\ now = 0
  /\ shared = [q \in Quotas |-> [w \in Windows |-> 0]]
  /\ memory = [i \in Instances |-> {}]
  /\ asking = [c \in Calls |-> Free]
  /\ passed = [q \in Quotas |-> [w \in Windows |-> 0]]
  /\ asked = 0 /\ resets = 0

\* A memory counts at once, when the store has failed or there is none.
Tick == /\ now < MaxTime /\ \A c \in Calls : asking[c].at # "local"
        /\ now' = now + 1
        /\ UNCHANGED <<store, counters, asking, counts>>

\* enforceRateLimit is called on one instance.
Ask(c, i, q) ==
  /\ asking[c] = Free /\ asked < MaxAsked
  /\ asked' = asked + 1
  /\ asking' = [asking EXCEPT ![c] = [at |-> IF store = "none" THEN "local" ELSE "shared",
                                      instance |-> i, quota |-> q, time |-> now]]
  /\ UNCHANGED <<store, now, counters, passed, resets>>

\* Mutation: one request too many.
AllowedLate(n) == n <= MaxRequests + 1

Allowed(n) == n <= MaxRequests

\* The verdict, for the n-th request.
Decide(c, n) ==
  /\ passed' = [passed EXCEPT ![asking[c].quota][WindowOf(asking[c].time)] =
                  IF Allowed(n) THEN @ + 1 ELSE @]
  /\ asking' = [asking EXCEPT ![c] = Free]

Increment(c) == shared' = [shared EXCEPT ![asking[c].quota][WindowOf(asking[c].time)] = @ + 1]

\* INCR answers; EXPIRE is posted once and outlives the window.
CountShared(c) ==
  /\ asking[c].at = "shared"
  /\ Increment(c)
  /\ Decide(c, shared[asking[c].quota][WindowOf(asking[c].time)] + 1)
  /\ UNCHANGED <<store, now, memory, asked, resets>>

\* The store is late or down; INCR may have been applied.
SharedFails(c) ==
  /\ asking[c].at = "shared" /\ store = "flaky"
  /\ Increment(c) \/ shared' = shared
  /\ asking' = [asking EXCEPT ![c].at = "local"]
  /\ UNCHANGED <<store, now, memory, counts>>

\* What is left of a memory that is full: the live records, none if they are too many.
Swept(records, t) ==
  IF Cardinality(records) <= MemoryMaxKeys THEN records
  ELSE LET live == {x \in records : x.resetAt > t} IN
       IF Cardinality(live) <= MemoryMaxKeys THEN live ELSE {}

\* A record that still counts: live, or of a window some other call is counting in.
Matters(x, c) ==
  \/ x.resetAt > asking[c].time
  \/ \E d \in Calls \ {c} : asking[d] # Free /\ x.key = <<asking[d].quota, WindowOf(asking[d].time)>>

\* memoryIncrement.
CountLocal(c) ==
  LET a == asking[c]
      key == <<a.quota, WindowOf(a.time)>>
      records == Swept(memory[a.instance], a.time)
      mine == {x \in records : x.key = key}
      live == {x \in mine : x.resetAt > a.time}
      record == IF live = {} THEN [key |-> key, count |-> 1, resetAt |-> a.time + Window]
                ELSE LET old == CHOOSE x \in live : TRUE IN [old EXCEPT !.count = @ + 1]
  IN
  /\ a.at = "local"
  /\ memory' = [memory EXCEPT ![a.instance] = (records \ mine) \cup {record}]
  /\ resets' = IF \E x \in memory[a.instance] \ records : Matters(x, c) THEN resets + 1 ELSE resets
  /\ Decide(c, record.count)
  /\ UNCHANGED <<store, now, shared, asked>>

\* A deployment: the memory of the instance and its requests are gone.
Restart(i) ==
  /\ resets < MaxResets /\ memory[i] # {}
  /\ resets' = resets + 1
  /\ memory' = [memory EXCEPT ![i] = {}]
  /\ asking' = [c \in Calls |-> IF asking[c].instance = i THEN Free ELSE asking[c]]
  /\ UNCHANGED <<store, now, shared, passed, asked>>

Next ==
  \/ Tick
  \/ \E i \in Instances : Restart(i)
  \/ \E c \in Calls : \/ CountShared(c) \/ SharedFails(c) \/ CountLocal(c)
                      \/ \E i \in Instances, q \in Quotas : Ask(c, i, q)

Spec == Init /\ [][Next]_vars
-----------------------------------------------------------------------------
(* Properties.                                                             *)

\* Every counter and record has its type.
TypeOK ==
  /\ store \in {"none", "steady", "flaky"} /\ now \in 0..MaxTime
  /\ shared \in [Quotas -> [Windows -> Nat]] /\ passed \in [Quotas -> [Windows -> Nat]]
  /\ \A i \in Instances : memory[i] \subseteq
       [key : Quotas \X Windows, count : Nat \ {0}, resetAt : Window..(MaxTime + Window)]
  /\ asking \in [Calls -> [at : {"idle", "shared", "local"}, instance : Instances \cup {NoCall},
                           quota : Quotas \cup {NoCall}, time : 0..MaxTime]]
  /\ asked \in 0..MaxAsked /\ resets \in Nat

\* Memories that may have counted requests of one window, one after the other.
Memories == IF store = "steady" THEN 0 ELSE Cardinality(Instances) + resets

\* A quota lets MaxRequests through in a window while the shared store answers; when
\* it does not, or there is none, that many again for each memory that counted, and
\* never more, however requests overlap, windows turn and stores come and go.
QuotaHolds ==
  \A q \in Quotas, w \in Windows :
    passed[q][w] <= MaxRequests * (Memories + IF store = "none" THEN 0 ELSE 1)
=============================================================================
