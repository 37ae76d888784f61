----------------------------- MODULE Admission -----------------------------
(* What stands before every endpoint but /health: verify_api_key, then       *)
(* rate_limit, which counts a client's requests of the present minute in a   *)
(* Redis key.  The five worker processes share the counters; between the     *)
(* reading of the clock, the INCR and the EXPIRE of one request the others   *)
(* go on, and time passes.                                                   *)
EXTENDS Integers, FiniteSets

CONSTANTS
    Requests,
    Presented,      \* Presented[r]: the X-API-Key of r, or NoKey
    NoKey,
    ApiKeys,        \* API_KEYS; empty, authentication is off
    Prefix,         \* Prefix[k]: api_key[:16], and "anonymous" for NoKey
    Limit,          \* RATE_LIMIT_PER_MINUTE
    Window,         \* the sixty seconds, in ticks; also the EXPIRE
    MaxTime,        \* bound on the clock
    Limited,        \* FALSE with NullCacheClient
    Faults          \* whether Redis and workers may fail

ASSUME RequestsAssumption ==
    IsFiniteSet(Requests) /\ Presented \in [Requests -> DOMAIN Prefix]
ASSUME LimitAssumption == Limit \in Nat
ASSUME WindowAssumption == Window \in Nat \ {0} /\ MaxTime \in Nat
ASSUME SwitchAssumption == Limited \in BOOLEAN /\ Faults \in BOOLEAN

VARIABLES
    now,            \* time.time(), and the clock of Redis
    pc,
    window,         \* window[r]: int(time.time()) // 60 as r read it
    counter,        \* Redis: the counters, by <<identifier, window>>
    deadline,       \* Redis: when a counter with a TTL goes
    counted         \* history: counted[r] = when r's INCR was executed, or -1

vars == <<now, pc, window, counter, deadline, counted>>

-----------------------------------------------------------------------------
Identifier(r) == Prefix[Presented[r]]

KeyOf(r) == <<Identifier(r), window[r]>>

Authentic(r) == ApiKeys = {} \/ Presented[r] \in ApiKeys

CurrentWindow == now \div Window

Count(key) == IF key \in DOMAIN counter THEN counter[key] ELSE 0

(* Slip: a key that is not there starts at zero (SETNX without the count).   *)
IncrementButFirst(key) ==
    [k \in DOMAIN counter \cup {key} |->
        IF k = key /\ key \in DOMAIN counter THEN Count(key) + 1 ELSE Count(k)]

Increment(key) ==
    [k \in DOMAIN counter \cup {key} |->
        IF k = key THEN Count(key) + 1 ELSE counter[k]]

(* Slips: off by one on either side.                                         *)
VerdictLax(n) == IF n > Limit + 1 THEN "refused" ELSE "admitted"
VerdictStrict(n) == IF n >= Limit THEN "refused" ELSE "admitted"

Verdict(n) == IF n > Limit THEN "refused" ELSE "admitted"

(* Slip: the count before the INCR is compared.                              *)
SetsTTLAtZero(n) == n = 0

(* EXPIRE goes with the INCR that made the key.                              *)
SetsTTL(n) == n = 1

(* Slip: a TTL a little shorter than the minute.                             *)
ExpiryTooSoon(t) == t + Window - 1

ExpiryOf(t) == t + Window

(* EXPIRE key 60: it acts on a key that is still there.                      *)
AfterExpire(key) ==
    IF key \in DOMAIN counter
    THEN [k \in DOMAIN deadline \cup {key} |->
             IF k = key THEN ExpiryOf(now) ELSE deadline[k]]
    ELSE deadline

(* The counters whose time has not come at t.                                *)
Live(t) ==
    {k \in DOMAIN counter : k \notin DOMAIN deadline \/ t < deadline[k]}

-----------------------------------------------------------------------------
Init ==
    /\ now = 0
    /\ pc = [r \in Requests |-> "idle"]
    /\ window = [r \in Requests |-> 0]
    /\ counter = [k \in {} |-> 0]
    /\ deadline = [k \in {} |-> 0]
    /\ counted = [r \in Requests |-> -1]

(* verify_api_key: 401 without a key, 403 with a wrong one.                  *)
Authenticate(r) ==
    /\ pc[r] = "idle"
    /\ pc' = [pc EXCEPT ![r] = IF Authentic(r) THEN "stamp" ELSE "rejected"]
    /\ UNCHANGED <<now, window, counter, deadline, counted>>

(* rate_limit begins: without Redis there is no limit.                       *)
Stamp(r) ==
    /\ pc[r] = "stamp"
    /\ window' = [window EXCEPT ![r] = CurrentWindow]
    /\ pc' = [pc EXCEPT ![r] = IF Limited THEN "incr" ELSE "unlimited"]
    /\ UNCHANGED <<now, counter, deadline, counted>>

(* INCR: the reply decides, unless an EXPIRE is due first.                   *)
Incr(r) ==
    /\ pc[r] = "incr"
    /\ counter' = Increment(KeyOf(r))
    /\ counted' = [counted EXCEPT ![r] = now]
    /\ LET n == Count(KeyOf(r)) + 1
       IN  pc' = [pc EXCEPT ![r] = IF SetsTTL(n) THEN "expire" ELSE Verdict(n)]
    /\ UNCHANGED <<now, window, deadline>>

(* The request whose INCR made the key sends its EXPIRE.                     *)
Expire(r) ==
    /\ pc[r] = "expire"
    /\ deadline' = AfterExpire(KeyOf(r))
    /\ pc' = [pc EXCEPT ![r] = Verdict(1)]
    /\ UNCHANGED <<now, window, counter, counted>>

(* A Redis command raises before Redis has it: the request goes on unlimited.*)
FailOpen(r) ==
    /\ Faults
    /\ pc[r] \in {"incr", "expire"}
    /\ pc' = [pc EXCEPT ![r] = "unlimited"]
    /\ UNCHANGED <<now, window, counter, deadline, counted>>

(* ... or it was executed and its reply is lost, to a request that goes on   *)
(* unlimited or with the worker process that waited for it.                  *)
LoseReply(r) ==
    /\ Faults
    /\ \/ /\ pc[r] = "incr"
          /\ counter' = Increment(KeyOf(r))
          /\ counted' = [counted EXCEPT ![r] = now]
          /\ UNCHANGED deadline
       \/ /\ pc[r] = "expire"
          /\ deadline' = AfterExpire(KeyOf(r))
          /\ UNCHANGED <<counter, counted>>
    /\ \E x \in {"unlimited", "lost"} : pc' = [pc EXCEPT ![r] = x]
    /\ UNCHANGED <<now, window>>

(* The worker process dies with the request, between its commands.           *)
Die(r) ==
    /\ Faults
    /\ pc[r] \in {"stamp", "incr", "expire"}
    /\ pc' = [pc EXCEPT ![r] = "lost"]
    /\ UNCHANGED <<now, window, counter, deadline, counted>>

(* Time passes, and Redis drops the counters whose time has come.            *)
Tick ==
    /\ now < MaxTime
    /\ now' = now + 1
    /\ counter' = [k \in Live(now + 1) |-> counter[k]]
    /\ deadline' = [k \in DOMAIN deadline \cap Live(now + 1) |-> deadline[k]]
    /\ UNCHANGED <<pc, window, counted>>

Next ==
    \/ Tick
    \/ \E r \in Requests :
          \/ Authenticate(r)
          \/ Stamp(r)
          \/ Incr(r)
          \/ Expire(r)
          \/ FailOpen(r)
          \/ LoseReply(r)
          \/ Die(r)

Spec == Init /\ [][Next]_vars

-----------------------------------------------------------------------------
Final == {"admitted", "refused", "unlimited", "rejected", "lost"}
CounterKeys == {Prefix[k] : k \in DOMAIN Prefix} \X Nat

(* TypeOK: every counter is positive and belongs to an identifier and a      *)
(* minute, and a TTL goes with its counter.                                  *)
TypeOK ==
    /\ now \in 0..MaxTime
    /\ pc \in [Requests -> {"idle", "stamp", "incr", "expire"} \cup Final]
    /\ window \in [Requests -> Nat]
    /\ DOMAIN counter \subseteq CounterKeys
    /\ \A k \in DOMAIN counter : counter[k] \in Nat \ {0}
    /\ DOMAIN deadline \subseteq DOMAIN counter
    /\ \A k \in DOMAIN deadline : deadline[k] \in Nat
    /\ counted \in [Requests -> Nat \cup {-1}]

CountedUnder(key) == {r \in Requests : counted[r] # -1 /\ KeyOf(r) = key}

(* Prompt(r): the INCR of r ran in the minute r had read from the clock.     *)
Prompt(r) == counted[r] # -1 /\ counted[r] \div Window = window[r]

(* CounterIsExact: during a minute, its counter has missed no request,       *)
(* whatever was delayed or failed: no EXPIRE removes it before the minute    *)
(* is over.  (That Redis itself loses its data is not among the faults.)     *)
CounterIsExact ==
    \A id \in {Identifier(r) : r \in Requests} :
        LET key == <<id, CurrentWindow>>
        IN  Count(key) = Cardinality(CountedUnder(key))

(* MinuteBudget: of the requests counted within their minute, no more than   *)
(* the limit are let through on the counter's word.                          *)
MinuteBudget ==
    \A r \in Requests :
        Cardinality({q \in CountedUnder(KeyOf(r)) : pc[q] = "admitted" /\ Prompt(q)}) <= Limit

(* RefusedOnlyOverBudget: a request is refused only when Limit others of its *)
(* identifier were counted before it in the minute it had read.              *)
RefusedOnlyOverBudget ==
    \A r \in Requests : pc[r] = "refused" =>
        Cardinality({q \in CountedUnder(KeyOf(r)) \ {r} : counted[q] <= counted[r]}) >= Limit

(* BurstBound: fixed minutes still bound every sixty seconds: twice the      *)
(* limit, over a minute's end.                                               *)
BurstOf(id, t) ==
    {r \in Requests : /\ Identifier(r) = id
                      /\ pc[r] = "admitted" /\ Prompt(r)
                      /\ t <= counted[r] /\ counted[r] < t + Window}
BurstBound ==
    \A id \in {Identifier(r) : r \in Requests} : \A t \in 0..MaxTime :
        Cardinality(BurstOf(id, t)) <= 2 * Limit

(* LeakOnlyByFailure: a counter without a TTL is about to get one, or a      *)
(* request that it counted has failed; where none fails, none stays.         *)
LeakOnlyByFailure ==
    \A k \in DOMAIN counter \ DOMAIN deadline : \E r \in CountedUnder(k) :
        pc[r] \in {"expire", "unlimited", "lost"}

(* SlidingWindow: no sixty seconds admit more than the limit, as the         *)
(* docstring of rate_limit ("sliding window") has it.                        *)
SlidingWindow ==
    \A id \in {Identifier(r) : r \in Requests} : \A t \in 0..MaxTime :
        Cardinality(BurstOf(id, t)) <= Limit
=============================================================================
