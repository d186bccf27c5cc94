----------------------------- MODULE Admission -----------------------------
(***************************************************************************)
(* The limiters that threads ask before a job and tell after it:           *)
(*   ConcurrencyManager (scheduler/concurrency.py), asked by Dispatcher;   *)
(*   FairShareScheduler (broker/fairshare.py), whose lock protects the     *)
(*     table of quotas and not the counters in them;                       *)
(*   CapacityEnforcer (broker/capacity.py), one lock section per call.     *)
(* Where there is no lock a thread may be switched at each call it makes   *)
(* (x += 1 on an attribute makes none; d[k] = d.get(k, 0) + 1 does), so a  *)
(* check, a read and a write are steps of their own.                       *)
(*                                                                         *)
(* A thread brackets each job by one limiter and is well behaved: it gives *)
(* back what it was granted, once.                                         *)
(***************************************************************************)
EXTENDS Integers, FiniteSets, Sequences

CONSTANTS
  Threads,
  Types, TypeMax, OtherMax,      \* ConcurrencyLimits: per type; global, tenant, user
  Tenants, TenantMax, RateMax,   \* TenantQuota of each: max_concurrent, max_per_minute
  Weight,                        \* TenantQuota.weight of each, in hundredths
  MaxCandidates,                 \* bound on the list of next_eligible_tenant
  Minute,                        \* 60 seconds
  MaxTime,                       \* bound on the monotonic clock
  Resources, Total, Needs,       \* CapacityEnforcer: totals, possible requirements
  MaxResets,                     \* bound on register_tenant, and register_resource again
  None

\* Limits are numbers and the counters' names differ.  A tenant's limits are
\* those it is registered with or, if it never is, the scheduler's defaults;
\* with a default of zero, on jobs at once or per minute, next_eligible_tenant
\* would still pick a tenant that has no quota yet.
ASSUME AdmissionAssumption ==
  /\ IsFiniteSet(Threads)
  /\ None \notin Types \cup Tenants
  /\ Types \cap {"global", "tenant", "user"} = {}
  /\ Tenants \cap (Types \cup {"global", "tenant", "user"}) = {}
  /\ TypeMax \in Nat /\ OtherMax \in Nat
  /\ TenantMax \in [Tenants -> Nat \ {0}] /\ RateMax \in [Tenants -> Nat \ {0}]
  /\ Minute \in Nat /\ MaxTime \in Nat
  /\ Weight \in [Tenants -> Int] /\ MaxCandidates \in Nat
  /\ Total \in [Resources -> Nat] /\ Needs \subseteq [Resources -> Nat]

VARIABLES
  time,
  counter,   \* ConcurrencyManager: _global and the entries of the three dicts
  quota,     \* _tenants: active_count, window start, count; known is FALSE without
  registered, taken,   \* CapacityEnforcer: the slots, and what is used of each
  step, job, val,   \* of each thread: its step, what it asked for, what it read
  submits,   \* history: record_submit calls of each tenant at each time, as
             \* long as none is lost or crowded
  resets,
  lost,      \* history: counters that were written between another thread's
             \* read and write of them, and tenants and resources that were
             \* registered again while in use
  crowded    \* history: "concurrency", and tenants, that two threads asked for
             \* admission at the same time

admissionVars == <<time, counter, quota, registered, taken, step, job, val, submits, resets, lost, crowded>>

Counters == Types \cup {"global", "tenant", "user"}
CounterMax(k) == IF k \in Types THEN TypeMax ELSE OtherMax
NewQuota == [known |-> TRUE, active |-> 0, start |-> time, count |-> 0]

Unsubmitted == [x \in Tenants |-> [n \in 0..MaxTime |-> 0]]

\* The steps of a thread: <<limiter, call, number of the counter>>.
Out == <<"none", "out", 0>>
Held(l) == {t \in Threads : step[t] = <<l, "held", 0>>}
Asking(t, l) == step[t][1] = l /\ step[t][2] \in {"add", "put", "window", "record"}

\* ConcurrencyManager: Dispatcher names the type only, tenant and user are
\* "default" for every job.
Dims(t) == <<"global", job[t], "tenant", "user">>
HasRead(t, k) == \/ step[t][1] = "concurrency" /\ step[t][2] \in {"put", "less"} /\ Dims(t)[step[t][3]] = k
                 \/ step[t] = <<"fair", "less", 0>> /\ job[t] = k

AdmissionTypeOK ==
  /\ time \in 0..MaxTime
  /\ counter \in [Counters -> Nat]
  /\ \A x \in Tenants : quota[x].active \in Nat /\ quota[x].count \in Nat /\ quota[x].start <= time
  /\ registered \subseteq Resources
  /\ taken \in [Resources -> Nat] /\ \A r \in Resources : taken[r] <= Total[r]
  /\ \A r \in Resources \ registered : taken[r] = 0
  /\ lost \subseteq Counters \cup Tenants \cup Resources /\ crowded \subseteq {"concurrency"} \cup Tenants
  /\ \A t \in Threads : step[t][1] = "concurrency" => job[t] \in Types

AdmissionInit ==
  /\ time = 0
  /\ counter = [k \in Counters |-> 0]
  /\ quota = [x \in Tenants |-> [known |-> FALSE, active |-> 0, start |-> 0, count |-> 0]]
  /\ registered = {} /\ taken = [r \in Resources |-> 0]
  /\ step = [t \in Threads |-> Out]
  /\ job = [t \in Threads |-> None]
  /\ val = [t \in Threads |-> 0]
  /\ submits = Unsubmitted
  /\ resets = 0 /\ lost = {} /\ crowded = {}

\* History: t writes a counter that others have read and not written yet; t
\* asks while others have asked and not been counted yet.
Writes(t, k) == lost' = IF \E u \in Threads \ {t} : HasRead(u, k) THEN lost \cup {k} ELSE lost
Asks(t, l, x) == crowded' = IF \E u \in Threads \ {t} : Asking(u, l) /\ (l = "fair" => job[u] = x)
                            THEN crowded \cup {IF l = "fair" THEN x ELSE l} ELSE crowded
To(t, l, call, i) == step' = [step EXCEPT ![t] = <<l, call, i>>]
Read(t, n) == val' = [val EXCEPT ![t] = n]
Leave(t) == step' = [step EXCEPT ![t] = Out] /\ job' = [job EXCEPT ![t] = None]
Less1(n) == IF n > 0 THEN n - 1 ELSE 0     \* max(0, n - 1)

TimePasses == /\ time < MaxTime /\ time' = time + 1
              /\ UNCHANGED <<counter, quota, registered, taken, step, job, val, submits, resets, lost, crowded>>
-----------------------------------------------------------------------------
\* ConcurrencyManager.
others == <<time, quota, registered, taken, submits, resets>>

\* can_acquire without the dimension of the type.
CanAcquireAnyType(ty) == \A k \in {"global", "tenant", "user"} : counter[k] < CounterMax(k)

CanAcquire(ty) == \A k \in {"global", ty, "tenant", "user"} : counter[k] < CounterMax(k)

ConcurrencyCheck(t, ty) ==
  /\ step[t] = Out
  /\ CanAcquire(ty)
  /\ job' = [job EXCEPT ![t] = ty]
  /\ To(t, "concurrency", "add", 1)
  /\ Asks(t, "concurrency", ty)
  /\ UNCHANGED <<counter, val, lost, others>>

\* _global += 1 is one step; an entry of a dict is read, then written.
ConcurrencyAdd(t) == LET i == step[t][3]  k == Dims(t)[i] IN
  /\ step[t][1] = "concurrency" /\ step[t][2] = "add"
  /\ \/ /\ i = 1
        /\ counter' = [counter EXCEPT ![k] = @ + 1]
        /\ To(t, "concurrency", "add", 2) /\ Writes(t, k) /\ UNCHANGED val
     \/ /\ i > 1
        /\ Read(t, counter[k])
        /\ To(t, "concurrency", "put", i) /\ UNCHANGED <<counter, lost>>
  /\ UNCHANGED <<job, crowded, others>>

ConcurrencyPut(t) == LET i == step[t][3] IN
  /\ step[t][1] = "concurrency" /\ step[t][2] = "put"
  /\ counter' = [counter EXCEPT ![Dims(t)[i]] = val[t] + 1]
  /\ Read(t, 0)
  /\ IF i < 4 THEN To(t, "concurrency", "add", i + 1) ELSE To(t, "concurrency", "held", 0)
  /\ Writes(t, Dims(t)[i])
  /\ UNCHANGED <<job, crowded, others>>

\* release that leaves _global as it is.
ConcurrencyReadDicts(t) == LET i == IF t \in Held("concurrency") THEN 2 ELSE step[t][3] IN
  /\ t \in Held("concurrency") \/ (step[t][1] = "concurrency" /\ step[t][2] = "sub")
  /\ Read(t, counter[Dims(t)[i]])
  /\ To(t, "concurrency", "less", i)
  /\ UNCHANGED <<counter, job, lost, crowded, others>>

\* release: each counter is read, then written.
ConcurrencyRead(t) == LET i == IF t \in Held("concurrency") THEN 1 ELSE step[t][3] IN
  /\ t \in Held("concurrency") \/ (step[t][1] = "concurrency" /\ step[t][2] = "sub")
  /\ Read(t, counter[Dims(t)[i]])
  /\ To(t, "concurrency", "less", i)
  /\ UNCHANGED <<counter, job, lost, crowded, others>>

ConcurrencyLess(t) == LET i == step[t][3] IN
  /\ step[t][1] = "concurrency" /\ step[t][2] = "less"
  /\ counter' = [counter EXCEPT ![Dims(t)[i]] = Less1(val[t])]
  /\ Read(t, 0)
  /\ IF i < 4 THEN To(t, "concurrency", "sub", i + 1) /\ UNCHANGED job ELSE Leave(t)
  /\ Writes(t, Dims(t)[i])
  /\ UNCHANGED <<crowded, others>>
-----------------------------------------------------------------------------
\* FairShareScheduler.
Known(x) == IF quota[x].known THEN quota[x] ELSE NewQuota   \* get_quota

\* The window is counted anew but begins when it did.
RolledInPlace(q) == IF time - q.start >= Minute THEN [q EXCEPT !.count = 0] ELSE q

\* can_submit's second half: a new window, when the old one has lasted a minute.
Rolled(q) == IF time - q.start >= Minute THEN [q EXCEPT !.start = time, !.count = 0] ELSE q

FairActive(t, x) ==
  /\ step[t] = Out
  /\ Known(x).active < TenantMax[x]
  /\ quota' = [quota EXCEPT ![x] = Known(x)]
  /\ job' = [job EXCEPT ![t] = x]
  /\ To(t, "fair", "window", 0) /\ Asks(t, "fair", x)
  /\ UNCHANGED <<time, counter, registered, taken, val, submits, resets, lost>>

FairWindow(t) == LET q == Rolled(quota[job[t]]) IN
  /\ step[t] = <<"fair", "window", 0>>
  /\ quota' = [quota EXCEPT ![job[t]] = q]
  /\ IF q.count < RateMax[job[t]] THEN To(t, "fair", "record", 0) /\ UNCHANGED job ELSE Leave(t)
  /\ UNCHANGED <<time, counter, registered, taken, val, submits, resets, lost, crowded>>

FairRecordSubmit(t) == LET x == job[t] IN
  /\ step[t] = <<"fair", "record", 0>>
  /\ quota' = [quota EXCEPT ![x] = [Known(x) EXCEPT !.active = @ + 1, !.count = @ + 1]]
  /\ To(t, "fair", "held", 0) /\ Writes(t, x)
  /\ submits' = IF x \in lost \cup crowded THEN submits ELSE [submits EXCEPT ![x][time] = @ + 1]
  /\ UNCHANGED <<time, counter, registered, taken, job, val, resets, crowded>>

\* record_complete: max(0, active_count - 1) is computed, then stored.
FairRead(t) ==
  /\ t \in Held("fair")
  /\ Read(t, quota[job[t]].active)
  /\ To(t, "fair", "less", 0)
  /\ UNCHANGED <<time, counter, quota, registered, taken, job, submits, resets, lost, crowded>>

FairComplete(t) == LET x == job[t] IN
  /\ step[t] = <<"fair", "less", 0>>
  /\ quota' = [quota EXCEPT ![x].active = Less1(val[t])]
  /\ Read(t, 0) /\ Leave(t) /\ Writes(t, x)
  /\ UNCHANGED <<time, counter, registered, taken, submits, resets, crowded>>

\* register_tenant puts a new object, with its counters at zero, in the place
\* of the old one.
RegisterTenant(x) ==
  /\ resets < MaxResets /\ resets' = resets + 1
  /\ quota' = [quota EXCEPT ![x] = NewQuota]
  /\ lost' = IF quota[x].known THEN lost \cup {x} ELSE lost
  /\ UNCHANGED <<time, counter, registered, taken, step, job, val, submits, crowded>>

\* next_eligible_tenant, as the index of its answer in candidates (0: None).
\* best[i] is the loop's state after i candidates; an unknown one ends it.
CanSubmit(x) == quota[x].active < TenantMax[x] /\ Rolled(quota[x]).count < RateMax[x]

Share(x) == IF Weight[x] > 1 THEN Weight[x] ELSE 1   \* max(weight, 0.01)

\* The ratio the wrong way round: a large weight counts against the tenant.
LowerRatioInverted(x, y) == quota[x].active * Share(x) < quota[y].active * Share(y)

LowerRatio(x, y) == quota[x].active * Share(y) < quota[y].active * Share(x)

NextEligible(cand) ==
  LET best[i \in 0..Len(cand)] ==
        IF i = 0 THEN 0
        ELSE LET b == best[i - 1]  x == cand[i] IN
             IF b # 0 /\ ~quota[cand[b]].known THEN b
             ELSE IF ~quota[x].known THEN i
             ELSE IF CanSubmit(x) /\ (b = 0 \/ LowerRatio(x, cand[b])) THEN i ELSE b
  IN best[Len(cand)]

\* The call, under the lock: can_submit begins a new window for the candidates
\* it is asked about, those before the first unknown one.
Candidates == UNION {[1..n -> Tenants] : n \in 0..MaxCandidates}
PickTenant(t, cand) == LET i == NextEligible(cand) IN
  /\ step[t] = Out
  /\ quota' = [x \in Tenants |->
       IF /\ quota[x].active < TenantMax[x]
          /\ \E k \in DOMAIN cand : cand[k] = x /\ \A h \in 1..k : quota[cand[h]].known
       THEN Rolled(quota[x]) ELSE quota[x]]
  /\ IF i = 0 THEN UNCHANGED <<step, job, crowded>>
     ELSE /\ job' = [job EXCEPT ![t] = cand[i]]
          /\ To(t, "fair", "record", 0) /\ Asks(t, "fair", cand[i])
  /\ UNCHANGED <<time, counter, registered, taken, val, submits, resets, lost>>
-----------------------------------------------------------------------------
\* CapacityEnforcer: the whole of a call is one lock section.
Available(r) == IF taken[r] < Total[r] THEN Total[r] - taken[r] ELSE 0

\* try_acquire that is satisfied with one sufficient resource.
FitsSome(need) == \E r \in registered : need[r] > 0 /\ need[r] <= Available(r)

\* A requirement names the resources of which it wants some.
Fits(need) == \A r \in Resources : need[r] > 0 => r \in registered /\ need[r] <= Available(r)

\* ResourceSlot.acquire tests again, and its answer is not looked at.
CapacityTryAcquire(t, need) ==
  /\ step[t] = Out
  /\ Fits(need)
  /\ taken' = [r \in Resources |-> IF taken[r] + need[r] > Total[r] THEN taken[r] ELSE taken[r] + need[r]]
  /\ job' = [job EXCEPT ![t] = need]
  /\ To(t, "capacity", "held", 0)
  /\ UNCHANGED <<time, counter, quota, registered, val, submits, resets, lost, crowded>>

CapacityRelease(t) ==
  /\ t \in Held("capacity")
  /\ taken' = [r \in Resources |-> IF taken[r] > job[t][r] THEN taken[r] - job[t][r] ELSE 0]
  /\ Leave(t)
  /\ UNCHANGED <<time, counter, quota, registered, val, submits, resets, lost, crowded>>

\* register_resource puts a new slot, with nothing used, in the place of the
\* old one if there is one.
RegisterResource(r) ==
  /\ r \in registered => resets < MaxResets
  /\ resets' = IF r \in registered THEN resets + 1 ELSE resets
  /\ registered' = registered \cup {r}
  /\ taken' = [taken EXCEPT ![r] = 0]
  /\ lost' = IF taken[r] > 0 THEN lost \cup {r} ELSE lost
  /\ UNCHANGED <<time, counter, quota, step, job, val, submits, crowded>>

ConcurrencyNext ==
  \E t \in Threads : \/ ConcurrencyAdd(t) \/ ConcurrencyPut(t)
                     \/ ConcurrencyRead(t) \/ ConcurrencyLess(t)
                     \/ \E ty \in Types : ConcurrencyCheck(t, ty)

FairNext ==
  \/ \E t \in Threads : \/ FairWindow(t) \/ FairRecordSubmit(t) \/ FairRead(t) \/ FairComplete(t)
                        \/ \E x \in Tenants : FairActive(t, x)
                        \/ \E cand \in Candidates : PickTenant(t, cand)
  \/ \E x \in Tenants : RegisterTenant(x)
  \/ TimePasses

CapacityNext ==
  \/ \E t \in Threads : CapacityRelease(t) \/ \E need \in Needs : CapacityTryAcquire(t, need)
  \/ \E r \in Resources : RegisterResource(r)

AdmissionNext == ConcurrencyNext \/ FairNext \/ CapacityNext
AdmissionSpec == AdmissionInit /\ [][AdmissionNext]_admissionVars
-----------------------------------------------------------------------------
\* Properties.

\* t has been added to counter k and not subtracted yet.
Counted(t, k) ==
  \/ /\ step[t][1] = "concurrency"
     /\ \E i \in 1..4 : /\ Dims(t)[i] = k
                        /\ CASE step[t][2] \in {"add", "put"} -> i < step[t][3]
                             [] step[t][2] \in {"sub", "less"} -> i >= step[t][3]
                             [] step[t][2] = "held" -> TRUE
  \/ step[t][1] = "fair" /\ step[t][2] \in {"held", "less"} /\ job[t] = k

\* The counters that nothing locks count the jobs they are for at every
\* moment, except one that was written between another thread's read and
\* write; the atomic += of _global is lost on a concurrent release only.
CountersExact ==
  \A k \in (Counters \cup Tenants) \ lost :
    (IF k \in Tenants THEN quota[k].active ELSE counter[k]) = Cardinality({t \in Threads : Counted(t, k)})

\* No more jobs run than the limits allow, in every order of acquiring and
\* releasing, unless two threads passed a check before either was counted or
\* an update of a count was lost.
LimitsKept ==
  /\ "concurrency" \notin crowded /\ lost \cap Counters = {} =>
       \A k \in Counters : counter[k] <= CounterMax(k)
  /\ \A x \in Tenants \ (lost \cup crowded) :
       Cardinality({t \in Held("fair") : job[t] = x}) <= TenantMax[x]

\* The submissions of x that were recorded at a, a + 1, ..., b - 1.
SubmitsIn(x, a, b) == UNION {{n} \X (1..submits[x][n]) : n \in {m \in 0..MaxTime : a <= m /\ m < b}}

\* However the windows fall, a tenant submits at most twice max_per_minute in
\* any minute, unless it was admitted to two threads at once or its quota was
\* replaced.
RateBound ==
  \A x \in Tenants \ (lost \cup crowded) : \A n \in 0..MaxTime :
    Cardinality(SubmitsIn(x, n, n + Minute)) <= 2 * RateMax[x]

\* The units of r that the threads hold, each named by its holder and a number.
Units(r) == UNION {{t} \X (1..job[t][r]) : t \in Held("capacity")}

\* CapacityEnforcer "prevents oversubscription": what is used of a resource is
\* exactly the sum of what its holders asked for, and no more than there is,
\* however many threads call it, unless the resource is registered again while
\* some of it is held.
CapacityKept ==
  \A r \in Resources \ lost : taken[r] = Cardinality(Units(r)) /\ taken[r] <= Total[r]

\* The tenant that is picked may submit, and nobody who may is served less for
\* its weight; a candidate without a quota comes before all others.
PickIsFair ==
  \A cand \in Candidates :
    LET i == NextEligible(cand)  may == {k \in DOMAIN cand : CanSubmit(cand[k])}
        new == {k \in DOMAIN cand : ~quota[cand[k]].known}
    IN IF new # {} THEN i \in new
       ELSE IF may = {} THEN i = 0
       ELSE i \in may /\ \A k \in may : LET x == cand[i]  y == cand[k] IN
                            quota[x].active * Share(y) <= quota[y].active * Share(x)
=============================================================================
