--------------------------- MODULE Coverage_proof ---------------------------
(***************************************************************************)
(* Proofs about the coverage coordinator, for any threads, indexes and     *)
(* batches: one owner per running attempt, values kept for exactly those   *)
(* that wait for them, and no waiter that finds its value gone before      *)
(* something failed.                                                       *)
(***************************************************************************)
EXTENDS Coverage, FiniteSetTheorems, SequenceTheorems, TLAPS

\* A claim_batch has the monitor from the check of the error to its last claim, and
\* waits for none of its leases before.
ClaimsAreAlone ==
    \A t \in Threads : pc[t] = "claim" => monitor = t /\ error = None /\ at[t] = 1

\* The leases of a thread are those of the batch it works on or waits for.
LeasesAreWork ==
    \A t \in Threads : /\ at[t] >= 1
                       /\ pc[t] \notin {"claim", "hold"} => leases[t] = <<>>

\* What a lease says of its attempt, and what its thread has done with it: it owes
\* nothing for the leases whose wait has ended.
LeasesAreExact ==
    \A p \in Taken :
        /\ LeaseOf(p).attempt # None =>
              /\ LeaseOf(p).attempt <= created
              /\ att[LeaseOf(p).attempt].index = LeaseOf(p).index
        /\ LeaseOf(p).attempt = None => ~require[p[1]]
        /\ LeaseOf(p).open => LeaseOf(p).attempt # None /\ ~LeaseOf(p).local
        /\ p[2] < at[p[1]] /\ require[p[1]] => LeaseOf(p).local

\* The attempts in flight are those that run, each with one lease to complete it.
InflightRuns ==
    /\ \A a \in 1 .. created : att[a].status = "running" <=> inflight[att[a].index] = a
    /\ \A i \in Indexes : inflight[i] # None =>
          /\ inflight[i] <= created /\ att[inflight[i]].index = i
          /\ available[i] = None
          /\ \E p \in Taken : OpenLeases(inflight[i]) = {p}

\* A lease that lost its attempt lost it to an abort, which took every attempt.
LossIsTotal ==
    \A p \in Taken :
        LeaseOf(p).open /\ ~StillOwner(LeaseOf(p)) =>
            error # None /\ \A i \in Indexes : inflight[i] = None

\* A value that is available belongs to a completed attempt of a covered index.
AvailableIsDone ==
    \A i \in Indexes : available[i] # None =>
        /\ available[i] <= created /\ att[available[i]].index = i
        /\ att[available[i]].status = "completed" /\ i \in completed

\* value_waiters counts at least the leases that still want the value; it is their
\* number until something fails.
WaitersAreCounted ==
    \A a \in 1 .. created :
        /\ IsFiniteSet(Owed(a))
        /\ att[a].status = "failed" => error # None
        /\ att[a].status # "failed" => Cardinality(Owed(a)) <= att[a].waiters
        /\ att[a].value => att[a].status = "completed"

\* The parts that are about the attempts and their leases.
AttemptsInv ==
    /\ active = Cardinality(InFlight)
    /\ LeasesAreExact
    /\ InflightRuns
    /\ LossIsTotal
    /\ AvailableIsDone
    /\ WaitersAreCounted
    /\ ValuesAreOwed

CoverInv ==
    /\ TypeOK
    /\ ClaimsAreAlone
    /\ LeasesAreWork
    /\ AttemptsInv
    /\ NoLostValue

-----------------------------------------------------------------------------
\* How the leases change in a step.
Appended(t, l) == leases' = [leases EXCEPT ![t] = Append(@, l)]
Updated(t, k, l) == leases' = [leases EXCEPT ![t][k] = l]
Dropped(t) == leases' = [leases EXCEPT ![t] = <<>>]

LEMMA TakenIs ==
    /\ \A t \in Threads : \A k \in DOMAIN leases[t] : <<t, k>> \in Taken
    /\ \A p \in Taken : /\ p[1] \in Threads /\ p[2] \in DOMAIN leases[p[1]]
                        /\ p = <<p[1], p[2]>>
BY DEF Taken

LEMMA TakenIsNext ==
    /\ \A t \in Threads : \A k \in DOMAIN leases'[t] : <<t, k>> \in Taken'
    /\ \A p \in Taken' : /\ p[1] \in Threads /\ p[2] \in DOMAIN leases'[p[1]]
                         /\ p = <<p[1], p[2]>>
BY DEF Taken

LEMMA LeaseTypes ==
    ASSUME TypeOK
    PROVE  /\ \A t \in Threads : /\ Len(leases[t]) \in Nat
                                 /\ DOMAIN leases[t] = 1 .. Len(leases[t])
           /\ \A p \in Taken : LeaseOf(p) \in Lease /\ p[2] \in Nat \ {0}
<1>1. ASSUME NEW t \in Threads
      PROVE  /\ Len(leases[t]) \in Nat /\ DOMAIN leases[t] = 1 .. Len(leases[t])
             /\ \A k \in DOMAIN leases[t] : leases[t][k] \in Lease
    <2>1. leases[t] \in Seq(Lease)
        BY DEF TypeOK
    <2> QED BY <2>1, LenProperties, ElementOfSeq
<1> QED BY <1>1, TakenIs DEF LeaseOf

\* Take: one lease more, the others as they were.
LEMMA AppendedLeases ==
    ASSUME TypeOK, NEW t \in Threads, NEW l \in Lease, Appended(t, l)
    PROVE  /\ leases' \in [Threads -> Seq(Lease)]
           /\ \E q : /\ q \notin Taken /\ Taken' = Taken \cup {q}
                     /\ q[1] = t /\ q[2] = Len(leases[t]) + 1 /\ LeaseOf(q)' = l
           /\ \A p \in Taken : LeaseOf(p)' = LeaseOf(p)
<1>0. Len(leases[t]) \in Nat
    BY LeaseTypes
<1>n. PICK n \in Nat : n = Len(leases[t]) + 1
    BY <1>0
<1>p. \E z : z = <<t, n>>
    OBVIOUS
<1>q. PICK q : q = <<t, n>> /\ q[1] = t /\ q[2] = n
    BY <1>p
<1>1. leases[t] \in Seq(Lease) /\ leases'[t] = Append(leases[t], l)
    BY DEF TypeOK, Appended
<1>2. /\ leases'[t] \in Seq(Lease) /\ Len(leases'[t]) = n
      /\ \A k \in 1 .. Len(leases[t]) : leases'[t][k] = leases[t][k]
      /\ leases'[t][n] = l
      /\ Len(leases[t]) \in Nat /\ DOMAIN leases[t] = 1 .. Len(leases[t])
      /\ DOMAIN leases'[t] = 1 .. n
    BY <1>n, <1>1, AppendProperties, LenProperties
<1>3. \A u \in Threads : u # t => leases'[u] = leases[u]
    BY DEF TypeOK, Appended
<1>4. leases' \in [Threads -> Seq(Lease)]
    BY <1>2, <1>3 DEF TypeOK, Appended
<1>5. q \notin Taken
    BY <1>n, <1>q, <1>2, TakenIs
<1>6. \A p \in Taken : LeaseOf(p)' = LeaseOf(p) /\ p \in Taken'
    <2> SUFFICES ASSUME NEW p \in Taken PROVE LeaseOf(p)' = LeaseOf(p) /\ p \in Taken'
        OBVIOUS
    <2>1. p[1] \in Threads /\ p[2] \in DOMAIN leases[p[1]] /\ p = <<p[1], p[2]>>
        BY TakenIs
    <2>2. p[2] \in DOMAIN leases'[p[1]] /\ leases'[p[1]][p[2]] = leases[p[1]][p[2]]
        BY <1>n, <1>2, <1>3, <2>1
    <2>3. <<p[1], p[2]>> \in Taken'
        BY <2>1, <2>2, TakenIsNext
    <2> QED BY <2>1, <2>2, <2>3 DEF LeaseOf
<1>7. q \in Taken' /\ LeaseOf(q)' = l
    <2>1. n \in DOMAIN leases'[t]
        BY <1>n, <1>2
    <2>2. q \in Taken'
        BY <1>q, <2>1, TakenIsNext
    <2> QED BY <1>q, <1>2, <2>2 DEF LeaseOf
<1>8. ASSUME NEW p \in Taken' PROVE p \in Taken \cup {q}
    <2>1. p[1] \in Threads /\ p[2] \in DOMAIN leases'[p[1]] /\ p = <<p[1], p[2]>>
        BY TakenIsNext
    <2>2. CASE p[1] = t /\ p[2] = n
        BY <1>q, <2>1, <2>2
    <2>3. CASE ~(p[1] = t /\ p[2] = n)
        <3>1. p[2] \in DOMAIN leases[p[1]]
            BY <1>n, <1>2, <1>3, <2>1, <2>3
        <3>2. <<p[1], p[2]>> \in Taken
            BY <2>1, <3>1, TakenIs
        <3> QED BY <2>1, <3>2
    <2> QED BY <2>2, <2>3
<1> QED BY <1>n, <1>q, <1>4, <1>5, <1>6, <1>7, <1>8

\* complete, fail and the wait change one lease.
LEMMA UpdatedLeases ==
    ASSUME TypeOK, NEW t \in Threads, NEW k \in DOMAIN leases[t], NEW l \in Lease,
           Updated(t, k, l)
    PROVE  /\ leases' \in [Threads -> Seq(Lease)]
           /\ Taken' = Taken /\ <<t, k>> \in Taken /\ LeaseOf(<<t, k>>)' = l
           /\ \A p \in Taken : p # <<t, k>> => LeaseOf(p)' = LeaseOf(p)
<1>1. leases[t] \in Seq(Lease) /\ leases'[t] = [leases[t] EXCEPT ![k] = l]
    BY DEF TypeOK, Updated
<1>2. /\ leases'[t] \in Seq(Lease) /\ DOMAIN leases'[t] = DOMAIN leases[t]
      /\ \A j \in DOMAIN leases[t] : leases'[t][j] = IF j = k THEN l ELSE leases[t][j]
    BY <1>1, ExceptSeq, LenProperties
<1>3. \A u \in Threads : u # t => leases'[u] = leases[u]
    BY DEF TypeOK, Updated
<1>4. leases' \in [Threads -> Seq(Lease)]
    BY <1>2, <1>3 DEF TypeOK, Updated
<1>5. Taken' = Taken /\ <<t, k>> \in Taken
    <2>1. \A u \in Threads : DOMAIN leases'[u] = DOMAIN leases[u]
        BY <1>2, <1>3
    <2>2. Taken' = Taken
        BY <2>1 DEF Taken
    <2> QED BY <2>2, TakenIs
<1>6. LeaseOf(<<t, k>>)' = l
    BY <1>2 DEF LeaseOf
<1>7. \A p \in Taken : p # <<t, k>> => LeaseOf(p)' = LeaseOf(p)
    BY <1>2, <1>3, TakenIs DEF LeaseOf
<1> QED BY <1>4, <1>5, <1>6, <1>7

\* A batch that ends drops its leases.
LEMMA DroppedLeases ==
    ASSUME TypeOK, NEW t \in Threads, Dropped(t)
    PROVE  /\ leases' \in [Threads -> Seq(Lease)]
           /\ Taken' = {p \in Taken : p[1] # t}
           /\ \A p \in Taken' : LeaseOf(p)' = LeaseOf(p)
<1>1. /\ leases'[t] = <<>> /\ \A u \in Threads : u # t => leases'[u] = leases[u]
      /\ leases' \in [Threads -> Seq(Lease)]
    BY EmptySeq DEF TypeOK, Dropped
<1>2. DOMAIN <<>> = {}
    OBVIOUS
<1>3. Taken' = {p \in Taken : p[1] # t}
    <2>1. ASSUME NEW p \in Taken' PROVE p \in Taken /\ p[1] # t
        <3>1. p[1] \in Threads /\ p[2] \in DOMAIN leases'[p[1]] /\ p = <<p[1], p[2]>>
            BY TakenIsNext
        <3>2. p[1] # t /\ p[2] \in DOMAIN leases[p[1]]
            BY <1>1, <1>2, <3>1
        <3>3. <<p[1], p[2]>> \in Taken
            BY <3>1, <3>2, TakenIs
        <3> QED BY <3>1, <3>2, <3>3
    <2>2. ASSUME NEW p \in Taken, p[1] # t PROVE p \in Taken'
        <3>1. p[1] \in Threads /\ p[2] \in DOMAIN leases'[p[1]] /\ p = <<p[1], p[2]>>
            BY <1>1, <2>2, TakenIs
        <3>2. <<p[1], p[2]>> \in Taken'
            BY <3>1, TakenIsNext
        <3> QED BY <3>1, <3>2
    <2> QED BY <2>1, <2>2
<1>4. \A p \in Taken' : leases'[p[1]] = leases[p[1]]
    BY <1>1, <1>3, TakenIs
<1> QED BY <1>1, <1>3, <1>4 DEF LeaseOf

-----------------------------------------------------------------------------
\* How the attempts change: one of them, but for the claim of a new one and abort.
AttSet(a, status, value, waiters) ==
    /\ created' = created /\ att' \in [1 .. created -> Attempt]
    /\ \A b \in 1 .. created : b # a => att'[b] = att[b]
    /\ att'[a].index = att[a].index
    /\ att'[a].status = status /\ att'[a].value = value /\ att'[a].waiters = waiters

LEMMA AttemptFields ==
    ASSUME NEW r \in Attempt
    PROVE  /\ r.index \in Indexes /\ r.status \in {"running", "completed", "failed"}
           /\ r.value \in BOOLEAN /\ r.waiters \in Nat
BY DEF Attempt

LEMMA AttemptTypes ==
    ASSUME TypeOK
    PROVE  /\ \A a \in 1 .. created :
                 /\ att[a] \in Attempt
                 /\ att[a].index \in Indexes
                 /\ att[a].status \in {"running", "completed", "failed"}
                 /\ att[a].value \in BOOLEAN /\ att[a].waiters \in Nat
           /\ created \in Nat /\ 1 .. created \subseteq Attempts
           /\ DOMAIN att = 1 .. created
<1>1. \A a \in 1 .. created : att[a] \in Attempt
    BY DEF TypeOK
<1>2. /\ created \in Nat /\ 1 .. created \subseteq Attempts
      /\ DOMAIN att = 1 .. created
    BY LimitsAssumption DEF TypeOK, Attempts
<1> QED BY <1>1, <1>2, AttemptFields

LEMMA RecordsOfAttempts ==
    ASSUME NEW r \in Attempt
    PROVE  /\ Finished(r) \in Attempt
           /\ Finished(r).index = r.index /\ Finished(r).status = "completed"
           /\ Finished(r).value = (r.waiters # 0) /\ Finished(r).waiters = r.waiters
           /\ \A c \in Attempts \cup {None, Aborted} :
                 /\ Failed(r, c) \in Attempt
                 /\ Failed(r, c).index = r.index /\ Failed(r, c).status = "failed"
                 /\ Failed(r, c).value = r.value /\ Failed(r, c).waiters = r.waiters
                 /\ Abandoned(r, c) \in Attempt
                 /\ Abandoned(r, c).index = r.index /\ Abandoned(r, c).status = "failed"
                 /\ ~Abandoned(r, c).value /\ Abandoned(r, c).waiters = r.waiters
BY DEF Finished, Failed, Abandoned, Attempt

LEMMA WaiterAdded ==
    ASSUME TypeOK, NEW a \in 1 .. created, AddValueWaiter(a), created' = created
    PROVE  AttSet(a, att[a].status, att[a].value, att[a].waiters + 1)
<1>1. att[a] \in Attempt /\ att \in [1 .. created -> Attempt]
    BY DEF TypeOK
<1>2. att' = [att EXCEPT ![a].waiters = @ + 1]
    BY DEF AddValueWaiter
<1>3. att' \in [1 .. created -> Attempt]
    BY <1>1, <1>2 DEF Attempt
<1>4. /\ \A b \in 1 .. created : b # a => att'[b] = att[b]
      /\ att'[a] = [att[a] EXCEPT !.waiters = att[a].waiters + 1]
    BY <1>1, <1>2
<1>5. /\ att'[a].index = att[a].index /\ att'[a].status = att[a].status
      /\ att'[a].value = att[a].value /\ att'[a].waiters = att[a].waiters + 1
    BY <1>1, <1>4 DEF Attempt
<1> QED BY <1>3, <1>4, <1>5 DEF AttSet

\* One attempt is set to a record that differs in its state only.
LEMMA AttemptIsSet ==
    ASSUME TypeOK, NEW a \in 1 .. created, NEW r \in Attempt, r.index = att[a].index,
           att' = [att EXCEPT ![a] = r], created' = created
    PROVE  AttSet(a, r.status, r.value, r.waiters)
BY DEF TypeOK, AttSet

\* An open lease that still owns its attempt.
LEMMA OwnerFacts ==
    ASSUME CoverInv, NEW t \in Threads, NEW k \in Owned(t), StillOwner(leases[t][k])
    PROVE  /\ k \in DOMAIN leases[t] /\ <<t, k>> \in Taken
           /\ LeaseOf(<<t, k>>) = leases[t][k] /\ leases[t][k] \in Lease
           /\ leases[t][k].open /\ ~leases[t][k].local
           /\ leases[t][k].attempt \in 1 .. created /\ leases[t][k].index \in Indexes
           /\ att[leases[t][k].attempt].index = leases[t][k].index
           /\ att[leases[t][k].attempt].status = "running"
           /\ inflight[leases[t][k].index] = leases[t][k].attempt
           /\ leases[t][k].attempt # None
<1>1. k \in DOMAIN leases[t] /\ leases[t][k].open
    BY LeaseTypes DEF Owned, CoverInv
<1>2. <<t, k>> \in Taken /\ LeaseOf(<<t, k>>) = leases[t][k]
    BY <1>1, TakenIs DEF LeaseOf
<1>3. leases[t][k] \in Lease
    BY <1>2, LeaseTypes DEF CoverInv
<1>4. leases[t][k].attempt # None /\ ~leases[t][k].local
    BY <1>1, <1>2 DEF CoverInv, AttemptsInv, LeasesAreExact
<1>5. leases[t][k].attempt \in Attempts \cup {None} /\ leases[t][k].index \in Indexes
    BY <1>3 DEF Lease
<1>6. /\ leases[t][k].attempt <= created
      /\ att[leases[t][k].attempt].index = leases[t][k].index
    BY <1>2, <1>4 DEF CoverInv, AttemptsInv, LeasesAreExact
<1>7. leases[t][k].attempt \in 1 .. created
    BY <1>4, <1>5, <1>6, AttemptTypes, LimitsAssumption DEF None, Attempts, CoverInv
<1> QED BY <1>1, <1>2, <1>3, <1>4, <1>5, <1>6, <1>7 DEF StillOwner

\* The attempts that leases and indexes name are attempts.
LEMMA NamedAttempts ==
    ASSUME CoverInv
    PROVE  /\ \A p \in Taken : LeaseOf(p).attempt # None => LeaseOf(p).attempt \in 1 .. created
           /\ \A i \in Indexes : inflight[i] # None => inflight[i] \in 1 .. created
           /\ \A i \in Indexes : available[i] # None => available[i] \in 1 .. created
<1>1. \A b \in Attempts \cup {None} : b # None /\ b <= created => b \in 1 .. created
    BY AttemptTypes, LimitsAssumption DEF None, Attempts, CoverInv
<1>2. \A p \in Taken : LeaseOf(p).attempt \in Attempts \cup {None}
    BY LeaseTypes DEF CoverInv, Lease
<1> QED BY <1>1, <1>2 DEF CoverInv, AttemptsInv, LeasesAreExact, InflightRuns, AvailableIsDone, TypeOK

\* The attempts in flight are counted in active.
LEMMA InFlightIsFinite == ASSUME TypeOK PROVE IsFiniteSet(InFlight)
<1>1. InFlight \in SUBSET Indexes
    BY DEF InFlight
<1> QED BY <1>1, IndexesAssumption, FS_Subset

LEMMA InFlightLoses ==
    ASSUME CoverInv, NEW i \in Indexes, inflight[i] # None,
           inflight' = [inflight EXCEPT ![i] = None]
    PROVE  active - 1 = Cardinality(InFlight') /\ active - 1 \in Nat
<1>0. IsFiniteSet(InFlight) /\ i \in InFlight /\ active = Cardinality(InFlight)
    BY InFlightIsFinite DEF CoverInv, AttemptsInv, InFlight
<1>1. InFlight' = InFlight \ {i}
    BY DEF InFlight, CoverInv, TypeOK
<1>2. /\ IsFiniteSet(InFlight \ {i})
      /\ Cardinality(InFlight \ {i}) = Cardinality(InFlight) - 1
    BY <1>0, FS_RemoveElement
<1> QED BY <1>0, <1>1, <1>2, FS_CardinalityType

LEMMA InFlightGains ==
    ASSUME CoverInv, NEW i \in Indexes, inflight[i] = None, NEW a, a # None,
           inflight' = [inflight EXCEPT ![i] = a]
    PROVE  active + 1 = Cardinality(InFlight')
<1>0. IsFiniteSet(InFlight) /\ i \notin InFlight /\ active = Cardinality(InFlight)
    BY InFlightIsFinite DEF CoverInv, AttemptsInv, InFlight
<1>1. InFlight' = InFlight \cup {i}
    BY DEF InFlight, CoverInv, TypeOK
<1> QED BY <1>0, <1>1, FS_AddElement

-----------------------------------------------------------------------------
\* What the steps do to the attempts and their leases, kind by kind.  First those
\* that set nothing but a thread's own place: leases go away with their batch, once
\* they are neither open nor owed.
LEMMA KeepsAttempts ==
    ASSUME CoverInv, UNCHANGED <<completed, inflight, available, active, error, att, created>>,
           \A p \in Taken' :
              /\ p \in Taken /\ LeaseOf(p)' = LeaseOf(p) /\ require'[p[1]] = require[p[1]]
              /\ p[2] < at'[p[1]] /\ require[p[1]] => LeaseOf(p).local,
           \A p \in Taken : p \notin Taken' =>
              /\ LeaseOf(p).open => \A i \in Indexes : inflight[i] = None
              /\ error = None => LeaseOf(p).open \/ LeaseOf(p).local \/ ~require[p[1]]
    PROVE  AttemptsInv'
<1>1. \A a : Owed(a)' \subseteq Owed(a) /\ (error = None => Owed(a)' = Owed(a))
    BY DEF Owed
<1>2. \A i \in Indexes : inflight[i] # None => OpenLeases(inflight[i])' = OpenLeases(inflight[i])
    BY DEF OpenLeases
<1>3. active' = Cardinality(InFlight')
    BY DEF CoverInv, AttemptsInv, InFlight
<1>4. LeasesAreExact'
    BY DEF CoverInv, AttemptsInv, LeasesAreExact
<1>5. InflightRuns'
    <2>1. \A i \in Indexes : inflight[i] # None => \E p \in Taken' : OpenLeases(inflight[i])' = {p}
        <3> SUFFICES ASSUME NEW i \in Indexes, inflight[i] # None
                     PROVE  \E p \in Taken' : OpenLeases(inflight[i])' = {p}
            OBVIOUS
        <3>1. PICK p \in Taken : OpenLeases(inflight[i]) = {p}
            BY DEF CoverInv, AttemptsInv, InflightRuns
        <3>2. OpenLeases(inflight[i])' = {p}
            BY <1>2, <3>1
        <3>3. p \in Taken'
            BY <3>1 DEF OpenLeases
        <3> QED BY <3>2, <3>3
    <2> QED BY <2>1 DEF CoverInv, AttemptsInv, InflightRuns
<1>6. LossIsTotal'
    BY DEF CoverInv, AttemptsInv, LossIsTotal, StillOwner
<1>7. AvailableIsDone'
    BY DEF CoverInv, AttemptsInv, AvailableIsDone
<1>8. WaitersAreCounted'
    <2> SUFFICES ASSUME NEW a \in 1 .. created
                 PROVE  /\ IsFiniteSet(Owed(a)')
                        /\ att[a].status = "failed" => error # None
                        /\ att[a].status # "failed" => Cardinality(Owed(a)') <= att[a].waiters
                        /\ att[a].value => att[a].status = "completed"
        BY DEF WaitersAreCounted
    <2>1. IsFiniteSet(Owed(a)) /\ (att[a].status # "failed" => Cardinality(Owed(a)) <= att[a].waiters)
        BY DEF CoverInv, AttemptsInv, WaitersAreCounted
    <2>2. Owed(a)' \in SUBSET Owed(a)
        BY <1>1
    <2>3. /\ IsFiniteSet(Owed(a)') /\ Cardinality(Owed(a)') <= Cardinality(Owed(a))
          /\ Cardinality(Owed(a)') \in Nat /\ Cardinality(Owed(a)) \in Nat
        BY <2>1, <2>2, FS_Subset, FS_CardinalityType
    <2>4. att[a].waiters \in Nat
        BY AttemptTypes DEF CoverInv
    <2> QED BY <2>1, <2>3, <2>4 DEF CoverInv, AttemptsInv, WaitersAreCounted
<1>9. ValuesAreOwed'
    BY <1>1 DEF CoverInv, AttemptsInv, ValuesAreOwed
<1> QED BY <1>3, <1>4, <1>5, <1>6, <1>7, <1>8, <1>9 DEF AttemptsInv

\* A claim without a value adds a lease that owes nothing.
LEMMA JoinsPlain ==
    ASSUME CoverInv, UNCHANGED <<completed, inflight, available, active, error, att, created, require, at>>,
           NEW q, q \notin Taken, Taken' = Taken \cup {q},
           \A p \in Taken : LeaseOf(p)' = LeaseOf(p),
           ~require[q[1]], ~LeaseOf(q).open',
           LeaseOf(q).attempt' # None =>
              /\ LeaseOf(q).attempt' <= created
              /\ att[LeaseOf(q).attempt'].index = LeaseOf(q).index'
    PROVE  AttemptsInv'
<1>1. \A a : Owed(a)' = Owed(a)
    BY DEF Owed
<1>2. \A a : OpenLeases(a)' = OpenLeases(a)
    BY DEF OpenLeases
<1>3. active' = Cardinality(InFlight')
    BY DEF CoverInv, AttemptsInv, InFlight
<1>4. LeasesAreExact'
    BY DEF CoverInv, AttemptsInv, LeasesAreExact
<1>5. InflightRuns'
    BY <1>2 DEF CoverInv, AttemptsInv, InflightRuns
<1>6. LossIsTotal'
    BY DEF CoverInv, AttemptsInv, LossIsTotal, StillOwner
<1>7. AvailableIsDone'
    BY DEF CoverInv, AttemptsInv, AvailableIsDone
<1>8. WaitersAreCounted'
    BY <1>1 DEF CoverInv, AttemptsInv, WaitersAreCounted
<1>9. ValuesAreOwed'
    BY <1>1 DEF CoverInv, AttemptsInv, ValuesAreOwed
<1> QED BY <1>3, <1>4, <1>5, <1>6, <1>7, <1>8, <1>9 DEF AttemptsInv

\* A claim that wants the value of an attempt is one waiter more and owes one more.
LEMMA JoinsWaiter ==
    ASSUME CoverInv, UNCHANGED <<completed, inflight, available, active, error, require, at>>,
           NEW q, q \notin Taken, Taken' = Taken \cup {q},
           \A p \in Taken : LeaseOf(p)' = LeaseOf(p),
           NEW a \in 1 .. created, AttSet(a, att[a].status, att[a].value, att[a].waiters + 1),
           require[q[1]], ~LeaseOf(q).open', ~LeaseOf(q).local', at[q[1]] <= q[2],
           at[q[1]] \in Nat, q[2] \in Nat,
           LeaseOf(q).attempt' = a, att[a].index = LeaseOf(q).index',
           att[a].status = "completed" => att[a].value
    PROVE  AttemptsInv'
<1>0. a # None /\ a <= created /\ created' = created
    BY AttemptTypes DEF None, AttSet, CoverInv
<1>a. \A b \in 1 .. created :
         /\ att'[b].index = att[b].index /\ att'[b].status = att[b].status
         /\ att'[b].value = att[b].value
         /\ att'[b].waiters = IF b = a THEN att[a].waiters + 1 ELSE att[b].waiters
    BY DEF AttSet
<1>t. \A b \in 1 .. created : att[b].waiters \in Nat /\ att[b].index \in Indexes
    BY AttemptTypes DEF CoverInv
<1>1. Owed(a)' = Owed(a) \cup {q} /\ \A b : b # a => Owed(b)' = Owed(b)
    BY DEF Owed
<1>2. \A b : OpenLeases(b)' = OpenLeases(b)
    BY DEF OpenLeases
<1>3. active' = Cardinality(InFlight')
    BY DEF CoverInv, AttemptsInv, InFlight
<1>4. LeasesAreExact'
    <2> SUFFICES ASSUME NEW p \in Taken'
                 PROVE  /\ LeaseOf(p).attempt' # None =>
                              /\ LeaseOf(p).attempt' <= created
                              /\ att'[LeaseOf(p).attempt'].index = LeaseOf(p).index'
                        /\ LeaseOf(p).attempt' = None => ~require[p[1]]
                        /\ LeaseOf(p).open' => LeaseOf(p).attempt' # None /\ ~LeaseOf(p).local'
                        /\ p[2] < at[p[1]] /\ require[p[1]] => LeaseOf(p).local'
        BY <1>0 DEF LeasesAreExact
    <2>1. CASE p = q
        BY <1>0, <1>a, <2>1
    <2>2. CASE p \in Taken
        BY <1>a, <2>2, NamedAttempts DEF CoverInv, AttemptsInv, LeasesAreExact
    <2> QED BY <2>1, <2>2
<1>5. InflightRuns'
    <2>1. \A b \in 1 .. created : att'[b].status = "running" <=> inflight[att'[b].index] = b
        BY <1>a DEF CoverInv, AttemptsInv, InflightRuns
    <2>2. \A i \in Indexes : inflight[i] # None =>
             /\ inflight[i] <= created /\ att'[inflight[i]].index = i
             /\ available[i] = None
             /\ \E p \in Taken' : OpenLeases(inflight[i])' = {p}
        BY <1>a, <1>2, NamedAttempts DEF CoverInv, AttemptsInv, InflightRuns
    <2> QED BY <1>0, <2>1, <2>2 DEF InflightRuns
<1>6. LossIsTotal'
    <2>1. \A p \in Taken : LeaseOf(p).open => LeaseOf(p).attempt \in 1 .. created
        BY NamedAttempts DEF CoverInv, AttemptsInv, LeasesAreExact
    <2>2. \A p \in Taken : LeaseOf(p).open => (StillOwner(LeaseOf(p))' <=> StillOwner(LeaseOf(p)))
        BY <1>a, <2>1 DEF StillOwner
    <2> QED BY <2>2 DEF CoverInv, AttemptsInv, LossIsTotal
<1>7. AvailableIsDone'
    BY <1>0, <1>a, NamedAttempts DEF CoverInv, AttemptsInv, AvailableIsDone
<1>w. /\ IsFiniteSet(Owed(a)') /\ Cardinality(Owed(a)') = Cardinality(Owed(a)) + 1
      /\ Cardinality(Owed(a)) \in Nat
    <2>1. IsFiniteSet(Owed(a)) /\ q \notin Owed(a)
        BY DEF CoverInv, AttemptsInv, WaitersAreCounted, Owed
    <2> QED BY <1>1, <2>1, FS_AddElement, FS_CardinalityType
<1>8. WaitersAreCounted'
    <2> SUFFICES ASSUME NEW b \in 1 .. created
                 PROVE  /\ IsFiniteSet(Owed(b)')
                        /\ att'[b].status = "failed" => error # None
                        /\ att'[b].status # "failed" => Cardinality(Owed(b)') <= att'[b].waiters
                        /\ att'[b].value => att'[b].status = "completed"
        BY <1>0 DEF WaitersAreCounted
    <2>1. /\ IsFiniteSet(Owed(b))
          /\ att[b].status = "failed" => error # None
          /\ att[b].status # "failed" => Cardinality(Owed(b)) <= att[b].waiters
          /\ att[b].value => att[b].status = "completed"
        BY DEF CoverInv, AttemptsInv, WaitersAreCounted
    <2>2. CASE b = a
        BY <1>a, <1>t, <1>w, <2>1, <2>2
    <2>3. CASE b # a
        BY <1>a, <1>1, <2>1, <2>3
    <2> QED BY <2>2, <2>3
<1>9. ValuesAreOwed'
    <2> SUFFICES ASSUME error = None, NEW b \in 1 .. created
                 PROVE  /\ att'[b].waiters = Cardinality(Owed(b)')
                        /\ att'[b].status = "completed" =>
                            /\ att'[b].value <=> att'[b].waiters # 0
                            /\ att'[b].value <=> available[att'[b].index] = b
        BY <1>0 DEF ValuesAreOwed
    <2>1. /\ att[b].waiters = Cardinality(Owed(b))
          /\ att[b].status = "completed" =>
                /\ att[b].value <=> att[b].waiters # 0
                /\ att[b].value <=> available[att[b].index] = b
        BY DEF CoverInv, AttemptsInv, ValuesAreOwed
    <2>2. CASE b = a
        BY <1>a, <1>t, <1>w, <2>1, <2>2
    <2>3. CASE b # a
        BY <1>a, <1>1, <2>1, <2>3
    <2> QED BY <2>2, <2>3
<1> QED BY <1>3, <1>4, <1>5, <1>6, <1>7, <1>8, <1>9 DEF AttemptsInv

\* The claim of an index that nobody works on starts an attempt with one lease.
LEMMA Owns ==
    ASSUME CoverInv, error = None, NEW n \in Nat, n = created + 1,
           UNCHANGED <<completed, available, error, require, at>>,
           NEW i \in Indexes, inflight[i] = None, available[i] = None,
           inflight' = [inflight EXCEPT ![i] = n],
           active' = active + 1, created' = n,
           att' \in [1 .. n -> Attempt],
           \A b \in 1 .. created : att'[b] = att[b],
           att'[n] = NewAttempt(i),
           NEW q, q \notin Taken, Taken' = Taken \cup {q},
           \A p \in Taken : LeaseOf(p)' = LeaseOf(p),
           LeaseOf(q).index' = i, LeaseOf(q).attempt' = n,
           LeaseOf(q).open', ~LeaseOf(q).local',
           at[q[1]] <= q[2], at[q[1]] \in Nat, q[2] \in Nat
    PROVE  AttemptsInv'
<1>0. /\ created \in Nat /\ n # None /\ n \notin 1 .. created
      /\ \A b \in 1 .. n : b \in 1 .. created \/ b = n
      /\ \A b \in 1 .. created : b \in 1 .. n /\ b # n /\ b <= n
    BY AttemptTypes DEF None, CoverInv
<1>a. /\ att'[n].index = i /\ att'[n].status = "running"
      /\ att'[n].value = FALSE /\ att'[n].waiters = 0
    BY DEF NewAttempt
<1>t. \A b \in 1 .. created : att[b].index \in Indexes
    BY AttemptTypes DEF CoverInv
<1>i. /\ inflight'[i] = n
      /\ \A j \in Indexes : j # i => inflight'[j] = inflight[j]
    BY DEF CoverInv, TypeOK
<1>1. \A b \in 1 .. created : Owed(b)' = Owed(b) /\ OpenLeases(b)' = OpenLeases(b)
    BY <1>0 DEF Owed, OpenLeases
<1>2. Owed(n)' = {} /\ OpenLeases(n)' = {q}
    BY <1>0, NamedAttempts DEF Owed, OpenLeases
<1>3. active' = Cardinality(InFlight')
    BY <1>0, InFlightGains
<1>4. LeasesAreExact'
    <2> SUFFICES ASSUME NEW p \in Taken'
                 PROVE  /\ LeaseOf(p).attempt' # None =>
                              /\ LeaseOf(p).attempt' <= created'
                              /\ att'[LeaseOf(p).attempt'].index = LeaseOf(p).index'
                        /\ LeaseOf(p).attempt' = None => ~require[p[1]]
                        /\ LeaseOf(p).open' => LeaseOf(p).attempt' # None /\ ~LeaseOf(p).local'
                        /\ p[2] < at[p[1]] /\ require[p[1]] => LeaseOf(p).local'
        BY DEF LeasesAreExact
    <2>1. CASE p = q
        BY <1>0, <1>a, <2>1
    <2>2. CASE p \in Taken
        BY <1>0, <2>2, NamedAttempts DEF CoverInv, AttemptsInv, LeasesAreExact
    <2> QED BY <2>1, <2>2
<1>5. InflightRuns'
    <2>1. \A b \in 1 .. n : att'[b].status = "running" <=> inflight'[att'[b].index] = b
        BY <1>0, <1>a, <1>i, <1>t DEF CoverInv, AttemptsInv, InflightRuns, None
    <2> SUFFICES ASSUME NEW j \in Indexes, inflight'[j] # None
                 PROVE  /\ inflight'[j] <= created' /\ att'[inflight'[j]].index = j
                        /\ available[j] = None
                        /\ \E p \in Taken' : OpenLeases(inflight[j])' = {p}
        BY <2>1 DEF InflightRuns
    <2>2. CASE j = i
        <3>1. OpenLeases(inflight[j])' = {q}
            BY <1>i, <1>2, <2>2 DEF OpenLeases
        <3> QED BY <1>0, <1>a, <1>i, <2>2, <3>1
    <2>3. CASE j # i
        <3>1. PICK b \in 1 .. created : b = inflight[j] /\ b = inflight'[j]
            BY <1>i, <2>3, NamedAttempts
        <3>2. /\ att[b].index = j /\ available[j] = None
              /\ \E p \in Taken : OpenLeases(b) = {p}
            BY <3>1, <1>0, <2>3 DEF CoverInv, AttemptsInv, InflightRuns, None
        <3>3. OpenLeases(inflight[j])' = OpenLeases(b)
            BY <3>1, <1>1 DEF OpenLeases
        <3> QED BY <1>0, <3>1, <3>2, <3>3
    <2> QED BY <2>2, <2>3
<1>6. LossIsTotal'
    <2>1. ASSUME NEW p \in Taken', LeaseOf(p)'.open PROVE StillOwner(LeaseOf(p))'
        <3>1. CASE p = q
            BY <1>0, <1>a, <1>i, <3>1 DEF StillOwner
        <3>2. CASE p \in Taken
            <4>1. LeaseOf(p).open /\ StillOwner(LeaseOf(p)) /\ LeaseOf(p).attempt # None
                BY <2>1, <3>2 DEF CoverInv, AttemptsInv, LossIsTotal, LeasesAreExact
            <4>2. LeaseOf(p).index \in Indexes /\ LeaseOf(p).attempt \in 1 .. created
                BY <3>2, <4>1, LeaseTypes, NamedAttempts DEF Lease, CoverInv
            <4> QED BY <1>i, <3>2, <4>1, <4>2 DEF StillOwner
        <3> QED BY <3>1, <3>2
    <2> QED BY <2>1 DEF LossIsTotal
<1>7. AvailableIsDone'
    BY <1>0, NamedAttempts DEF CoverInv, AttemptsInv, AvailableIsDone
<1>8. WaitersAreCounted'
    <2> SUFFICES ASSUME NEW b \in 1 .. n
                 PROVE  /\ IsFiniteSet(Owed(b)')
                        /\ att'[b].status = "failed" => error # None
                        /\ att'[b].status # "failed" => Cardinality(Owed(b)') <= att'[b].waiters
                        /\ att'[b].value => att'[b].status = "completed"
        BY DEF WaitersAreCounted
    <2>1. CASE b \in 1 .. created
        BY <1>1, <2>1 DEF CoverInv, AttemptsInv, WaitersAreCounted
    <2>2. CASE b = n
        <3>1. Owed(b)' = {} /\ Cardinality({}) = 0 /\ IsFiniteSet({})
            BY <1>2, <2>2, FS_EmptySet
        <3>2. att'[b].status = "running" /\ att'[b].waiters = 0 /\ ~att'[b].value
            BY <1>a, <2>2
        <3>3. Cardinality(Owed(b)') <= att'[b].waiters
            BY <3>1, <3>2
        <3>4. IsFiniteSet(Owed(b)')
            BY <3>1
        <3> QED BY <3>2, <3>3, <3>4
    <2> QED BY <1>0, <2>1, <2>2
<1>9. ValuesAreOwed'
    <2> SUFFICES ASSUME NEW b \in 1 .. n
                 PROVE  /\ att'[b].waiters = Cardinality(Owed(b)')
                        /\ att'[b].status = "completed" =>
                            /\ att'[b].value <=> att'[b].waiters # 0
                            /\ att'[b].value <=> available[att'[b].index] = b
        BY DEF ValuesAreOwed
    <2>1. CASE b \in 1 .. created
        BY <1>1, <2>1 DEF CoverInv, AttemptsInv, ValuesAreOwed
    <2>2. CASE b = n
        BY <1>2, <1>a, <2>2, FS_EmptySet
    <2> QED BY <1>0, <2>1, <2>2
<1> QED BY <1>3, <1>4, <1>5, <1>6, <1>7, <1>8, <1>9 DEF AttemptsInv

\* An attempt that ends leaves the index to nobody and its lease to nobody.
LEMMA Settles ==
    ASSUME CoverInv, NEW q \in Taken, LeaseOf(q).open, StillOwner(LeaseOf(q)),
           NEW a, a = LeaseOf(q).attempt, NEW i \in Indexes, i = LeaseOf(q).index,
           NEW st \in {"completed", "failed"}, NEW v \in BOOLEAN, AttSet(a, st, v, att[a].waiters),
           inflight' = [inflight EXCEPT ![i] = None], active' = active - 1,
           Taken' = Taken, \A p \in Taken : p # q => LeaseOf(p)' = LeaseOf(p),
           LeaseOf(q).attempt' = a, LeaseOf(q).index' = i, ~LeaseOf(q).open',
           UNCHANGED <<require, at>>,
           \A j \in Indexes : j # i => available'[j] = available[j],
           error # None => error' # None
    PROVE  /\ active' = Cardinality(InFlight') /\ LeasesAreExact' /\ InflightRuns' /\ LossIsTotal'
           /\ a \in 1 .. created /\ att[a].status = "running" /\ att[a].index = i
           /\ available[i] = None
<1>0. /\ a \in 1 .. created /\ a # None /\ att[a].status = "running" /\ att[a].index = i
      /\ inflight[i] = a /\ ~LeaseOf(q).local
    BY NamedAttempts DEF CoverInv, AttemptsInv, LeasesAreExact, StillOwner
<1>a. /\ \A b \in 1 .. created :
            /\ att'[b].index = att[b].index
            /\ b # a => att'[b] = att[b]
      /\ att'[a].status # "running" /\ created' = created
    BY DEF AttSet
<1>t. \A b \in 1 .. created : att[b].index \in Indexes /\ b # None
    BY AttemptTypes DEF CoverInv, None
<1>i. inflight'[i] = None /\ \A j \in Indexes : j # i => inflight'[j] = inflight[j]
    BY DEF CoverInv, TypeOK
<1>1. available[i] = None /\ \E p \in Taken : OpenLeases(a) = {p}
    BY <1>0 DEF CoverInv, AttemptsInv, InflightRuns
<1>2. \A b : b # a => OpenLeases(b)' = OpenLeases(b)
    BY DEF OpenLeases
<1>3. \A p \in Taken : LeaseOf(p).open /\ LeaseOf(p).attempt = a => p = q
    BY <1>1 DEF OpenLeases
<1>4. active' = Cardinality(InFlight')
    BY <1>0, InFlightLoses
<1>5. LeasesAreExact'
    <2> SUFFICES ASSUME NEW p \in Taken
                 PROVE  /\ LeaseOf(p).attempt' # None =>
                              /\ LeaseOf(p).attempt' <= created'
                              /\ att'[LeaseOf(p).attempt'].index = LeaseOf(p).index'
                        /\ LeaseOf(p).attempt' = None => ~require[p[1]]
                        /\ LeaseOf(p).open' => LeaseOf(p).attempt' # None /\ ~LeaseOf(p).local'
                        /\ p[2] < at[p[1]] /\ require[p[1]] => LeaseOf(p).local'
        BY DEF LeasesAreExact
    <2>1. CASE p = q
        BY <1>0, <1>a, <2>1 DEF CoverInv, AttemptsInv, LeasesAreExact
    <2>2. CASE p # q
        BY <1>a, <2>2, NamedAttempts DEF CoverInv, AttemptsInv, LeasesAreExact
    <2> QED BY <2>1, <2>2
<1>6. InflightRuns'
    <2>1. \A b \in 1 .. created : att'[b].status = "running" <=> inflight'[att'[b].index] = b
        BY <1>0, <1>a, <1>i, <1>t DEF CoverInv, AttemptsInv, InflightRuns
    <2> SUFFICES ASSUME NEW j \in Indexes, inflight'[j] # None
                 PROVE  /\ inflight'[j] <= created' /\ att'[inflight'[j]].index = j
                        /\ available'[j] = None
                        /\ \E p \in Taken' : OpenLeases(inflight[j])' = {p}
        BY <1>a, <2>1 DEF InflightRuns
    <2>2. j # i /\ inflight'[j] = inflight[j]
        BY <1>i
    <2>3. PICK b \in 1 .. created : b = inflight[j] /\ b = inflight'[j]
        BY <2>2, NamedAttempts
    <2>4. /\ b <= created /\ att[b].index = j /\ available[j] = None
          /\ \E p \in Taken : OpenLeases(b) = {p}
        BY <1>t, <2>3 DEF CoverInv, AttemptsInv, InflightRuns
    <2>5. b # a
        BY <1>0, <2>2, <2>4
    <2>6. OpenLeases(inflight[j])' = OpenLeases(b)
        BY <1>2, <2>3, <2>5 DEF OpenLeases
    <2> QED BY <1>a, <2>2, <2>3, <2>4, <2>6
<1>7. LossIsTotal'
    <2>1. ASSUME NEW p \in Taken, LeaseOf(p)'.open PROVE StillOwner(LeaseOf(p))'
        <3>1. /\ p # q /\ LeaseOf(p).open /\ LeaseOf(p).attempt # a
            BY <1>3, <2>1
        <3>2. StillOwner(LeaseOf(p)) /\ LeaseOf(p).attempt # None
            BY <1>0, <3>1 DEF CoverInv, AttemptsInv, LossIsTotal, LeasesAreExact
        <3>3. LeaseOf(p).index \in Indexes /\ LeaseOf(p).attempt \in 1 .. created
            BY <3>2, LeaseTypes, NamedAttempts DEF Lease, CoverInv
        <3>4. LeaseOf(p).index # i
            BY <1>0, <3>1, <3>2 DEF StillOwner
        <3> QED BY <1>a, <1>i, <3>1, <3>2, <3>3, <3>4 DEF StillOwner
    <2> QED BY <2>1 DEF LossIsTotal
<1> QED BY <1>0, <1>1, <1>4, <1>5, <1>6, <1>7

\* A completion keeps the value for those that wait for it, and the owner keeps its
\* own; after a failure it keeps nothing.
LEMMA Completes ==
    ASSUME CoverInv, NEW q \in Taken, LeaseOf(q).open, StillOwner(LeaseOf(q)),
           NEW a, a = LeaseOf(q).attempt, NEW i \in Indexes, i = LeaseOf(q).index,
           NEW v \in BOOLEAN, AttSet(a, "completed", v, att[a].waiters),
           inflight' = [inflight EXCEPT ![i] = None], active' = active - 1,
           Taken' = Taken, \A p \in Taken : p # q => LeaseOf(p)' = LeaseOf(p),
           LeaseOf(q).attempt' = a, LeaseOf(q).index' = i, ~LeaseOf(q).open',
           require[q[1]] => LeaseOf(q).local',
           UNCHANGED <<require, at, error>>,
           error = None => /\ v = (att[a].waiters # 0) /\ completed' = completed \cup {i}
                           /\ available' = IF att[a].waiters # 0
                                           THEN [available EXCEPT ![i] = a] ELSE available,
           error # None => completed' = completed /\ available' = available
    PROVE  AttemptsInv'
<1>i. /\ \A j \in Indexes : j # i => available'[j] = available[j]
      /\ completed \subseteq completed'
    BY DEF CoverInv, TypeOK
<1>1. /\ active' = Cardinality(InFlight') /\ LeasesAreExact' /\ InflightRuns' /\ LossIsTotal'
      /\ a \in 1 .. created /\ att[a].status = "running" /\ att[a].index = i
      /\ available[i] = None
    BY <1>i, Settles
<1>a. /\ \A b \in 1 .. created :
            /\ att'[b].index = att[b].index
            /\ b # a => att'[b] = att[b]
      /\ att'[a].status = "completed" /\ att'[a].value = v
      /\ att'[a].waiters = att[a].waiters /\ created' = created
    BY <1>1 DEF AttSet
<1>t. \A b \in 1 .. created : att[b].index \in Indexes /\ b # None /\ b <= created
    BY AttemptTypes DEF CoverInv, None
<1>2. \A b : Owed(b)' = Owed(b)
    BY DEF Owed
<1>3. error = None => /\ available'[i] = IF att[a].waiters # 0 THEN a ELSE None
                      /\ i \in completed'
    BY <1>1 DEF CoverInv, TypeOK
<1>4. AvailableIsDone'
    <2> SUFFICES ASSUME NEW j \in Indexes, available'[j] # None
                 PROVE  /\ available'[j] <= created' /\ att'[available'[j]].index = j
                        /\ att'[available'[j]].status = "completed" /\ j \in completed'
        BY DEF AvailableIsDone
    <2>1. CASE available'[j] = available[j]
        <3>1. /\ available[j] \in 1 .. created /\ att[available[j]].index = j
              /\ att[available[j]].status = "completed" /\ j \in completed
            BY <2>1, NamedAttempts DEF CoverInv, AttemptsInv, AvailableIsDone
        <3> QED BY <1>1, <1>a, <1>i, <1>t, <2>1, <3>1
    <2>2. CASE available'[j] # available[j]
        <3>1. j = i /\ error = None /\ available'[j] = a
            BY <1>1, <1>3, <1>i, <2>2
        <3> QED BY <1>1, <1>3, <1>a, <1>t, <3>1
    <2> QED BY <2>1, <2>2
<1>5. WaitersAreCounted'
    <2> SUFFICES ASSUME NEW b \in 1 .. created
                 PROVE  /\ IsFiniteSet(Owed(b)')
                        /\ att'[b].status = "failed" => error # None
                        /\ att'[b].status # "failed" => Cardinality(Owed(b)') <= att'[b].waiters
                        /\ att'[b].value => att'[b].status = "completed"
        BY <1>a DEF WaitersAreCounted
    <2>1. /\ IsFiniteSet(Owed(b))
          /\ att[b].status = "failed" => error # None
          /\ att[b].status # "failed" => Cardinality(Owed(b)) <= att[b].waiters
          /\ att[b].value => att[b].status = "completed"
        BY DEF CoverInv, AttemptsInv, WaitersAreCounted
    <2> QED BY <1>1, <1>2, <1>a, <2>1
<1>6. ValuesAreOwed'
    <2> SUFFICES ASSUME error = None, NEW b \in 1 .. created
                 PROVE  /\ att'[b].waiters = Cardinality(Owed(b)')
                        /\ att'[b].status = "completed" =>
                            /\ att'[b].value <=> att'[b].waiters # 0
                            /\ att'[b].value <=> available'[att'[b].index] = b
        BY <1>a DEF ValuesAreOwed
    <2>1. /\ att[b].waiters = Cardinality(Owed(b))
          /\ att[b].status = "completed" =>
                /\ att[b].value <=> att[b].waiters # 0
                /\ att[b].value <=> available[att[b].index] = b
        BY DEF CoverInv, AttemptsInv, ValuesAreOwed
    <2>2. CASE b = a
        BY <1>1, <1>2, <1>3, <1>a, <1>t, <2>1, <2>2
    <2>3. CASE b # a /\ att[b].index = i
        BY <1>1, <1>2, <1>3, <1>a, <1>t, <2>1, <2>3
    <2>4. CASE b # a /\ att[b].index # i
        BY <1>2, <1>i, <1>a, <1>t, <2>1, <2>4
    <2> QED BY <2>2, <2>3, <2>4
<1> QED BY <1>1, <1>4, <1>5, <1>6 DEF AttemptsInv

\* A failure is sticky: what is owed for its attempt is not counted any more.
LEMMA Fails ==
    ASSUME CoverInv, NEW q \in Taken, LeaseOf(q).open, StillOwner(LeaseOf(q)),
           NEW a, a = LeaseOf(q).attempt, NEW i \in Indexes, i = LeaseOf(q).index,
           NEW v \in BOOLEAN, v = att[a].value, AttSet(a, "failed", v, att[a].waiters),
           inflight' = [inflight EXCEPT ![i] = None], active' = active - 1,
           Taken' = Taken, \A p \in Taken : p # q => LeaseOf(p)' = LeaseOf(p),
           LeaseOf(q).attempt' = a, LeaseOf(q).index' = i, ~LeaseOf(q).open',
           UNCHANGED <<require, at, completed, available>>, error' # None
    PROVE  AttemptsInv'
<1>1. /\ active' = Cardinality(InFlight') /\ LeasesAreExact' /\ InflightRuns' /\ LossIsTotal'
      /\ a \in 1 .. created /\ att[a].status = "running" /\ att[a].index = i
      /\ available[i] = None
    BY Settles
<1>a. /\ \A b \in 1 .. created : b # a => att'[b] = att[b]
      /\ att'[a].status = "failed" /\ att'[a].value = v
      /\ att'[a].waiters = att[a].waiters /\ created' = created
    BY <1>1 DEF AttSet
<1>2. \A b : Owed(b)' \subseteq Owed(b) \cup {q} /\ (b # a => Owed(b)' = Owed(b))
    BY DEF Owed
<1>3. AvailableIsDone'
    <2> SUFFICES ASSUME NEW j \in Indexes, available[j] # None
                 PROVE  /\ available[j] <= created' /\ att'[available[j]].index = j
                        /\ att'[available[j]].status = "completed" /\ j \in completed'
        BY DEF AvailableIsDone
    <2>1. /\ available[j] \in 1 .. created /\ available[j] <= created
          /\ att[available[j]].index = j
          /\ att[available[j]].status = "completed" /\ j \in completed
        BY NamedAttempts DEF CoverInv, AttemptsInv, AvailableIsDone
    <2> QED BY <1>1, <1>a, <2>1
<1>4. WaitersAreCounted'
    <2> SUFFICES ASSUME NEW b \in 1 .. created
                 PROVE  /\ IsFiniteSet(Owed(b)')
                        /\ att'[b].status = "failed" => error' # None
                        /\ att'[b].status # "failed" => Cardinality(Owed(b)') <= att'[b].waiters
                        /\ att'[b].value => att'[b].status = "completed"
        BY <1>a DEF WaitersAreCounted
    <2>1. /\ IsFiniteSet(Owed(b))
          /\ att[b].status # "failed" => Cardinality(Owed(b)) <= att[b].waiters
          /\ att[b].value => att[b].status = "completed"
        BY DEF CoverInv, AttemptsInv, WaitersAreCounted
    <2>2. IsFiniteSet(Owed(b) \cup {q})
        BY <2>1, FS_AddElement
    <2>3. Owed(b)' \in SUBSET (Owed(b) \cup {q})
        BY <1>2
    <2>4. IsFiniteSet(Owed(b)')
        BY <2>2, <2>3, FS_Subset
    <2>5. CASE b = a
        BY <1>1, <1>a, <2>1, <2>4, <2>5
    <2>6. CASE b # a
        BY <1>2, <1>a, <2>1, <2>4, <2>6
    <2> QED BY <2>5, <2>6
<1>5. ValuesAreOwed'
    BY DEF ValuesAreOwed
<1> QED BY <1>1, <1>3, <1>4, <1>5 DEF AttemptsInv

\* An abort fails every running attempt and leaves its lease open.
LEMMA AbortsAll ==
    ASSUME CoverInv, error' # None, inflight' = [i \in Indexes |-> None], active' = 0,
           created' = created, att' \in [1 .. created -> Attempt],
           \A b \in 1 .. created :
              IF inflight[att[b].index] = b
              THEN /\ att'[b].index = att[b].index /\ att'[b].status = "failed"
                   /\ ~att'[b].value /\ att'[b].waiters = att[b].waiters
              ELSE att'[b] = att[b],
           UNCHANGED <<completed, available, require, leases, at>>
    PROVE  AttemptsInv'
<1>0. Taken' = Taken /\ \A p \in Taken : LeaseOf(p)' = LeaseOf(p)
    BY DEF Taken, LeaseOf
<1>1. \A b : Owed(b)' = Owed(b)
    BY <1>0 DEF Owed
<1>i. /\ \A i \in Indexes : inflight'[i] = None
      /\ \A b \in 1 .. created : att[b].index \in Indexes /\ b # None
      /\ \A b \in 1 .. created : att'[b].index = att[b].index
    BY AttemptTypes DEF CoverInv, None
<1>2. active' = Cardinality(InFlight')
    <2>1. InFlight' = {}
        BY <1>i DEF InFlight
    <2> QED BY <2>1, FS_EmptySet
<1>3. LeasesAreExact'
    BY <1>0, <1>i, NamedAttempts DEF CoverInv, AttemptsInv, LeasesAreExact
<1>r. \A b \in 1 .. created : att[b].status = "running" <=> inflight[att[b].index] = b
    BY DEF CoverInv, AttemptsInv, InflightRuns
<1>4. InflightRuns'
    <2>1. \A b \in 1 .. created : att'[b].status # "running"
        BY <1>r
    <2> QED BY <1>i, <2>1 DEF InflightRuns
<1>5. LossIsTotal'
    BY <1>i DEF LossIsTotal
<1>6. AvailableIsDone'
    <2> SUFFICES ASSUME NEW j \in Indexes, available[j] # None
                 PROVE  /\ available[j] <= created' /\ att'[available[j]].index = j
                        /\ att'[available[j]].status = "completed" /\ j \in completed'
        BY DEF AvailableIsDone
    <2>1. /\ available[j] \in 1 .. created /\ available[j] <= created
          /\ att[available[j]].index = j
          /\ att[available[j]].status = "completed" /\ j \in completed
        BY NamedAttempts DEF CoverInv, AttemptsInv, AvailableIsDone
    <2> QED BY <1>r, <2>1
<1>7. WaitersAreCounted'
    <2> SUFFICES ASSUME NEW b \in 1 .. created
                 PROVE  /\ IsFiniteSet(Owed(b)')
                        /\ att'[b].status = "failed" => error' # None
                        /\ att'[b].status # "failed" => Cardinality(Owed(b)') <= att'[b].waiters
                        /\ att'[b].value => att'[b].status = "completed"
        BY DEF WaitersAreCounted
    <2>1. /\ IsFiniteSet(Owed(b))
          /\ att[b].status # "failed" => Cardinality(Owed(b)) <= att[b].waiters
          /\ att[b].value => att[b].status = "completed"
        BY DEF CoverInv, AttemptsInv, WaitersAreCounted
    <2>2. CASE inflight[att[b].index] = b
        BY <1>1, <2>1, <2>2
    <2>3. CASE inflight[att[b].index] # b
        BY <1>1, <2>1, <2>3
    <2> QED BY <2>2, <2>3
<1>8. ValuesAreOwed'
    BY DEF ValuesAreOwed
<1> QED BY <1>2, <1>3, <1>4, <1>5, <1>6, <1>7, <1>8 DEF AttemptsInv

\* A waiter that takes the value is owed it no more; the last one releases it.
LEMMA TakesValue ==
    ASSUME CoverInv, NEW q \in Taken, require[q[1]], ~LeaseOf(q).open, ~LeaseOf(q).local,
           NEW a \in 1 .. created, a = LeaseOf(q).attempt, att[a].status = "completed",
           NEW left \in Nat, left + 1 = att[a].waiters, AttSet(a, "completed", left # 0, left),
           available' = IF left = 0 /\ available[att[a].index] = a
                        THEN [available EXCEPT ![att[a].index] = None] ELSE available,
           Taken' = Taken, \A p \in Taken : p # q => LeaseOf(p)' = LeaseOf(p),
           LeaseOf(q).attempt' = a, LeaseOf(q).index' = LeaseOf(q).index, ~LeaseOf(q).open',
           LeaseOf(q).local',
           \A p \in Taken : p # q => (p[2] < at'[p[1]] => p[2] < at[p[1]]),
           UNCHANGED <<require, completed, inflight, active, error>>
    PROVE  AttemptsInv'
<1>0. /\ a # None /\ a <= created /\ created' = created
      /\ LeaseOf(q).index = att[a].index /\ att[a].index \in Indexes
    BY AttemptTypes DEF None, AttSet, CoverInv, AttemptsInv, LeasesAreExact
<1>a. \A b \in 1 .. created :
         /\ att'[b].index = att[b].index /\ att'[b].status = att[b].status
         /\ b # a => att'[b] = att[b]
         /\ b = a => att'[b].value = (left # 0) /\ att'[b].waiters = left
    BY DEF AttSet
<1>t. \A b \in 1 .. created : att[b].waiters \in Nat /\ att[b].index \in Indexes /\ b # None
    BY AttemptTypes DEF CoverInv, None
<1>1. Owed(a)' = Owed(a) \ {q} /\ q \in Owed(a) /\ \A b : b # a => Owed(b)' = Owed(b)
    BY DEF Owed
<1>2. \A b : OpenLeases(b)' = OpenLeases(b)
    BY DEF OpenLeases
<1>3. active' = Cardinality(InFlight')
    BY DEF CoverInv, AttemptsInv, InFlight
<1>4. LeasesAreExact'
    <2> SUFFICES ASSUME NEW p \in Taken
                 PROVE  /\ LeaseOf(p).attempt' # None =>
                              /\ LeaseOf(p).attempt' <= created
                              /\ att'[LeaseOf(p).attempt'].index = LeaseOf(p).index'
                        /\ LeaseOf(p).attempt' = None => ~require[p[1]]
                        /\ LeaseOf(p).open' => LeaseOf(p).attempt' # None /\ ~LeaseOf(p).local'
                        /\ p[2] < at'[p[1]] /\ require[p[1]] => LeaseOf(p).local'
        BY <1>0 DEF LeasesAreExact
    <2>1. CASE p = q
        BY <1>0, <1>a, <2>1
    <2>2. CASE p # q
        BY <1>a, <2>2, NamedAttempts DEF CoverInv, AttemptsInv, LeasesAreExact
    <2> QED BY <2>1, <2>2
<1>v. \A j \in Indexes : available'[j] = available[j] \/ available'[j] = None
    BY <1>0 DEF CoverInv, TypeOK
<1>5. InflightRuns'
    <2>1. \A b \in 1 .. created : att'[b].status = "running" <=> inflight[att'[b].index] = b
        BY <1>a DEF CoverInv, AttemptsInv, InflightRuns
    <2>2. \A i \in Indexes : inflight[i] # None =>
             /\ inflight[i] <= created /\ att'[inflight[i]].index = i
             /\ available'[i] = None
             /\ \E p \in Taken' : OpenLeases(inflight[i])' = {p}
        <3> SUFFICES ASSUME NEW i \in Indexes, inflight[i] # None
                     PROVE  /\ inflight[i] <= created /\ att'[inflight[i]].index = i
                            /\ available'[i] = None
                            /\ \E p \in Taken' : OpenLeases(inflight[i])' = {p}
            OBVIOUS
        <3>1. /\ inflight[i] \in 1 .. created /\ inflight[i] <= created
              /\ att[inflight[i]].index = i /\ available[i] = None
            BY NamedAttempts DEF CoverInv, AttemptsInv, InflightRuns
        <3>2. \E p \in Taken : OpenLeases(inflight[i]) = {p}
            BY DEF CoverInv, AttemptsInv, InflightRuns
        <3>3. OpenLeases(inflight[i])' = OpenLeases(inflight[i])
            BY <1>2 DEF OpenLeases
        <3> QED BY <1>a, <1>v, <3>1, <3>2, <3>3
    <2> QED BY <1>0, <2>1, <2>2 DEF InflightRuns
<1>6. LossIsTotal'
    <2>1. \A p \in Taken : LeaseOf(p).open => LeaseOf(p).attempt \in 1 .. created
        BY NamedAttempts DEF CoverInv, AttemptsInv, LeasesAreExact
    <2>2. \A p \in Taken : LeaseOf(p).open /\ p # q => (StillOwner(LeaseOf(p))' <=> StillOwner(LeaseOf(p)))
        BY <1>a, <2>1 DEF StillOwner
    <2> QED BY <2>2 DEF CoverInv, AttemptsInv, LossIsTotal
<1>7. AvailableIsDone'
    BY <1>0, <1>a, <1>v, NamedAttempts DEF CoverInv, AttemptsInv, AvailableIsDone
<1>w. /\ IsFiniteSet(Owed(a)') /\ Cardinality(Owed(a)') = Cardinality(Owed(a)) - 1
      /\ Cardinality(Owed(a)) \in Nat
    <2>1. IsFiniteSet(Owed(a))
        BY DEF CoverInv, AttemptsInv, WaitersAreCounted
    <2> QED BY <1>1, <2>1, FS_RemoveElement, FS_CardinalityType
<1>8. WaitersAreCounted'
    <2> SUFFICES ASSUME NEW b \in 1 .. created
                 PROVE  /\ IsFiniteSet(Owed(b)')
                        /\ att'[b].status = "failed" => error # None
                        /\ att'[b].status # "failed" => Cardinality(Owed(b)') <= att'[b].waiters
                        /\ att'[b].value => att'[b].status = "completed"
        BY <1>0 DEF WaitersAreCounted
    <2>1. /\ IsFiniteSet(Owed(b))
          /\ att[b].status = "failed" => error # None
          /\ att[b].status # "failed" => Cardinality(Owed(b)) <= att[b].waiters
          /\ att[b].value => att[b].status = "completed"
        BY DEF CoverInv, AttemptsInv, WaitersAreCounted
    <2>2. CASE b = a
        BY <1>a, <1>t, <1>w, <2>1, <2>2
    <2>3. CASE b # a
        BY <1>a, <1>1, <2>1, <2>3
    <2> QED BY <2>2, <2>3
<1>9. ValuesAreOwed'
    <2> SUFFICES ASSUME error = None, NEW b \in 1 .. created
                 PROVE  /\ att'[b].waiters = Cardinality(Owed(b)')
                        /\ att'[b].status = "completed" =>
                            /\ att'[b].value <=> att'[b].waiters # 0
                            /\ att'[b].value <=> available'[att'[b].index] = b
        BY <1>0 DEF ValuesAreOwed
    <2>1. /\ att[b].waiters = Cardinality(Owed(b))
          /\ att[b].status = "completed" =>
                /\ att[b].value <=> att[b].waiters # 0
                /\ att[b].value <=> available[att[b].index] = b
        BY DEF CoverInv, AttemptsInv, ValuesAreOwed
    <2>2. CASE b = a
        <3>1. available[att[a].index] = a
            BY <2>1, <2>2
        <3>2. (left # 0) <=> available'[att[a].index] = a
            BY <1>0, <3>1 DEF CoverInv, TypeOK
        <3>3. att'[b].waiters = Cardinality(Owed(b)') /\ att'[b].waiters = left
            BY <1>a, <1>t, <1>w, <2>1, <2>2
        <3>4. att'[b].value <=> left # 0
            BY <1>a, <2>2
        <3>5. att'[b].index = att[a].index
            BY <1>a, <2>2
        <3> QED BY <2>2, <3>2, <3>3, <3>4, <3>5
    <2>3. CASE b # a
        <3>1. available'[att[b].index] = b <=> available[att[b].index] = b
            BY <1>0, <1>t, <2>3 DEF CoverInv, TypeOK
        <3> QED BY <1>a, <1>1, <2>1, <2>3, <3>1
    <2> QED BY <2>2, <2>3
<1> QED BY <1>3, <1>4, <1>5, <1>6, <1>7, <1>8, <1>9 DEF AttemptsInv

-----------------------------------------------------------------------------
\* A claim of a batch: no error, and one lease more for the index at its head.
LEMMA TakeFacts ==
    ASSUME CoverInv, NEW t \in Threads, Claiming(t), NEW l \in Lease, Appended(t, l)
    PROVE  /\ leases' \in [Threads -> Seq(Lease)]
           /\ \E q : /\ q \notin Taken /\ Taken' = Taken \cup {q}
                     /\ q[1] = t /\ q[2] \in Nat /\ at[q[1]] \in Nat /\ at[q[1]] <= q[2]
                     /\ LeaseOf(q)' = l
           /\ \A p \in Taken : LeaseOf(p)' = LeaseOf(p)
<1>1. at[t] = 1
    BY DEF CoverInv, ClaimsAreAlone, Claiming
<1>2. /\ leases' \in [Threads -> Seq(Lease)]
      /\ \E q : /\ q \notin Taken /\ Taken' = Taken \cup {q}
                /\ q[1] = t /\ q[2] = Len(leases[t]) + 1 /\ LeaseOf(q)' = l
      /\ \A p \in Taken : LeaseOf(p)' = LeaseOf(p)
    BY AppendedLeases DEF CoverInv
<1>3. PICK q : /\ q \notin Taken /\ Taken' = Taken \cup {q}
               /\ q[1] = t /\ q[2] = Len(leases[t]) + 1 /\ LeaseOf(q)' = l
    BY <1>2
<1>4. q[2] \in Nat /\ at[q[1]] \in Nat /\ at[q[1]] <= q[2]
    BY <1>1, <1>3, LeaseTypes DEF CoverInv
<1> QED BY <1>2, <1>3, <1>4

\* The lease a thread waits for is one it does not own.
LEMMA CurrentFacts ==
    ASSUME CoverInv, NEW t \in Threads, Waiting(t)
    PROVE  \E k \in DOMAIN leases[t] :
              /\ k = at[t] /\ k \in Nat /\ <<t, k>> \in Taken
              /\ Current(t) = leases[t][k] /\ LeaseOf(<<t, k>>) = leases[t][k]
              /\ leases[t][k] \in Lease /\ ~leases[t][k].open
              /\ leases[t][k].attempt # None =>
                    /\ leases[t][k].attempt \in 1 .. created
                    /\ att[leases[t][k].attempt].index = leases[t][k].index
<1>1. /\ at[t] \in Nat /\ at[t] >= 1 /\ at[t] <= Len(leases[t])
      /\ Len(leases[t]) \in Nat /\ DOMAIN leases[t] = 1 .. Len(leases[t])
    BY LeaseTypes DEF CoverInv, TypeOK, LeasesAreWork, Waiting
<1>2. PICK k \in DOMAIN leases[t] : k = at[t]
    BY <1>1
<1>3. /\ <<t, k>> \in Taken /\ LeaseOf(<<t, k>>) = leases[t][k]
      /\ Current(t) = leases[t][k]
    BY <1>2, TakenIs DEF LeaseOf, Current
<1>4. leases[t][k] \in Lease
    BY <1>3, LeaseTypes DEF CoverInv
<1>5. ~leases[t][k].open
    BY <1>1, <1>2 DEF Waiting, Owned
<1>6. leases[t][k].attempt # None =>
         /\ leases[t][k].attempt \in 1 .. created
         /\ att[leases[t][k].attempt].index = leases[t][k].index
    BY <1>3, NamedAttempts DEF CoverInv, AttemptsInv, LeasesAreExact
<1> QED BY <1>1, <1>2, <1>3, <1>4, <1>5, <1>6

\* The steps of a claim.
LEMMA ClaimsKeepAttempts ==
    ASSUME CoverInv, NEW t \in Threads,
           JoinInflight(t) \/ SkipCovered(t) \/ JoinAvailable(t) \/ Own(t)
    PROVE  /\ AttemptsInv' /\ leases' \in [Threads -> Seq(Lease)]
           /\ att' \in [1 .. created' -> Attempt]
<1>0. Claiming(t)
    BY DEF JoinInflight, SkipCovered, JoinAvailable, Own
<1>i. PICK i : i = Head(ask[t])
    OBVIOUS
<1>j. i \in Indexes
    BY <1>0, <1>i, HeadTailProperties DEF CoverInv, TypeOK, Claiming
<1>e. error = None
    BY <1>0 DEF CoverInv, ClaimsAreAlone, Claiming
<1>1. CASE JoinInflight(t)
    <2>1. PICK a \in 1 .. created : a = inflight[i]
        BY <1>1, <1>i, <1>j, NamedAttempts DEF JoinInflight
    <2>2. /\ a \in Attempts \cup {None} /\ a <= created /\ att[a].index = i
          /\ att[a].status = "running"
        BY <1>1, <1>i, <1>j, <2>1, AttemptTypes DEF CoverInv, AttemptsInv, InflightRuns, JoinInflight
    <2>l. PICK l \in Lease : /\ l.index = i /\ l.attempt = a /\ ~l.open /\ ~l.local
                             /\ l = [index |-> i, attempt |-> a, open |-> FALSE, local |-> FALSE]
        BY <1>j, <2>2 DEF Lease
    <2>3. Appended(t, l) /\ UNCHANGED <<completed, error, require, at>>
        BY <1>1, <1>i, <2>1, <2>l DEF JoinInflight, Take, Appended
    <2>4. PICK q : /\ q \notin Taken /\ Taken' = Taken \cup {q}
                   /\ q[1] = t /\ q[2] \in Nat /\ at[q[1]] \in Nat /\ at[q[1]] <= q[2]
                   /\ LeaseOf(q)' = l
        BY <1>0, <2>3, TakeFacts
    <2>5. /\ \A p \in Taken : LeaseOf(p)' = LeaseOf(p)
          /\ leases' \in [Threads -> Seq(Lease)]
        BY <1>0, <2>3, TakeFacts
    <2>6. UNCHANGED <<inflight, available, active, created>>
        BY <1>1 DEF JoinInflight
    <2>7. CASE require[t]
        <3>1. AddValueWaiter(a)
            BY <1>1, <1>i, <2>1, <2>7 DEF JoinInflight
        <3>2. AttSet(a, att[a].status, att[a].value, att[a].waiters + 1)
            BY <2>6, <3>1, WaiterAdded DEF CoverInv
        <3> QED BY <2>2, <2>l, <2>3, <2>4, <2>5, <2>6, <2>7, <3>2, JoinsWaiter DEF AttSet
    <2>8. CASE ~require[t]
        <3>1. UNCHANGED att
            BY <1>1, <2>8 DEF JoinInflight
        <3> QED BY <2>2, <2>l, <2>3, <2>4, <2>5, <2>6, <2>8, <3>1, JoinsPlain DEF CoverInv, TypeOK
    <2> QED BY <2>7, <2>8
<1>2. CASE SkipCovered(t)
    <2>l. PICK l \in Lease : /\ l.attempt = None /\ ~l.open
                             /\ l = [index |-> i, attempt |-> None, open |-> FALSE, local |-> FALSE]
        BY <1>j DEF Lease
    <2>1. Appended(t, l) /\ ~require[t] /\ UNCHANGED <<completed, error, require, at>>
        BY <1>2, <1>i, <2>l DEF SkipCovered, Take, Appended
    <2>2. PICK q : /\ q \notin Taken /\ Taken' = Taken \cup {q} /\ q[1] = t
                   /\ LeaseOf(q)' = l
        BY <1>0, <2>1, TakeFacts
    <2>3. /\ \A p \in Taken : LeaseOf(p)' = LeaseOf(p)
          /\ leases' \in [Threads -> Seq(Lease)]
        BY <1>0, <2>1, TakeFacts
    <2>4. UNCHANGED <<inflight, available, active, att, created>>
        BY <1>2 DEF SkipCovered, attempts
    <2> QED BY <2>l, <2>1, <2>2, <2>3, <2>4, JoinsPlain DEF CoverInv, TypeOK
<1>3. CASE JoinAvailable(t)
    <2>1. PICK a \in 1 .. created : a = available[i]
        BY <1>3, <1>i, <1>j, NamedAttempts DEF JoinAvailable
    <2>2. /\ a \in Attempts \cup {None} /\ a # None /\ a <= created /\ att[a].index = i
          /\ att[a].status = "completed"
        BY <1>3, <1>i, <1>j, <2>1, AttemptTypes DEF CoverInv, AttemptsInv, AvailableIsDone, JoinAvailable
    <2>3. att[a].value
        BY <1>e, <2>1, <2>2 DEF CoverInv, AttemptsInv, ValuesAreOwed
    <2>l. PICK l \in Lease : /\ l.index = i /\ l.attempt = a /\ ~l.open /\ ~l.local
                             /\ l = [index |-> i, attempt |-> a, open |-> FALSE, local |-> FALSE]
        BY <1>j, <2>2 DEF Lease
    <2>4. /\ Appended(t, l) /\ AddValueWaiter(a) /\ require[t]
          /\ UNCHANGED <<completed, error, require, at>>
        BY <1>3, <1>i, <2>1, <2>l DEF JoinAvailable, Take, Appended
    <2>5. PICK q : /\ q \notin Taken /\ Taken' = Taken \cup {q}
                   /\ q[1] = t /\ q[2] \in Nat /\ at[q[1]] \in Nat /\ at[q[1]] <= q[2]
                   /\ LeaseOf(q)' = l
        BY <1>0, <2>4, TakeFacts
    <2>6. /\ \A p \in Taken : LeaseOf(p)' = LeaseOf(p)
          /\ leases' \in [Threads -> Seq(Lease)]
        BY <1>0, <2>4, TakeFacts
    <2>7. UNCHANGED <<inflight, available, active, created>>
        BY <1>3 DEF JoinAvailable
    <2>8. AttSet(a, att[a].status, att[a].value, att[a].waiters + 1)
        BY <2>4, <2>7, WaiterAdded DEF CoverInv
    <2> QED BY <2>2, <2>3, <2>l, <2>4, <2>5, <2>6, <2>7, <2>8, JoinsWaiter DEF AttSet
<1>4. CASE Own(t)
    <2>1. PICK n \in Nat : n = created + 1
        BY AttemptTypes DEF CoverInv
    <2>a. /\ created' = n /\ created < AttemptLimit
          /\ inflight[i] = None /\ inflight' = [inflight EXCEPT ![i] = n]
          /\ active' = active + 1 /\ att' = Append(att, NewAttempt(i))
          /\ available' = available
        BY <1>4, <1>i, <2>1 DEF Own
    <2>b. n \in Attempts \cup {None}
        BY <2>1, <2>a, AttemptTypes, LimitsAssumption DEF Attempts, CoverInv
    <2>l. PICK l \in Lease : /\ l.index = i /\ l.attempt = n /\ l.open /\ ~l.local
                             /\ l = [index |-> i, attempt |-> n, open |-> TRUE, local |-> FALSE]
        BY <1>j, <2>b DEF Lease
    <2>2. Appended(t, l) /\ UNCHANGED <<completed, error, require, at>>
        BY <1>4, <1>i, <2>a, <2>l DEF Own, Take, Appended
    <2>3. available[i] = None
        BY <1>4, <1>i, <1>j DEF Own, CoverInv, AttemptsInv, AvailableIsDone
    <2>4. PICK q : /\ q \notin Taken /\ Taken' = Taken \cup {q}
                   /\ q[1] = t /\ q[2] \in Nat /\ at[q[1]] \in Nat /\ at[q[1]] <= q[2]
                   /\ LeaseOf(q)' = l
        BY <1>0, <2>2, TakeFacts
    <2>5. /\ \A p \in Taken : LeaseOf(p)' = LeaseOf(p)
          /\ leases' \in [Threads -> Seq(Lease)]
        BY <1>0, <2>2, TakeFacts
    <2>6. NewAttempt(i) \in Attempt
        BY <1>j DEF NewAttempt, Attempt
    <2>7. att \in Seq(Attempt) /\ Len(att) = created
        BY AttemptTypes DEF CoverInv, TypeOK
    <2>8. /\ att' \in [1 .. n -> Attempt] /\ att'[n] = NewAttempt(i)
          /\ \A b \in 1 .. created : att'[b] = att[b]
        <3>1. /\ att' \in Seq(Attempt) /\ Len(att') = n /\ att'[n] = NewAttempt(i)
              /\ \A b \in 1 .. created : att'[b] = att[b]
            BY <2>1, <2>a, <2>6, <2>7, AppendProperties
        <3> QED BY <3>1, LenProperties
    <2> QED BY <1>e, <1>j, <2>1, <2>a, <2>l, <2>2, <2>3, <2>4, <2>5, <2>8, Owns
<1> QED BY <1>1, <1>2, <1>3, <1>4

\* The steps of an owner.
LEMMA OwnersKeepAttempts ==
    ASSUME CoverInv, NEW t \in Threads, Complete(t) \/ Fail(t) \/ LoseOwnership(t)
    PROVE  /\ AttemptsInv' /\ leases' \in [Threads -> Seq(Lease)]
           /\ att' \in [1 .. created' -> Attempt]
<1>1. CASE Complete(t)
    <2>1. PICK k \in Owned(t) :
             /\ StillOwner(leases[t][k]) /\ CompleteAttempt(leases[t][k])
             /\ leases' = [leases EXCEPT ![t][k] = [@ EXCEPT !.open = FALSE, !.local = require[t]]]
        BY <1>1 DEF Complete
    <2>2. PICK a \in 1 .. created : a = leases[t][k].attempt
        BY <2>1, OwnerFacts
    <2>3. PICK i \in Indexes : i = leases[t][k].index
        BY <2>1, OwnerFacts
    <2>4. /\ k \in DOMAIN leases[t] /\ <<t, k>> \in Taken /\ LeaseOf(<<t, k>>) = leases[t][k]
          /\ leases[t][k] \in Lease /\ leases[t][k].open
          /\ att[a].index = i /\ att[a].status = "running"
        BY <2>1, <2>2, <2>3, OwnerFacts
    <2>5. PICK l : l = [leases[t][k] EXCEPT !.open = FALSE, !.local = require[t]]
        OBVIOUS
    <2>6. l \in Lease /\ l.attempt = a /\ l.index = i /\ ~l.open /\ (require[t] => l.local)
        BY <2>2, <2>3, <2>4, <2>5 DEF Lease, CoverInv, TypeOK
    <2>7. Updated(t, k, l)
        BY <2>1, <2>4, <2>5 DEF Updated, CoverInv, TypeOK
    <2>8. /\ leases' \in [Threads -> Seq(Lease)] /\ Taken' = Taken /\ LeaseOf(<<t, k>>)' = l
          /\ \A p \in Taken : p # <<t, k>> => LeaseOf(p)' = LeaseOf(p)
        BY <2>4, <2>6, <2>7, UpdatedLeases DEF CoverInv
    <2>9. /\ inflight' = [inflight EXCEPT ![i] = None] /\ active' = active - 1
          /\ UNCHANGED <<error, created, require, at>>
        BY <1>1, <2>1, <2>3 DEF CompleteAttempt, Complete
    <2>a. att[a] \in Attempt /\ att[a].value \in BOOLEAN /\ att[a].waiters \in Nat
        BY AttemptTypes DEF CoverInv
    <2>b. CASE error = None
        <3>1. PICK v \in BOOLEAN : v = (att[a].waiters # 0)
            OBVIOUS
        <3>2. att' = [att EXCEPT ![a] = Finished(att[a])]
            BY <2>1, <2>2, <2>b DEF CompleteAttempt
        <3>3. AttSet(a, Finished(att[a]).status, Finished(att[a]).value, Finished(att[a]).waiters)
            BY <2>9, <2>a, <3>2, RecordsOfAttempts, AttemptIsSet DEF CoverInv
        <3>4. AttSet(a, "completed", v, att[a].waiters)
            BY <2>a, <3>1, <3>3, RecordsOfAttempts
        <3>5. /\ completed' = completed \cup {i}
              /\ available' = IF att[a].waiters # 0
                              THEN [available EXCEPT ![i] = a] ELSE available
            BY <2>1, <2>2, <2>3, <2>b DEF CompleteAttempt
        <3>6. AttemptsInv'
            BY <2>1, <2>2, <2>3, <2>4, <2>6, <2>8, <2>9, <2>b, <3>1, <3>4, <3>5, Completes
        <3> QED BY <2>8, <3>4, <3>6 DEF AttSet
    <2>c. CASE error # None
        <3>1. PICK v \in BOOLEAN : v = att[a].value
            BY <2>a
        <3>e. PICK r : r = [att[a] EXCEPT !.status = "completed"]
            OBVIOUS
        <3>f. r \in Attempt
            BY <2>a, <3>e DEF Attempt
        <3>g. /\ r.index = att[a].index /\ r.status = "completed"
              /\ r.value = att[a].value /\ r.waiters = att[a].waiters
            BY <2>a, <3>e DEF Attempt
        <3>r. r.value = v
            BY <3>1, <3>g
        <3>2. att' = [att EXCEPT ![a] = r]
            BY <2>1, <2>2, <2>c, <3>e, AttemptTypes DEF CompleteAttempt, CoverInv
        <3>3. AttSet(a, "completed", v, att[a].waiters)
            BY <2>9, <3>f, <3>g, <3>r, <3>2, AttemptIsSet DEF CoverInv
        <3>4. completed' = completed /\ available' = available
            BY <2>1, <2>c DEF CompleteAttempt
        <3>6. AttemptsInv'
            BY <2>1, <2>2, <2>3, <2>4, <2>6, <2>8, <2>9, <2>c, <3>3, <3>4, Completes
        <3> QED BY <2>8, <3>3, <3>6 DEF AttSet
    <2> QED BY <2>b, <2>c
<1>2. CASE Fail(t)
    <2>1. PICK k \in Owned(t) :
             /\ StillOwner(leases[t][k]) /\ FailAttempt(leases[t][k])
             /\ leases' = [leases EXCEPT ![t][k].open = FALSE]
        BY <1>2 DEF Fail
    <2>2. PICK a \in 1 .. created : a = leases[t][k].attempt
        BY <2>1, OwnerFacts
    <2>3. PICK i \in Indexes : i = leases[t][k].index
        BY <2>1, OwnerFacts
    <2>4. /\ k \in DOMAIN leases[t] /\ <<t, k>> \in Taken /\ LeaseOf(<<t, k>>) = leases[t][k]
          /\ leases[t][k] \in Lease /\ leases[t][k].open
          /\ att[a].index = i /\ att[a].status = "running"
        BY <2>1, <2>2, <2>3, OwnerFacts
    <2>5. PICK l : l = [leases[t][k] EXCEPT !.open = FALSE]
        OBVIOUS
    <2>6. l \in Lease /\ l.attempt = a /\ l.index = i /\ ~l.open
        BY <2>2, <2>3, <2>4, <2>5 DEF Lease
    <2>7. Updated(t, k, l)
        BY <2>1, <2>4, <2>5 DEF Updated, CoverInv, TypeOK
    <2>8. /\ leases' \in [Threads -> Seq(Lease)] /\ Taken' = Taken /\ LeaseOf(<<t, k>>)' = l
          /\ \A p \in Taken : p # <<t, k>> => LeaseOf(p)' = LeaseOf(p)
        BY <2>4, <2>6, <2>7, UpdatedLeases DEF CoverInv
    <2>9. /\ inflight' = [inflight EXCEPT ![i] = None] /\ active' = active - 1
          /\ UNCHANGED <<created, require, at, completed, available>>
        BY <1>2, <2>1, <2>3 DEF FailAttempt, Fail
    <2>a. /\ att[a] \in Attempt /\ att[a].value \in BOOLEAN
          /\ a \in Attempts \cup {None, Aborted} /\ a # None
        BY AttemptTypes DEF CoverInv, None
    <2>b. error' # None
        BY <2>1, <2>2, <2>a DEF FailAttempt
    <2>c. PICK v \in BOOLEAN : v = att[a].value
        BY <2>a
    <2>d. att' = [att EXCEPT ![a] = Failed(att[a], a)]
        BY <2>1, <2>2 DEF FailAttempt
    <2>e. AttSet(a, Failed(att[a], a).status, Failed(att[a], a).value, Failed(att[a], a).waiters)
        BY <2>9, <2>a, <2>d, RecordsOfAttempts, AttemptIsSet DEF CoverInv
    <2>f. AttSet(a, "failed", v, att[a].waiters)
        BY <2>a, <2>c, <2>e, RecordsOfAttempts
    <2>g. AttemptsInv'
        BY <2>1, <2>2, <2>3, <2>4, <2>6, <2>8, <2>9, <2>b, <2>c, <2>f, Fails
    <2> QED BY <2>8, <2>f, <2>g DEF AttSet
<1>3. CASE LoseOwnership(t)
    <2>1. /\ Dropped(t)
          /\ UNCHANGED <<completed, inflight, available, active, error, att, created, require, at>>
        BY <1>3 DEF LoseOwnership, Dropped, coord, attempts
    <2>2. /\ leases' \in [Threads -> Seq(Lease)] /\ Taken' = {p \in Taken : p[1] # t}
          /\ \A p \in Taken' : LeaseOf(p)' = LeaseOf(p)
        BY <2>1, DroppedLeases DEF CoverInv
    <2>3. error # None /\ \A i \in Indexes : inflight[i] = None
        <3>1. PICK k \in Owned(t) : ~StillOwner(leases[t][k])
            BY <1>3 DEF LoseOwnership
        <3>2. k \in DOMAIN leases[t] /\ leases[t][k].open
            BY LeaseTypes DEF Owned, CoverInv
        <3>3. <<t, k>> \in Taken /\ LeaseOf(<<t, k>>) = leases[t][k]
            BY <3>2, TakenIs DEF LeaseOf
        <3> QED BY <3>1, <3>2, <3>3 DEF CoverInv, AttemptsInv, LossIsTotal
    <2>4. \A p \in Taken : p[2] < at[p[1]] /\ require[p[1]] => LeaseOf(p).local
        BY DEF CoverInv, AttemptsInv, LeasesAreExact
    <2>5. AttemptsInv'
        BY <2>1, <2>2, <2>3, <2>4, KeepsAttempts
    <2> QED BY <2>1, <2>2, <2>5 DEF CoverInv, TypeOK
<1> QED BY <1>1, <1>2, <1>3

\* A wait raises only after a failure: without one, the value somebody is owed is
\* in memory.
LEMMA RaisesAfterError ==
    ASSUME CoverInv, NEW t \in Threads, WaitRaises(t)
    PROVE  error # None
<1> SUFFICES ASSUME error = None PROVE FALSE
    OBVIOUS
<1>1. PICK k \in DOMAIN leases[t] :
         /\ <<t, k>> \in Taken
         /\ Current(t) = leases[t][k] /\ LeaseOf(<<t, k>>) = leases[t][k]
         /\ ~leases[t][k].open
         /\ leases[t][k].attempt # None => leases[t][k].attempt \in 1 .. created
    BY CurrentFacts DEF WaitRaises
<1>2. PICK a \in 1 .. created : a = leases[t][k].attempt
    BY <1>1 DEF WaitRaises
<1>3. a # None /\ att[a].status # "running"
    BY <1>1, <1>2 DEF WaitRaises, MustWait
<1>4. att[a].status # "failed"
    BY DEF CoverInv, AttemptsInv, WaitersAreCounted
<1>5. att[a].status = "completed" /\ require[t] /\ ~leases[t][k].local /\ ~att[a].value
    BY <1>1, <1>2, <1>3, <1>4 DEF WaitRaises
<1>6. <<t, k>> \in Owed(a)
    BY <1>1, <1>2, <1>5 DEF Owed
<1>7. IsFiniteSet(Owed(a)) /\ att[a].waiters = Cardinality(Owed(a)) /\ att[a].waiters = 0
    BY <1>5 DEF CoverInv, AttemptsInv, WaitersAreCounted, ValuesAreOwed
<1> QED BY <1>6, <1>7, FS_EmptySet

\* The steps of a wait.
LEMMA WaitsKeepAttempts ==
    ASSUME CoverInv, NEW t \in Threads,
           WaitReturns(t) \/ WaitTakesValue(t) \/ WaitRaises(t) \/ BatchReturns(t)
    PROVE  /\ AttemptsInv' /\ leases' \in [Threads -> Seq(Lease)]
           /\ att' \in [1 .. created' -> Attempt]
<1>l. \A p \in Taken : /\ p[1] \in Threads /\ p[2] \in DOMAIN leases[p[1]]
                       /\ LeaseOf(p) = leases[p[1]][p[2]]
                       /\ p[2] < at[p[1]] /\ require[p[1]] => LeaseOf(p).local
    BY TakenIs DEF CoverInv, AttemptsInv, LeasesAreExact, LeaseOf
<1>d. /\ at[t] \in Nat /\ at \in [Threads -> Nat]
      /\ DOMAIN leases[t] = 1 .. Len(leases[t]) /\ Len(leases[t]) \in Nat
    BY LeaseTypes DEF CoverInv, TypeOK
<1>o. Owned(t) = {}
    BY DEF WaitReturns, WaitTakesValue, WaitRaises, BatchReturns, Waiting
<1>n. \A p \in Taken : p[1] = t => ~LeaseOf(p).open
    BY <1>l, <1>d, <1>o DEF Owned
<1>1. CASE WaitReturns(t)
    <2>1. /\ at' = [at EXCEPT ![t] = at[t] + 1]
          /\ UNCHANGED <<completed, inflight, available, active, error, att, created, require, leases>>
        BY <1>1 DEF WaitReturns, coord, attempts
    <2>2. Taken' = Taken /\ \A p \in Taken : LeaseOf(p)' = LeaseOf(p)
        BY <2>1 DEF Taken, LeaseOf
    <2>3. require[t] => leases[t][at[t]].local
        BY <1>1 DEF WaitReturns, Current
    <2>4. \A p \in Taken : p[2] < at'[p[1]] /\ require[p[1]] => LeaseOf(p).local
        <3> SUFFICES ASSUME NEW p \in Taken, p[2] < at'[p[1]], require[p[1]]
                     PROVE  LeaseOf(p).local
            OBVIOUS
        <3>1. CASE p[1] # t
            BY <1>l, <1>d, <2>1, <3>1
        <3>2. CASE p[1] = t /\ p[2] = at[t]
            BY <1>l, <2>3, <3>2
        <3>3. CASE p[1] = t /\ p[2] # at[t]
            BY <1>l, <1>d, <2>1, <3>3
        <3> QED BY <3>1, <3>2, <3>3
    <2>5. AttemptsInv'
        BY <2>1, <2>2, <2>4, KeepsAttempts
    <2> QED BY <2>1, <2>5 DEF CoverInv, TypeOK
<1>2. CASE WaitTakesValue(t)
    <2>1. PICK k \in DOMAIN leases[t] :
             /\ k = at[t] /\ k \in Nat /\ <<t, k>> \in Taken
             /\ Current(t) = leases[t][k] /\ LeaseOf(<<t, k>>) = leases[t][k]
             /\ leases[t][k] \in Lease /\ ~leases[t][k].open
             /\ leases[t][k].attempt # None =>
                   /\ leases[t][k].attempt \in 1 .. created
                   /\ att[leases[t][k].attempt].index = leases[t][k].index
        BY <1>2, CurrentFacts DEF WaitTakesValue
    <2>2. PICK a \in 1 .. created : a = leases[t][k].attempt
        BY <1>2, <2>1 DEF WaitTakesValue
    <2>3. PICK i \in Indexes : i = leases[t][k].index /\ i = att[a].index
        BY <1>2, <2>1, <2>2, AttemptTypes DEF WaitTakesValue, CoverInv
    <2>4. /\ att[a].status = "completed" /\ require[t] /\ ~leases[t][k].local /\ att[a].value
          /\ att[a] \in Attempt /\ att[a].waiters \in Nat
        BY <1>2, <2>1, <2>2, AttemptTypes DEF WaitTakesValue, CoverInv
    <2>5. PICK left \in Nat : left + 1 = att[a].waiters /\ left = att[a].waiters - 1
        <3>1. <<t, k>> \in Owed(a)
            BY <2>1, <2>2, <2>4 DEF Owed
        <3>2. IsFiniteSet(Owed(a)) /\ Cardinality(Owed(a)) <= att[a].waiters
            BY <2>4 DEF CoverInv, AttemptsInv, WaitersAreCounted
        <3>3. Cardinality(Owed(a)) \in Nat /\ Cardinality(Owed(a)) # 0
            BY <3>1, <3>2, FS_EmptySet, FS_CardinalityType
        <3>4. att[a].waiters - 1 \in Nat
            BY <2>4, <3>2, <3>3
        <3> QED BY <2>4, <3>4
    <2>6. PICK r : r = [att[a] EXCEPT !.waiters = left, !.value = (left # 0)]
        OBVIOUS
    <2>7. r \in Attempt
        BY <2>4, <2>6 DEF Attempt
    <2>8. r.index = att[a].index /\ r.status = "completed" /\ r.waiters = left
        BY <2>4, <2>6 DEF Attempt
    <2>9. r.value = (left # 0)
        BY <2>4, <2>6 DEF Attempt
    <2>j. /\ att' = [att EXCEPT ![a] = [@ EXCEPT !.waiters = left, !.value = left # 0]]
          /\ available' = IF left = 0 /\ available[i] = a
                          THEN [available EXCEPT ![i] = None] ELSE available
        BY <1>2, <2>1, <2>2, <2>3, <2>5 DEF WaitTakesValue
    <2>k. /\ leases' = [leases EXCEPT ![t][k].local = TRUE]
          /\ at' = [at EXCEPT ![t] = at[t] + 1]
          /\ UNCHANGED <<completed, inflight, active, error, created, require>>
        BY <1>2, <2>1 DEF WaitTakesValue
    <2>a. /\ att' = [att EXCEPT ![a] = r]
          /\ leases' = [leases EXCEPT ![t][k].local = TRUE]
          /\ available' = IF left = 0 /\ available[i] = a
                          THEN [available EXCEPT ![i] = None] ELSE available
          /\ at' = [at EXCEPT ![t] = at[t] + 1]
          /\ UNCHANGED <<completed, inflight, active, error, created, require>>
        BY <2>6, <2>j, <2>k, AttemptTypes DEF CoverInv
    <2>b. AttSet(a, "completed", left # 0, left)
        BY <2>7, <2>8, <2>9, <2>a, AttemptIsSet DEF CoverInv
    <2>c. PICK l : l = [leases[t][k] EXCEPT !.local = TRUE]
        OBVIOUS
    <2>d. /\ l \in Lease /\ l.attempt = a /\ l.index = leases[t][k].index
          /\ ~l.open /\ l.local
        BY <2>1, <2>2, <2>c DEF Lease
    <2>e. Updated(t, k, l)
        BY <2>1, <2>a, <2>c DEF Updated, CoverInv, TypeOK
    <2>f. /\ leases' \in [Threads -> Seq(Lease)] /\ Taken' = Taken /\ LeaseOf(<<t, k>>)' = l
          /\ \A p \in Taken : p # <<t, k>> => LeaseOf(p)' = LeaseOf(p)
        BY <2>1, <2>d, <2>e, UpdatedLeases DEF CoverInv
    <2>g. \A p \in Taken : p # <<t, k>> => (p[2] < at'[p[1]] => p[2] < at[p[1]])
        <3> SUFFICES ASSUME NEW p \in Taken, p # <<t, k>>, p[2] < at'[p[1]]
                     PROVE  p[2] < at[p[1]]
            OBVIOUS
        <3>1. CASE p[1] # t
            BY <1>l, <1>d, <2>a, <3>1
        <3>2. CASE p[1] = t
            <4>1. p[2] # k /\ p[2] \in Nat
                BY <1>l, <1>d, <3>2, TakenIs
            <4> QED BY <1>d, <2>1, <2>a, <3>2, <4>1
        <3> QED BY <3>1, <3>2
    <2>z. \E q : q = <<t, k>>
        OBVIOUS
    <2>h. PICK q : q = <<t, k>> /\ q[1] = t
        BY <2>z
    <2>i. AttemptsInv'
        BY <2>1, <2>2, <2>3, <2>4, <2>5, <2>a, <2>b, <2>d, <2>f, <2>g, <2>h, TakesValue
    <2> QED BY <2>b, <2>f, <2>i DEF AttSet
<1>3. ASSUME WaitRaises(t) \/ BatchReturns(t)
      PROVE  /\ AttemptsInv' /\ leases' \in [Threads -> Seq(Lease)]
             /\ att' \in [1 .. created' -> Attempt]
    <2>1. /\ Dropped(t)
          /\ UNCHANGED <<completed, inflight, available, active, error, att, created, require, at>>
        BY <1>3 DEF WaitRaises, BatchReturns, Dropped, coord, attempts
    <2>2. /\ leases' \in [Threads -> Seq(Lease)] /\ Taken' = {p \in Taken : p[1] # t}
          /\ \A p \in Taken' : LeaseOf(p)' = LeaseOf(p)
        BY <2>1, DroppedLeases DEF CoverInv
    <2>3. ASSUME NEW p \in Taken, p[1] = t, error = None
          PROVE  LeaseOf(p).local \/ ~require[p[1]]
        <3>1. BatchReturns(t)
            BY <1>3, <2>3, RaisesAfterError
        <3>2. at[t] > Len(leases[t])
            BY <3>1 DEF BatchReturns
        <3> QED BY <1>l, <1>d, <2>3, <3>2
    <2>5. AttemptsInv'
        BY <1>l, <1>n, <2>1, <2>2, <2>3, KeepsAttempts
    <2> QED BY <2>1, <2>2, <2>5 DEF CoverInv, TypeOK
<1> QED BY <1>1, <1>2, <1>3

\* The steps that only move a thread, and a claim that is let in or refused.
LEMMA CallsKeepAttempts ==
    ASSUME CoverInv, NEW t \in Threads,
           \/ ClaimBatch(t) \/ WaitComplete(t) \/ Close(t) \/ Claimed(t)
           \/ WaitParks(t) \/ WaitCompleteStep(t) \/ CloseStep(t)
    PROVE  /\ AttemptsInv' /\ leases' \in [Threads -> Seq(Lease)]
           /\ att' \in [1 .. created' -> Attempt]
<1>0. UNCHANGED <<completed, inflight, available, active, error, att, created>>
    BY DEF ClaimBatch, WaitComplete, Close, Claimed, WaitParks, WaitCompleteStep, CloseStep,
           coord, attempts
<1>l. \A p \in Taken : /\ p[1] \in Threads
                       /\ p[2] < at[p[1]] /\ require[p[1]] => LeaseOf(p).local
    BY TakenIs DEF CoverInv, AttemptsInv, LeasesAreExact
<1>1. CASE UNCHANGED <<leases, require, at>>
    <2>1. Taken' = Taken /\ \A p \in Taken : LeaseOf(p)' = LeaseOf(p)
        BY <1>1 DEF Taken, LeaseOf
    <2>2. AttemptsInv'
        BY <1>0, <1>l, <1>1, <2>1, KeepsAttempts
    <2> QED BY <1>0, <1>1, <2>2 DEF CoverInv, TypeOK
<1>2. CASE ~UNCHANGED <<leases, require, at>>
    <2>1. ClaimBatch(t)
        BY <1>2 DEF ClaimBatch, WaitComplete, Close, Claimed, WaitParks, WaitCompleteStep,
                    CloseStep, batch
    <2>2. /\ Dropped(t) /\ pc[t] = "idle"
          /\ \A u \in Threads : u # t => require'[u] = require[u] /\ at'[u] = at[u]
        BY <1>2, <2>1 DEF ClaimBatch, Call, Dropped, batch, CoverInv, TypeOK
    <2>3. /\ leases' \in [Threads -> Seq(Lease)] /\ Taken' = {p \in Taken : p[1] # t}
          /\ \A p \in Taken' : LeaseOf(p)' = LeaseOf(p)
        BY <2>2, DroppedLeases DEF CoverInv
    <2>4. \A p \in Taken : p[1] # t
        <3>1. DOMAIN leases[t] = {}
            BY <2>2 DEF CoverInv, LeasesAreWork
        <3> QED BY <3>1, TakenIs
    <2>5. AttemptsInv'
        BY <1>0, <1>l, <2>2, <2>3, <2>4, KeepsAttempts
    <2> QED BY <1>0, <2>3, <2>5 DEF CoverInv, TypeOK
<1> QED BY <1>1, <1>2

LEMMA AbortKeepsAttempts ==
    ASSUME CoverInv, NEW t \in Threads, Abort(t)
    PROVE  /\ AttemptsInv' /\ leases' \in [Threads -> Seq(Lease)]
           /\ att' \in [1 .. created' -> Attempt]
<1>0. /\ AbortAll(Aborted) /\ UNCHANGED <<leases, require, at, completed, available, created>>
      /\ inflight' = [i \in Indexes |-> None] /\ active' = 0
    BY DEF Abort, AbortAll, batch
<1>1. PICK c \in Attempts \cup {None, Aborted} : c = error' /\ c # None
    BY <1>0 DEF AbortAll, CoverInv, TypeOK, Aborted, None
<1>2. att' = [a \in 1 .. created |->
                 IF inflight[att[a].index] = a
                 THEN Abandoned(att[a], c) ELSE att[a]]
    <2>1. att' = [a \in DOMAIN att |->
                     IF inflight[att[a].index] = a
                     THEN Abandoned(att[a], error') ELSE att[a]]
        BY <1>0 DEF AbortAll
    <2> QED BY <1>1, <2>1, AttemptTypes DEF CoverInv
<1>3. ASSUME NEW b \in 1 .. created
      PROVE  /\ att'[b] \in Attempt
             /\ IF inflight[att[b].index] = b
                THEN /\ att'[b].index = att[b].index /\ att'[b].status = "failed"
                     /\ ~att'[b].value /\ att'[b].waiters = att[b].waiters
                ELSE att'[b] = att[b]
    <2>1. PICK w \in Attempt : w = Abandoned(att[b], c)
        BY <1>1, AttemptTypes, RecordsOfAttempts DEF CoverInv
    <2>2. PICK r \in Attempt : r = att[b]
        BY AttemptTypes DEF CoverInv
    <2>3. /\ w.index = r.index /\ w.status = "failed"
          /\ ~w.value /\ w.waiters = r.waiters
        BY <2>1, <2>2 DEF Abandoned, Attempt
    <2>4. att'[b] = IF inflight[att[b].index] = b THEN w ELSE att[b]
        BY <1>2, <2>1
    <2>5. att[b] \in Attempt
        BY AttemptTypes DEF CoverInv
    <2> QED BY <2>2, <2>3, <2>4, <2>5
<1>4. att' \in [1 .. created -> Attempt]
    BY <1>2, <1>3
<1>5. AttemptsInv'
    BY <1>0, <1>1, <1>3, <1>4, AbortsAll
<1> QED BY <1>0, <1>4, <1>5 DEF CoverInv, TypeOK

LEMMA AttemptsStep ==
    ASSUME CoverInv, Next
    PROVE  /\ AttemptsInv' /\ leases' \in [Threads -> Seq(Lease)]
           /\ att' \in [1 .. created' -> Attempt]
BY ClaimsKeepAttempts, OwnersKeepAttempts, WaitsKeepAttempts, CallsKeepAttempts,
   AbortKeepsAttempts DEF Next, Step

-----------------------------------------------------------------------------
\* The other variables keep their types.
LEMMA CoordTypes ==
    ASSUME CoverInv, NEW t \in Threads,
           \/ JoinInflight(t) \/ SkipCovered(t) \/ JoinAvailable(t) \/ Own(t)
           \/ WaitTakesValue(t) \/ Close(t) \/ Abort(t)
    PROVE  /\ completed' \in SUBSET Indexes
           /\ inflight' \in [Indexes -> Attempts \cup {None}]
           /\ available' \in [Indexes -> Attempts \cup {None}]
           /\ error' \in Attempts \cup {None, Aborted}
           /\ closed' \in BOOLEAN
           /\ created' \in 0 .. AttemptLimit
           /\ parked' \in SUBSET Threads
<1>1. TypeOK
    BY DEF CoverInv
<1>2. CASE JoinInflight(t) \/ SkipCovered(t) \/ JoinAvailable(t)
    BY <1>1, <1>2 DEF TypeOK, JoinInflight, SkipCovered, JoinAvailable, Take, attempts
<1>3. CASE Own(t)
    <2>1. created' = created + 1 /\ created + 1 \in 0 .. AttemptLimit /\ created + 1 \in Attempts
        BY <1>1, <1>3, LimitsAssumption DEF TypeOK, Own, Attempts
    <2>2. inflight' = [inflight EXCEPT ![Head(ask[t])] = created + 1]
        BY <1>3 DEF Own
    <2> QED BY <1>1, <1>3, <2>1, <2>2 DEF TypeOK, Own, Take
<1>4. CASE WaitTakesValue(t)
    BY <1>1, <1>4 DEF TypeOK, WaitTakesValue
<1>5. CASE Close(t)
    BY <1>1, <1>5 DEF TypeOK, Close, NotifyAll, attempts
<1>6. CASE Abort(t)
    BY <1>1, <1>6 DEF TypeOK, Abort, AbortAll, NotifyAll
<1> QED BY <1>2, <1>3, <1>4, <1>5, <1>6

LEMMA OwnerTypes ==
    ASSUME CoverInv, NEW t \in Threads, Complete(t) \/ Fail(t)
    PROVE  /\ completed' \in SUBSET Indexes
           /\ inflight' \in [Indexes -> Attempts \cup {None}]
           /\ available' \in [Indexes -> Attempts \cup {None}]
           /\ error' \in Attempts \cup {None, Aborted}
           /\ closed' \in BOOLEAN
           /\ created' \in 0 .. AttemptLimit
           /\ parked' \in SUBSET Threads
<1>1. PICK k \in Owned(t) :
         /\ StillOwner(leases[t][k])
         /\ CompleteAttempt(leases[t][k]) \/ FailAttempt(leases[t][k])
    BY DEF Complete, Fail
<1>2. PICK l : l = leases[t][k] /\ l.index \in Indexes /\ l.attempt \in Attempts
    BY <1>1, OwnerFacts, AttemptTypes DEF CoverInv
<1>3. TypeOK /\ parked' = {}
    BY <1>1 DEF CoverInv, CompleteAttempt, FailAttempt, NotifyAll
<1>4. CASE CompleteAttempt(l)
    BY <1>2, <1>3, <1>4 DEF TypeOK, CompleteAttempt
<1>5. CASE FailAttempt(l)
    BY <1>2, <1>3, <1>5 DEF TypeOK, FailAttempt
<1> QED BY <1>1, <1>2, <1>4, <1>5

CoordTypeOK ==
    /\ completed \in SUBSET Indexes
    /\ inflight \in [Indexes -> Attempts \cup {None}]
    /\ available \in [Indexes -> Attempts \cup {None}]
    /\ error \in Attempts \cup {None, Aborted}
    /\ closed \in BOOLEAN
    /\ created \in 0 .. AttemptLimit
    /\ parked \in SUBSET Threads

ThreadTypeOK ==
    /\ monitor \in Threads \cup {Nobody}
    /\ pc \in [Threads -> {"idle", "claim", "hold", "waitall", "close"}]
    /\ ask \in [Threads -> Seq(Indexes)]
    /\ require \in [Threads -> BOOLEAN]
    /\ at \in [Threads -> Nat]
    /\ outcome \in [Threads ->
           [kind : {"none", "returned", "refused", "raised", "inactive", "unavailable",
                    "incomplete"},
            cause : Attempts \cup {None, Aborted}]]
    /\ calls \in 0 .. CallLimit

\* How a call ends; it stays in a call otherwise.
EndsOrStays(t) ==
    \/ \E kind \in {"returned", "refused", "raised", "inactive", "unavailable", "incomplete"},
          cause \in Attempts \cup {None, Aborted} : End(t, kind, cause)
    \/ /\ outcome' = outcome
       /\ \E call \in {"claim", "hold", "waitall", "close"} : pc' = [pc EXCEPT ![t] = call]
    \/ UNCHANGED <<pc, outcome>>

LEMMA EndTypes ==
    ASSUME ThreadTypeOK, NEW t \in Threads, EndsOrStays(t)
    PROVE  /\ pc' \in [Threads -> {"idle", "claim", "hold", "waitall", "close"}]
           /\ outcome' \in [Threads ->
                  [kind : {"none", "returned", "refused", "raised", "inactive", "unavailable",
                           "incomplete"},
                   cause : Attempts \cup {None, Aborted}]]
<1>1. CASE UNCHANGED <<pc, outcome>>
    BY <1>1 DEF ThreadTypeOK
<1>2. CASE /\ outcome' = outcome
           /\ \E call \in {"claim", "hold", "waitall", "close"} : pc' = [pc EXCEPT ![t] = call]
    BY <1>2 DEF ThreadTypeOK
<1>3. CASE \E kind \in {"returned", "refused", "raised", "inactive", "unavailable", "incomplete"},
              cause \in Attempts \cup {None, Aborted} : End(t, kind, cause)
    BY <1>3 DEF ThreadTypeOK, End
<1> QED BY <1>1, <1>2, <1>3 DEF EndsOrStays

LEMMA CoordStep ==
    ASSUME CoverInv, Next
    PROVE  CoordTypeOK'
<1>0. TypeOK
    BY DEF CoverInv
<1>1. PICK t \in Threads : ClaimBatch(t) \/ WaitComplete(t) \/ Close(t) \/ Abort(t) \/ Step(t)
    BY DEF Next
<1>2. CASE \/ JoinInflight(t) \/ SkipCovered(t) \/ JoinAvailable(t) \/ Own(t)
           \/ WaitTakesValue(t) \/ Close(t) \/ Abort(t)
    BY <1>2, CoordTypes DEF CoordTypeOK
<1>3. CASE Complete(t) \/ Fail(t)
    BY <1>3, OwnerTypes DEF CoordTypeOK
<1>4. CASE ClaimBatch(t) \/ WaitComplete(t) \/ Claimed(t) \/ LoseOwnership(t)
           \/ WaitReturns(t) \/ WaitRaises(t) \/ BatchReturns(t)
    <2>1. UNCHANGED <<coord, attempts, parked>>
        BY <1>4 DEF ClaimBatch, WaitComplete, Claimed, LoseOwnership, WaitReturns, WaitRaises,
                    BatchReturns
    <2> QED BY <1>0, <2>1 DEF TypeOK, CoordTypeOK, coord, attempts
<1>5. CASE WaitParks(t) \/ WaitCompleteStep(t) \/ CloseStep(t)
    <2>1. UNCHANGED <<coord, attempts>> /\ (parked' = parked \/ parked' = parked \cup {t})
        BY <1>5 DEF WaitParks, WaitCompleteStep, CloseStep, Park
    <2> QED BY <1>0, <2>1 DEF TypeOK, CoordTypeOK, coord, attempts
<1> QED BY <1>1, <1>2, <1>3, <1>4, <1>5 DEF Step

LEMMA ThreadStep ==
    ASSUME CoverInv, Next
    PROVE  ThreadTypeOK'
<1>0. ThreadTypeOK /\ error \in Attempts \cup {None, Aborted}
    BY DEF CoverInv, TypeOK, ThreadTypeOK
<1>1. PICK t \in Threads : ClaimBatch(t) \/ WaitComplete(t) \/ Close(t) \/ Abort(t) \/ Step(t)
    BY DEF Next
<1>c. Call(t) => calls' \in 0 .. CallLimit
    BY <1>0, LimitsAssumption DEF Call, ThreadTypeOK
<1>e. error \in Attempts \cup {None, Aborted} /\ None \in Attempts \cup {None, Aborted}
    BY <1>0
<1>2. CASE ClaimBatch(t)
    <2>1. CASE error # None \/ closed
        <3>1. End(t, "refused", error) /\ Call(t) /\ UNCHANGED <<monitor, ask, require, at>>
            BY <1>2, <2>1 DEF ClaimBatch, batch
        <3>2. EndsOrStays(t)
            BY <1>e, <3>1 DEF EndsOrStays
        <3> QED BY <1>0, <1>c, <3>1, <3>2, EndTypes DEF ThreadTypeOK
    <2>2. CASE ~(error # None \/ closed)
        <3>1. PICK indexes \in Batches, value \in BOOLEAN :
                 /\ monitor' = t /\ pc' = [pc EXCEPT ![t] = "claim"] /\ UNCHANGED outcome
                 /\ ask' = [ask EXCEPT ![t] = indexes] /\ require' = [require EXCEPT ![t] = value]
                 /\ at' = [at EXCEPT ![t] = 1] /\ Call(t)
            BY <1>2, <2>2 DEF ClaimBatch
        <3>2. EndsOrStays(t) /\ indexes \in Seq(Indexes)
            BY <3>1, IndexesAssumption DEF EndsOrStays
        <3> QED BY <1>0, <1>c, <3>1, <3>2, EndTypes DEF ThreadTypeOK
    <2> QED BY <2>1, <2>2
<1>3. CASE WaitComplete(t) \/ Close(t) \/ Abort(t)
    <2>1. Call(t) /\ UNCHANGED <<monitor, ask, require, at>>
        BY <1>3 DEF WaitComplete, Close, Abort, batch
    <2>2. EndsOrStays(t)
        BY <1>e, <1>3 DEF WaitComplete, Close, Abort, EndsOrStays
    <2> QED BY <1>0, <1>c, <2>1, <2>2, EndTypes DEF ThreadTypeOK
<1>5. CASE JoinInflight(t) \/ SkipCovered(t) \/ JoinAvailable(t) \/ Own(t)
    <2>1. /\ ask' = [ask EXCEPT ![t] = Tail(ask[t])] /\ ask[t] # <<>>
          /\ UNCHANGED <<monitor, pc, require, at, outcome, calls>>
        BY <1>0, <1>5 DEF JoinInflight, SkipCovered, JoinAvailable, Own, Take, Claiming, ThreadTypeOK
    <2>2. Tail(ask[t]) \in Seq(Indexes)
        BY <1>0, <2>1, HeadTailProperties DEF ThreadTypeOK
    <2> QED BY <1>0, <2>1, <2>2 DEF ThreadTypeOK
<1>6. CASE Claimed(t)
    BY <1>0, <1>6 DEF Claimed, ThreadTypeOK, batch
<1>7. CASE Complete(t) \/ Fail(t)
    BY <1>0, <1>7 DEF Complete, Fail, ThreadTypeOK
<1>9. CASE WaitParks(t) \/ WaitReturns(t) \/ WaitTakesValue(t)
    BY <1>0, <1>9 DEF WaitParks, WaitReturns, WaitTakesValue, ThreadTypeOK, batch
<1>10. CASE LoseOwnership(t) \/ WaitRaises(t) \/ BatchReturns(t) \/ WaitCompleteStep(t) \/ CloseStep(t)
    <2>1. UNCHANGED <<monitor, ask, require, at, calls>>
        BY <1>10 DEF LoseOwnership, WaitRaises, BatchReturns, WaitCompleteStep, CloseStep, batch
    <2>2. EndsOrStays(t)
        <3>1. CASE LoseOwnership(t) \/ BatchReturns(t) \/ WaitCompleteStep(t) \/ CloseStep(t)
            BY <1>e, <3>1 DEF LoseOwnership, BatchReturns, WaitCompleteStep, CloseStep, EndsOrStays
        <3>2. CASE WaitRaises(t)
            <4>1. PICK k \in DOMAIN leases[t] :
                     /\ Current(t) = leases[t][k]
                     /\ leases[t][k].attempt # None => leases[t][k].attempt \in 1 .. created
                BY <3>2, CurrentFacts DEF WaitRaises
            <4>2. PICK a \in 1 .. created : a = Current(t).attempt
                BY <3>2, <4>1 DEF WaitRaises
            <4>3. att[a].cause \in Attempts \cup {None, Aborted}
                BY AttemptTypes DEF CoverInv, Attempt
            <4>4. \/ End(t, "raised", att[a].cause) \/ End(t, "raised", error)
                  \/ End(t, "unavailable", None)
                BY <3>2, <4>2 DEF WaitRaises
            <4> QED BY <1>e, <4>3, <4>4 DEF EndsOrStays
        <3> QED BY <1>10, <3>1, <3>2
    <2> QED BY <1>0, <2>1, <2>2, EndTypes DEF ThreadTypeOK
<1> QED BY <1>1, <1>2, <1>3, <1>5, <1>6, <1>7, <1>9, <1>10 DEF Step

LEMMA TypeStep ==
    ASSUME CoverInv, Next
    PROVE  TypeOK'
<1>1. CoordTypeOK' /\ ThreadTypeOK'
    BY CoordStep, ThreadStep
<1>2. /\ AttemptsInv' /\ leases' \in [Threads -> Seq(Lease)]
      /\ att' \in [1 .. created' -> Attempt]
    BY AttemptsStep
<1>3. active' \in Nat
    <2>1. InFlight' \in SUBSET Indexes
        BY DEF InFlight
    <2>2. IsFiniteSet(InFlight')
        BY <2>1, IndexesAssumption, FS_Subset
    <2> QED BY <1>2, <2>2, FS_CardinalityType DEF AttemptsInv
<1> QED BY <1>1, <1>2, <1>3 DEF CoordTypeOK, ThreadTypeOK, TypeOK

-----------------------------------------------------------------------------
\* Whoever is not in a claim leaves the claim of another alone.
LEMMA ClaimsStep ==
    ASSUME CoverInv, Next
    PROVE  ClaimsAreAlone'
<1>1. PICK t \in Threads : ClaimBatch(t) \/ WaitComplete(t) \/ Close(t) \/ Abort(t) \/ Step(t)
    BY DEF Next
<1>n. monitor = Nobody => \A u \in Threads : pc[u] # "claim"
    BY NobodyAssumption DEF CoverInv, ClaimsAreAlone
<1>a. \A u \in Threads : pc[u] = "claim" => monitor = u /\ error = None /\ at[u] = 1
    BY DEF CoverInv, ClaimsAreAlone
<1>t. /\ pc \in [Threads -> {"idle", "claim", "hold", "waitall", "close"}]
      /\ at \in [Threads -> Nat]
    BY DEF CoverInv, TypeOK
<1>2. CASE ClaimBatch(t)
    <2>1. CASE error # None \/ closed
        BY <1>n, <1>t, <1>2, <2>1 DEF ClaimBatch, Call, End, ClaimsAreAlone
    <2>2. CASE ~(error # None \/ closed)
        BY <1>n, <1>t, <1>2, <2>2 DEF ClaimBatch, Call, ClaimsAreAlone, coord
    <2> QED BY <2>1, <2>2
<1>3. CASE WaitComplete(t) \/ Close(t) \/ Abort(t)
    <2>1. monitor = Nobody /\ \E call \in {"waitall", "close", "idle"} : pc' = [pc EXCEPT ![t] = call]
        BY <1>3 DEF WaitComplete, Close, Abort, Call, End
    <2> QED BY <1>n, <1>t, <2>1 DEF ClaimsAreAlone
<1>4. CASE JoinInflight(t) \/ SkipCovered(t) \/ JoinAvailable(t) \/ Own(t)
    <2>1. UNCHANGED <<pc, at, monitor, error>>
        BY <1>4 DEF JoinInflight, SkipCovered, JoinAvailable, Own, Take
    <2> QED BY <1>a, <2>1 DEF ClaimsAreAlone
<1>5. CASE Claimed(t)
    <2>1. pc[t] = "claim" /\ pc' = [pc EXCEPT ![t] = "hold"]
        BY <1>5 DEF Claimed
    <2> QED BY <1>a, <1>t, <2>1 DEF ClaimsAreAlone
<1>6. CASE Complete(t) \/ Fail(t)
    <2>1. monitor = Nobody /\ pc' = pc
        BY <1>6 DEF Complete, Fail
    <2> QED BY <1>n, <2>1 DEF ClaimsAreAlone
<1>7. CASE WaitReturns(t) \/ WaitTakesValue(t)
    <2>1. monitor = Nobody /\ pc' = pc
        BY <1>7 DEF WaitReturns, WaitTakesValue, Waiting
    <2> QED BY <1>n, <2>1 DEF ClaimsAreAlone
<1>8. CASE \/ LoseOwnership(t) \/ WaitParks(t) \/ WaitRaises(t) \/ BatchReturns(t)
           \/ WaitCompleteStep(t) \/ CloseStep(t)
    <2>1. /\ UNCHANGED <<at, monitor, error>>
          /\ pc' = pc \/ pc' = [pc EXCEPT ![t] = "idle"]
        BY <1>8 DEF LoseOwnership, WaitParks, WaitRaises, BatchReturns, WaitCompleteStep,
                    CloseStep, End, coord, batch
    <2> QED BY <1>a, <1>t, <2>1 DEF ClaimsAreAlone
<1> QED BY <1>1, <1>2, <1>3, <1>4, <1>5, <1>6, <1>7, <1>8 DEF Step

LEMMA LeasesStep ==
    ASSUME CoverInv, Next
    PROVE  LeasesAreWork'
<1>1. PICK t \in Threads : ClaimBatch(t) \/ WaitComplete(t) \/ Close(t) \/ Abort(t) \/ Step(t)
    BY DEF Next
<1>a. \A u \in Threads : at[u] >= 1 /\ (pc[u] \notin {"claim", "hold"} => leases[u] = <<>>)
    BY DEF CoverInv, LeasesAreWork
<1>t. /\ pc \in [Threads -> {"idle", "claim", "hold", "waitall", "close"}]
      /\ at \in [Threads -> Nat] /\ leases \in [Threads -> Seq(Lease)]
    BY DEF CoverInv, TypeOK
<1>2. CASE ClaimBatch(t)
    <2>1. CASE error # None \/ closed
        <3>1. pc[t] = "idle" /\ pc' = [pc EXCEPT ![t] = "idle"] /\ UNCHANGED <<leases, at>>
            BY <1>2, <2>1 DEF ClaimBatch, Call, End, batch
        <3> QED BY <1>a, <1>t, <3>1 DEF LeasesAreWork
    <2>2. CASE ~(error # None \/ closed)
        <3>1. /\ pc' = [pc EXCEPT ![t] = "claim"] /\ leases' = [leases EXCEPT ![t] = <<>>]
              /\ at' = [at EXCEPT ![t] = 1]
            BY <1>2, <2>2 DEF ClaimBatch
        <3> QED BY <1>a, <1>t, <3>1 DEF LeasesAreWork
    <2> QED BY <2>1, <2>2
<1>3. CASE WaitComplete(t) \/ Close(t) \/ Abort(t)
    <2>1. /\ pc[t] = "idle" /\ UNCHANGED <<leases, at>>
          /\ \E call \in {"waitall", "close", "idle"} : pc' = [pc EXCEPT ![t] = call]
        BY <1>3 DEF WaitComplete, Close, Abort, Call, End, batch
    <2> QED BY <1>a, <1>t, <2>1 DEF LeasesAreWork
<1>4. CASE JoinInflight(t) \/ SkipCovered(t) \/ JoinAvailable(t) \/ Own(t)
    <2>1. /\ pc[t] = "claim" /\ UNCHANGED <<pc, at>>
          /\ \A u \in Threads : u # t => leases'[u] = leases[u]
        BY <1>4, <1>t DEF JoinInflight, SkipCovered, JoinAvailable, Own, Take, Claiming
    <2> QED BY <1>a, <1>t, <2>1 DEF LeasesAreWork
<1>5. CASE Claimed(t)
    <2>1. pc' = [pc EXCEPT ![t] = "hold"] /\ UNCHANGED <<leases, at>>
        BY <1>5 DEF Claimed, batch
    <2> QED BY <1>a, <1>t, <2>1 DEF LeasesAreWork
<1>6. CASE Complete(t) \/ Fail(t)
    <2>1. /\ pc[t] = "hold" /\ UNCHANGED <<pc, at>>
          /\ \A u \in Threads : u # t => leases'[u] = leases[u]
        BY <1>6, <1>t DEF Complete, Fail
    <2> QED BY <1>a, <1>t, <2>1 DEF LeasesAreWork
<1>7. CASE WaitReturns(t) \/ WaitTakesValue(t)
    <2>1. /\ pc[t] = "hold" /\ pc' = pc /\ at' = [at EXCEPT ![t] = at[t] + 1]
          /\ \A u \in Threads : u # t => leases'[u] = leases[u]
        BY <1>7, <1>t DEF WaitReturns, WaitTakesValue, Waiting
    <2> QED BY <1>a, <1>t, <2>1 DEF LeasesAreWork
<1>8. CASE LoseOwnership(t) \/ WaitRaises(t) \/ BatchReturns(t)
    <2>1. /\ leases' = [leases EXCEPT ![t] = <<>>] /\ at' = at
          /\ pc' = [pc EXCEPT ![t] = "idle"]
        BY <1>8 DEF LoseOwnership, WaitRaises, BatchReturns, End
    <2> QED BY <1>a, <1>t, <2>1 DEF LeasesAreWork
<1>9. CASE WaitParks(t) \/ WaitCompleteStep(t) \/ CloseStep(t)
    <2>1. /\ UNCHANGED <<leases, at>>
          /\ pc' = pc \/ (pc[t] \notin {"claim", "hold"} /\ pc' = [pc EXCEPT ![t] = "idle"])
        BY <1>9 DEF WaitParks, WaitCompleteStep, CloseStep, End, batch
    <2> QED BY <1>a, <1>t, <2>1 DEF LeasesAreWork
<1> QED BY <1>1, <1>2, <1>3, <1>4, <1>5, <1>6, <1>7, <1>8, <1>9 DEF Step

\* After a failure nothing is set but the place of the threads.
LEMMA StickyStep ==
    ASSUME Next, error # None
    PROVE  error' = error /\ completed' = completed
<1>1. PICK t \in Threads : ClaimBatch(t) \/ WaitComplete(t) \/ Close(t) \/ Abort(t) \/ Step(t)
    BY DEF Next
<1>2. CASE ClaimBatch(t) \/ WaitComplete(t) \/ Claimed(t) \/ LoseOwnership(t) \/ WaitParks(t)
           \/ WaitReturns(t) \/ WaitRaises(t) \/ BatchReturns(t) \/ WaitCompleteStep(t) \/ CloseStep(t)
    <2>1. UNCHANGED coord
        BY <1>2 DEF ClaimBatch, WaitComplete, Claimed, LoseOwnership, WaitParks, WaitReturns,
                    WaitRaises, BatchReturns, WaitCompleteStep, CloseStep
    <2> QED BY <2>1 DEF coord
<1>3. CASE JoinInflight(t) \/ SkipCovered(t) \/ JoinAvailable(t) \/ Own(t)
    BY <1>3 DEF JoinInflight, SkipCovered, JoinAvailable, Own, Take
<1>4. CASE Complete(t)
    BY <1>4 DEF Complete, CompleteAttempt
<1>5. CASE Fail(t)
    BY <1>5 DEF Fail, FailAttempt
<1>6. CASE WaitTakesValue(t)
    BY <1>6 DEF WaitTakesValue
<1>7. CASE Close(t) \/ Abort(t)
    BY <1>7 DEF Close, Abort, AbortAll
<1> QED BY <1>1, <1>2, <1>3, <1>4, <1>5, <1>6, <1>7 DEF Step

LEMMA LostValueStep ==
    ASSUME CoverInv, Next
    PROVE  NoLostValue'
<1> SUFFICES ASSUME NEW u \in Threads, outcome'[u].kind = "unavailable"
             PROVE  error' # None
    BY DEF NoLostValue
<1>1. CASE error # None
    BY <1>1, StickyStep
<1>2. CASE error = None
    <2>1. outcome[u].kind # "unavailable"
        BY <1>2 DEF CoverInv, NoLostValue
    <2>2. PICK t \in Threads : ClaimBatch(t) \/ WaitComplete(t) \/ Close(t) \/ Abort(t) \/ Step(t)
        BY DEF Next
    <2>3. ~WaitRaises(t)
        BY <1>2, RaisesAfterError
    <2>4. outcome' = outcome \/ \E kind \in {"refused", "returned", "raised", "inactive", "incomplete"},
                                  cause \in {error, None} : End(t, kind, cause)
        BY <2>2, <2>3 DEF Step, ClaimBatch, WaitComplete, Close, Abort, JoinInflight, SkipCovered,
              JoinAvailable, Own, Take, Claimed, Complete, Fail, LoseOwnership, WaitParks,
              WaitReturns, WaitTakesValue, BatchReturns, WaitCompleteStep, CloseStep
    <2>5. outcome \in [Threads -> [kind : {"none", "returned", "refused", "raised", "inactive",
                                          "unavailable", "incomplete"},
                                   cause : Attempts \cup {None, Aborted}]]
        BY DEF CoverInv, TypeOK
    <2> QED BY <2>1, <2>4, <2>5 DEF End
<1> QED BY <1>1, <1>2

-----------------------------------------------------------------------------
LEMMA CoverInit ==
    ASSUME Init
    PROVE  CoverInv
<1>1. /\ Taken = {} /\ InFlight = {} /\ created = 0 /\ 1 .. created = {} /\ error = None
      /\ \A i \in Indexes : inflight[i] = None /\ available[i] = None
    BY DEF Init, Taken, InFlight
<1>2. active = Cardinality(InFlight)
    BY <1>1, FS_EmptySet DEF Init
<1>3. AttemptsInv
    BY <1>1, <1>2 DEF AttemptsInv, LeasesAreExact, InflightRuns, LossIsTotal, AvailableIsDone,
                      WaitersAreCounted, ValuesAreOwed
<1>4. TypeOK
    <2>1. <<>> \in Seq(Lease) /\ <<>> \in Seq(Indexes) /\ <<>> \in [1 .. 0 -> Attempt]
        BY EmptySeq
    <2>2. created = 0 /\ att \in [1 .. created -> Attempt] /\ created \in 0 .. AttemptLimit
        BY <2>1, LimitsAssumption DEF Init
    <2>3. leases \in [Threads -> Seq(Lease)] /\ ask \in [Threads -> Seq(Indexes)]
        BY <2>1 DEF Init
    <2>4. outcome \in [Threads ->
              [kind : {"none", "returned", "refused", "raised", "inactive", "unavailable",
                       "incomplete"},
               cause : Attempts \cup {None, Aborted}]]
        BY DEF Init
    <2>a. completed \in SUBSET Indexes /\ active \in Nat
        BY IndexesAssumption DEF Init
    <2>b. closed \in BOOLEAN /\ monitor \in Threads \cup {Nobody} /\ parked \in SUBSET Threads
        BY DEF Init
    <2>c. calls \in 0 .. CallLimit
        BY LimitsAssumption DEF Init
    <2>6. /\ inflight \in [Indexes -> Attempts \cup {None}]
          /\ available \in [Indexes -> Attempts \cup {None}]
          /\ error \in Attempts \cup {None, Aborted}
          /\ pc \in [Threads -> {"idle", "claim", "hold", "waitall", "close"}]
          /\ require \in [Threads -> BOOLEAN] /\ at \in [Threads -> Nat]
        BY DEF Init
    <2> QED BY <2>2, <2>3, <2>4, <2>a, <2>b, <2>c, <2>6 DEF TypeOK
<1>5. ClaimsAreAlone /\ LeasesAreWork /\ NoLostValue
    BY DEF Init, ClaimsAreAlone, LeasesAreWork, NoLostValue
<1> QED BY <1>3, <1>4, <1>5 DEF CoverInv

\* The invariant: which attempt a lease is on, which attempts run, and what is owed
\* for each of them, after every step of every thread.
THEOREM CoverSafe == Spec => []CoverInv
<1>1. Init => CoverInv
    BY CoverInit
<1>2. CoverInv /\ [Next]_vars => CoverInv'
    <2> SUFFICES ASSUME CoverInv, [Next]_vars PROVE CoverInv'
        OBVIOUS
    <2>1. CASE Next
        BY <2>1, TypeStep, ClaimsStep, LeasesStep, AttemptsStep, LostValueStep DEF CoverInv
    <2>2. CASE UNCHANGED vars
        <3>1. /\ UNCHANGED <<completed, inflight, available, active, error, closed, att, created,
                             monitor, parked, pc, ask, require, leases, at, outcome, calls>>
            BY <2>2 DEF vars
        <3>2. Taken' = Taken /\ \A p \in Taken : LeaseOf(p)' = LeaseOf(p)
            BY <3>1 DEF Taken, LeaseOf
        <3>3. AttemptsInv'
            BY <3>1, <3>2, KeepsAttempts DEF CoverInv, AttemptsInv, LeasesAreExact
        <3>4. TypeOK'
            BY <3>1 DEF CoverInv, TypeOK
        <3>5. ClaimsAreAlone' /\ LeasesAreWork' /\ NoLostValue'
            BY <3>1 DEF CoverInv, ClaimsAreAlone, LeasesAreWork, NoLostValue
        <3> QED BY <3>3, <3>4, <3>5 DEF CoverInv
    <2> QED BY <2>1, <2>2
<1> QED BY <1>1, <1>2, PTL DEF Spec

\* One worker for an index, counted by close(), and a value in memory for exactly
\* those that wait for it.
THEOREM AttemptsSafe == Spec => []AttemptsAreExact
<1>1. CoverInv => AttemptsAreExact
    <2> SUFFICES ASSUME CoverInv PROVE AttemptsAreExact
        OBVIOUS
    <2>1. \A i \in Indexes : inflight[i] # None => Cardinality(OpenLeases(inflight[i])) = 1
        BY FS_Singleton DEF CoverInv, AttemptsInv, InflightRuns
    <2> QED BY <2>1 DEF CoverInv, AttemptsInv, InflightRuns, AttemptsAreExact, OwnersAreCounted
<1> QED BY <1>1, CoverSafe, PTL

\* While nothing has failed, no waiter finds the value it asked for gone.
THEOREM ValuesSafe == Spec => []NoLostValue
<1>1. CoverInv => NoLostValue
    BY DEF CoverInv
<1> QED BY <1>1, CoverSafe, PTL

\* The first error stays, and no completion counts after it.
THEOREM StickySafe == Spec => FailureIsSticky
<1>1. [Next]_vars => [error # None => error' = error /\ completed' = completed]_vars
    BY StickyStep DEF vars
<1> QED BY <1>1, PTL DEF Spec, FailureIsSticky
=============================================================================
