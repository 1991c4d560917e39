----------------------------- MODULE Filters_proof -----------------------------
(***************************************************************************)
(* Proofs about FilterCache for any number of callers, generations and     *)
(* requests: type correctness, the promises of the lease protocol          *)
(* (LeasedStaysWhole, CurrentIsWhole) and what the answers rest on; and    *)
(* about LiveFilter for any chains of runs, threads and rules: the work    *)
(* that one close() leaves to another is never lost, and what a read       *)
(* returns while runs still decide is what the finished views return.      *)
(***************************************************************************)
EXTENDS FilterCache, LiveFilter, SequenceTheorems, FiniteSetTheorems, TLAPS

-----------------------------------------------------------------------------
(* FilterCache.                                                            *)

USE DEF Goto, disk, flocks, local

\* What a build depends on is a variant, and its indexes are numbers.
LEMMA VariantType ==
    ASSUME NEW r \in Requests
    PROVE  /\ Variant(r) \in Variants
           /\ Indexes(Variant(r)) \subseteq Nat
  BY RequestsAssumption DEF Variant, Variants, Indexes

\* Part way through its rmtree, a resume directory is still one.
LEMMA RemnantsType ==
    ASSUME NEW r \in [key : Variants \cup {Null}, frags : SUBSET (Nat \X Variants)]
    PROVE  Remnants(r) \subseteq
             [key : Variants \cup {Null}, frags : SUBSET (Nat \X Variants)]
  BY DEF Remnants

\* So is one that does not exist.
LEMMA EmptyResumeType ==
    EmptyResume \in [key : Variants \cup {Null}, frags : SUBSET (Nat \X Variants)]
  BY DEF EmptyResume

\* A step of any caller keeps every variable in its type.
LEMMA TypeStep == TypeOK /\ CallHasRequest /\ [Next]_vars => TypeOK'
<1> SUFFICES ASSUME TypeOK, CallHasRequest, [Next]_vars PROVE TypeOK'
  OBVIOUS
<1> USE RequestsAssumption, LimitsAssumption DEF TypeOK, Labels
<1>1. ASSUME NEW p \in Procs, Start(p) PROVE TypeOK'
  BY <1>1 DEF Start
<1>2. ASSUME NEW p \in Procs, Acquire(p) PROVE TypeOK'
  BY <1>2 DEF Acquire
<1>3. ASSUME NEW p \in Procs, GiveUp(p) PROVE TypeOK'
  BY <1>3 DEF GiveUp
<1>4. ASSUME NEW p \in Procs, Unlock(p) PROVE TypeOK'
  BY <1>4 DEF Unlock
<1>5. ASSUME NEW p \in Procs, Close(p) PROVE TypeOK'
  BY <1>5 DEF Close
<1>6. ASSUME NEW p \in Procs, Crash(p) PROVE TypeOK'
  BY <1>6 DEF Crash
<1>7. ASSUME NEW p \in Procs, Lookup(p) PROVE TypeOK'
  <2>1. CASE ReadPointer(p)
    BY <2>1 DEF ReadPointer, Miss
  <2>2. CASE OpenLease(p)
    BY <2>2 DEF OpenLease, Miss
  <2>3. CASE FlockShared(p)
    BY <2>3 DEF FlockShared
  <2>4. CASE VerifyLease(p)
    BY <2>4 DEF VerifyLease
  <2>5. CASE Reread(p)
    BY <2>5 DEF Reread, Miss
  <2>6. CASE CheckReady(p)
    BY <2>6 DEF CheckReady, Miss
  <2> QED BY <1>7, <2>1, <2>2, <2>3, <2>4, <2>5, <2>6 DEF Lookup
<1>8. ASSUME NEW p \in Procs, Cleanup(p) PROVE TypeOK'
  <2>1. CASE Scan(p)
    BY <2>1 DEF Scan, Present
  <2>2. CASE Sweep(p)
    BY <2>2 DEF Sweep, Present
  <2>3. CASE SweepDone(p)
    BY <2>3 DEF SweepDone
  <2>4. CASE TryExclusive(p)
    BY <2>4 DEF TryExclusive
  <2>5. CASE Tear(p)
    BY <2>5 DEF Tear, Present
  <2>6. CASE Torn(p)
    BY <2>6 DEF Torn
  <2>7. CASE RemovalFails(p)
    BY <2>7 DEF RemovalFails
  <2> QED BY <1>8, <2>1, <2>2, <2>3, <2>4, <2>5, <2>6, <2>7 DEF Cleanup
<1>9. ASSUME NEW p \in Procs, Build(p) PROVE TypeOK'
  <2>0. pc[p] # "idle" => /\ Variant(req[p]) \in Variants
                          /\ Indexes(Variant(req[p])) \subseteq Nat
    BY VariantType DEF CallHasRequest
  <2>1. CASE Discard(p)
    BY <2>1, RemnantsType DEF Discard
  <2>2. CASE Discarded(p)
    BY <2>2, EmptyResumeType DEF Discarded
  <2>3. CASE UnlinkPointer(p)
    BY <2>3 DEF UnlinkPointer
  <2>4. CASE Prepare(p)
    BY <2>0, <2>4, RemnantsType DEF Prepare
  <2>5. CASE Prepared(p)
    BY <2>0, <2>5 DEF Prepared
  <2>6. CASE Collect(p)
    <3>1. PICK chunk \in SUBSET todo[p] \ {{}} :
            /\ resume' = [resume EXCEPT !.frags = @ \cup (chunk \X {Variant(req[p])})]
            /\ todo' = [todo EXCEPT ![p] = @ \ chunk]
      BY <2>6 DEF Collect
    <3>2. chunk \X {Variant(req[p])} \subseteq Nat \X Variants
      BY <2>0, <2>6 DEF Collect
    <3>3. resume' \in [key : Variants \cup {Null}, frags : SUBSET (Nat \X Variants)]
      BY <3>1, <3>2
    <3>4. todo' \in [Procs -> SUBSET Nat]
      BY <3>1
    <3> QED
      BY <2>6, <3>3, <3>4 DEF Collect
  <2>7. CASE BuildFails(p)
    BY <2>7 DEF BuildFails
  <2>8. CASE PublishGeneration(p)
    BY <2>0, <2>8 DEF PublishGeneration, Replayed
  <2>9. CASE WritePointer(p)
    BY <2>9 DEF WritePointer
  <2>10. CASE PinPublished(p)
    BY <2>10 DEF PinPublished
  <2>11. CASE Tidy(p)
    BY <2>11, RemnantsType DEF Tidy
  <2>12. CASE Tidied(p)
    BY <2>12, EmptyResumeType DEF Tidied
  <2> QED
    BY <1>9, <2>1, <2>2, <2>3, <2>4, <2>5, <2>6, <2>7, <2>8, <2>9, <2>10, <2>11, <2>12
       DEF Build
<1>10. CASE UNCHANGED vars
  BY <1>10 DEF vars
<1> QED
  BY <1>1, <1>2, <1>3, <1>4, <1>5, <1>6, <1>7, <1>8, <1>9, <1>10 DEF Next, Step

-----------------------------------------------------------------------------
(* The inductive invariant, one lemma per conjunct.                        *)

\* A call keeps the request it started with.
LEMMA RequestStep ==
    IInv /\ [Next]_vars => CallHasRequest'
<1> SUFFICES ASSUME IInv, [Next]_vars PROVE CallHasRequest'
  OBVIOUS
<1> USE DEF IInv, TypeOK, CallHasRequest
<1>1. ASSUME NEW p \in Procs, Start(p) PROVE CallHasRequest'
  BY <1>1 DEF Start
<1>2. ASSUME NEW p \in Procs, Acquire(p) PROVE CallHasRequest'
  BY <1>2 DEF Acquire
<1>3. ASSUME NEW p \in Procs, GiveUp(p) PROVE CallHasRequest'
  BY <1>3 DEF GiveUp
<1>4. ASSUME NEW p \in Procs, Unlock(p) PROVE CallHasRequest'
  BY <1>4 DEF Unlock
<1>5. ASSUME NEW p \in Procs, Close(p) PROVE CallHasRequest'
  BY <1>5 DEF Close
<1>6. ASSUME NEW p \in Procs, Crash(p) PROVE CallHasRequest'
  BY <1>6 DEF Crash
<1>7. ASSUME NEW p \in Procs, Lookup(p) PROVE CallHasRequest'
  BY <1>7 DEF Lookup, ReadPointer, OpenLease, FlockShared, VerifyLease,
              Reread, CheckReady, Ready, Miss
<1>8. ASSUME NEW p \in Procs, Build(p) PROVE CallHasRequest'
  BY <1>8 DEF Build, Discard, Discarded, UnlinkPointer, Prepare, Prepared, Collect,
              BuildFails, PublishGeneration, WritePointer, PinPublished, Tidy, Tidied
<1>9. ASSUME NEW p \in Procs, Cleanup(p) PROVE CallHasRequest'
  BY <1>9 DEF Cleanup, Scan, Sweep, SweepDone, TryExclusive, Flocked, Tear, Torn,
              RemovalFails, Present
<1>10. CASE UNCHANGED vars
  BY <1>10 DEF vars
<1> QED
  BY <1>1, <1>2, <1>3, <1>4, <1>5, <1>6, <1>7, <1>8, <1>9, <1>10 DEF Next, Step

\* Only the holder of the FileLock is inside its with block.
LEMMA LockStep ==
    IInv /\ [Next]_vars => LockIsOwned'
<1> SUFFICES ASSUME IInv, [Next]_vars PROVE LockIsOwned'
  OBVIOUS
<1> USE NullAssumption DEF IInv, TypeOK, LockIsOwned, UnderLock
<1>1. ASSUME NEW p \in Procs, Start(p) PROVE LockIsOwned'
  BY <1>1 DEF Start
<1>2. ASSUME NEW p \in Procs, Acquire(p) PROVE LockIsOwned'
  BY <1>2 DEF Acquire
<1>3. ASSUME NEW p \in Procs, GiveUp(p) PROVE LockIsOwned'
  BY <1>3 DEF GiveUp
<1>4. ASSUME NEW p \in Procs, Unlock(p) PROVE LockIsOwned'
  BY <1>4 DEF Unlock
<1>5. ASSUME NEW p \in Procs, Close(p) PROVE LockIsOwned'
  BY <1>5 DEF Close
<1>6. ASSUME NEW p \in Procs, Crash(p) PROVE LockIsOwned'
  BY <1>6 DEF Crash
<1>7. ASSUME NEW p \in Procs, Lookup(p) PROVE LockIsOwned'
  BY <1>7 DEF Lookup, ReadPointer, OpenLease, FlockShared, VerifyLease,
              Reread, CheckReady, Ready, Miss
<1>8. ASSUME NEW p \in Procs, Build(p) PROVE LockIsOwned'
  BY <1>8 DEF Build, Discard, Discarded, UnlinkPointer, Prepare, Prepared, Collect,
              BuildFails, PublishGeneration, WritePointer, PinPublished, Tidy, Tidied
<1>9. ASSUME NEW p \in Procs, Cleanup(p) PROVE LockIsOwned'
  BY <1>9 DEF Cleanup, Scan, Sweep, SweepDone, TryExclusive, Flocked, Tear, Torn,
              RemovalFails, Present
<1>10. CASE UNCHANGED vars
  BY <1>10 DEF vars
<1> QED
  BY <1>1, <1>2, <1>3, <1>4, <1>5, <1>6, <1>7, <1>8, <1>9, <1>10 DEF Next, Step

\* A whole generation has its .lease file.
LEMMA LeaseFileStep ==
    IInv /\ [Next]_vars => WholeHasLease'
<1> SUFFICES ASSUME IInv, [Next]_vars PROVE WholeHasLease'
  OBVIOUS
<1> USE DEF IInv, TypeOK, WholeHasLease
<1>1. ASSUME NEW p \in Procs, Start(p) PROVE WholeHasLease'
  BY <1>1 DEF Start
<1>2. ASSUME NEW p \in Procs, Acquire(p) PROVE WholeHasLease'
  BY <1>2 DEF Acquire
<1>3. ASSUME NEW p \in Procs, GiveUp(p) PROVE WholeHasLease'
  BY <1>3 DEF GiveUp
<1>4. ASSUME NEW p \in Procs, Unlock(p) PROVE WholeHasLease'
  BY <1>4 DEF Unlock
<1>5. ASSUME NEW p \in Procs, Close(p) PROVE WholeHasLease'
  BY <1>5 DEF Close
<1>6. ASSUME NEW p \in Procs, Crash(p) PROVE WholeHasLease'
  BY <1>6 DEF Crash
<1>7. ASSUME NEW p \in Procs, Lookup(p) PROVE WholeHasLease'
  BY <1>7 DEF Lookup, ReadPointer, OpenLease, FlockShared, VerifyLease,
              Reread, CheckReady, Ready, Miss
<1>8. ASSUME NEW p \in Procs, Build(p) PROVE WholeHasLease'
  BY <1>8 DEF Build, Discard, Discarded, UnlinkPointer, Prepare, Prepared, Collect,
              BuildFails, PublishGeneration, WritePointer, PinPublished, Tidy, Tidied
<1>9. ASSUME NEW p \in Procs, Cleanup(p) PROVE WholeHasLease'
  BY <1>9 DEF Cleanup, Scan, Sweep, SweepDone, TryExclusive, Flocked, Tear, Torn,
              RemovalFails, Present
<1>10. CASE UNCHANGED vars
  BY <1>10 DEF vars
<1> QED
  BY <1>1, <1>2, <1>3, <1>4, <1>5, <1>6, <1>7, <1>8, <1>9, <1>10 DEF Next, Step

\* The pointer names a whole generation.
LEMMA CurrentStep ==
    IInv /\ [Next]_vars => CurrentIsWhole'
<1> SUFFICES ASSUME IInv, [Next]_vars PROVE CurrentIsWhole'
  OBVIOUS
<1> USE DEF IInv, TypeOK, CurrentIsWhole, LockIsOwned, UnderLock, WholeHasLease,
            SeenIsCurrent, RemoverHoldsVictim, Sweeping
<1>1. ASSUME NEW p \in Procs, Start(p) PROVE CurrentIsWhole'
  BY <1>1 DEF Start
<1>2. ASSUME NEW p \in Procs, Acquire(p) PROVE CurrentIsWhole'
  BY <1>2 DEF Acquire
<1>3. ASSUME NEW p \in Procs, GiveUp(p) PROVE CurrentIsWhole'
  BY <1>3 DEF GiveUp
<1>4. ASSUME NEW p \in Procs, Unlock(p) PROVE CurrentIsWhole'
  BY <1>4 DEF Unlock
<1>5. ASSUME NEW p \in Procs, Close(p) PROVE CurrentIsWhole'
  BY <1>5 DEF Close
<1>6. ASSUME NEW p \in Procs, Crash(p) PROVE CurrentIsWhole'
  BY <1>6 DEF Crash
<1>7. ASSUME NEW p \in Procs, Lookup(p) PROVE CurrentIsWhole'
  BY <1>7 DEF Lookup, ReadPointer, OpenLease, FlockShared, VerifyLease,
              Reread, CheckReady, Ready, Miss
<1>8. ASSUME NEW p \in Procs, Build(p) PROVE CurrentIsWhole'
  BY <1>8 DEF Build, Discard, Discarded, UnlinkPointer, Prepare, Prepared, Collect,
              BuildFails, PublishGeneration, WritePointer, PinPublished, Tidy, Tidied
<1>9. ASSUME NEW p \in Procs, Cleanup(p) PROVE CurrentIsWhole'
  BY <1>9 DEF Cleanup, Scan, Sweep, SweepDone, TryExclusive, Flocked, Tear, Torn,
              RemovalFails, Present
<1>10. CASE UNCHANGED vars
  BY <1>10 DEF vars
<1> QED
  BY <1>1, <1>2, <1>3, <1>4, <1>5, <1>6, <1>7, <1>8, <1>9, <1>10 DEF Next, Step

\* What a caller took from the pointer.
LEMMA SeenStep ==
    IInv /\ [Next]_vars => SeenIsCurrent'
<1> SUFFICES ASSUME IInv, [Next]_vars PROVE SeenIsCurrent'
  OBVIOUS
<1> USE DEF IInv, TypeOK, SeenIsCurrent, LockIsOwned, UnderLock, CurrentIsWhole,
            RemoverHoldsVictim, Sweeping
<1>1. ASSUME NEW p \in Procs, Start(p) PROVE SeenIsCurrent'
  BY <1>1 DEF Start
<1>2. ASSUME NEW p \in Procs, Acquire(p) PROVE SeenIsCurrent'
  BY <1>2 DEF Acquire
<1>3. ASSUME NEW p \in Procs, GiveUp(p) PROVE SeenIsCurrent'
  BY <1>3 DEF GiveUp
<1>4. ASSUME NEW p \in Procs, Unlock(p) PROVE SeenIsCurrent'
  BY <1>4 DEF Unlock
<1>5. ASSUME NEW p \in Procs, Close(p) PROVE SeenIsCurrent'
  BY <1>5 DEF Close
<1>6. ASSUME NEW p \in Procs, Crash(p) PROVE SeenIsCurrent'
  BY <1>6 DEF Crash
<1>7. ASSUME NEW p \in Procs, Lookup(p) PROVE SeenIsCurrent'
  BY <1>7 DEF Lookup, ReadPointer, OpenLease, FlockShared, VerifyLease,
              Reread, CheckReady, Ready, Miss
<1>8. ASSUME NEW p \in Procs, Build(p) PROVE SeenIsCurrent'
  BY <1>8 DEF Build, Discard, Discarded, UnlinkPointer, Prepare, Prepared, Collect,
              BuildFails, PublishGeneration, WritePointer, PinPublished, Tidy, Tidied
<1>9. ASSUME NEW p \in Procs, Cleanup(p) PROVE SeenIsCurrent'
  BY <1>9 DEF Cleanup, Scan, Sweep, SweepDone, TryExclusive, Flocked, Tear, Torn,
              RemovalFails, Present
<1>10. CASE UNCHANGED vars
  BY <1>10 DEF vars
<1> QED
  BY <1>1, <1>2, <1>3, <1>4, <1>5, <1>6, <1>7, <1>8, <1>9, <1>10 DEF Next, Step

\* An exclusive flock belongs to a removal.
LEMMA RemoverStep ==
    IInv /\ [Next]_vars => RemoverHoldsVictim'
<1> SUFFICES ASSUME IInv, [Next]_vars PROVE RemoverHoldsVictim'
  OBVIOUS
<1> USE DEF IInv, TypeOK, RemoverHoldsVictim
<1>1. ASSUME NEW p \in Procs, Start(p) PROVE RemoverHoldsVictim'
  BY <1>1 DEF Start
<1>2. ASSUME NEW p \in Procs, Acquire(p) PROVE RemoverHoldsVictim'
  BY <1>2 DEF Acquire
<1>3. ASSUME NEW p \in Procs, GiveUp(p) PROVE RemoverHoldsVictim'
  BY <1>3 DEF GiveUp
<1>4. ASSUME NEW p \in Procs, Unlock(p) PROVE RemoverHoldsVictim'
  BY <1>4 DEF Unlock
<1>5. ASSUME NEW p \in Procs, Close(p) PROVE RemoverHoldsVictim'
  BY <1>5 DEF Close
<1>6. ASSUME NEW p \in Procs, Crash(p) PROVE RemoverHoldsVictim'
  BY <1>6 DEF Crash
<1>7. ASSUME NEW p \in Procs, Lookup(p) PROVE RemoverHoldsVictim'
  BY <1>7 DEF Lookup, ReadPointer, OpenLease, FlockShared, VerifyLease,
              Reread, CheckReady, Ready, Miss
<1>8. ASSUME NEW p \in Procs, Build(p) PROVE RemoverHoldsVictim'
  BY <1>8 DEF Build, Discard, Discarded, UnlinkPointer, Prepare, Prepared, Collect,
              BuildFails, PublishGeneration, WritePointer, PinPublished, Tidy, Tidied
<1>9. ASSUME NEW p \in Procs, Cleanup(p) PROVE RemoverHoldsVictim'
  BY <1>9 DEF Cleanup, Scan, Sweep, SweepDone, TryExclusive, Flocked, Tear, Torn,
              RemovalFails, Present
<1>10. CASE UNCHANGED vars
  BY <1>10 DEF vars
<1> QED
  BY <1>1, <1>2, <1>3, <1>4, <1>5, <1>6, <1>7, <1>8, <1>9, <1>10 DEF Next, Step

\* Shared and exclusive flocks exclude each other.
LEMMA FlockStep ==
    IInv /\ [Next]_vars => FlockExcludes'
<1> SUFFICES ASSUME IInv, [Next]_vars PROVE FlockExcludes'
  OBVIOUS
<1> USE DEF IInv, TypeOK, FlockExcludes, RemoverHoldsVictim, LockIsOwned, UnderLock
<1>1. ASSUME NEW p \in Procs, Start(p) PROVE FlockExcludes'
  BY <1>1 DEF Start
<1>2. ASSUME NEW p \in Procs, Acquire(p) PROVE FlockExcludes'
  BY <1>2 DEF Acquire
<1>3. ASSUME NEW p \in Procs, GiveUp(p) PROVE FlockExcludes'
  BY <1>3 DEF GiveUp
<1>4. ASSUME NEW p \in Procs, Unlock(p) PROVE FlockExcludes'
  BY <1>4 DEF Unlock
<1>5. ASSUME NEW p \in Procs, Close(p) PROVE FlockExcludes'
  BY <1>5 DEF Close
<1>6. ASSUME NEW p \in Procs, Crash(p) PROVE FlockExcludes'
  BY <1>6 DEF Crash
<1>7. ASSUME NEW p \in Procs, Lookup(p) PROVE FlockExcludes'
  BY <1>7 DEF Lookup, ReadPointer, OpenLease, FlockShared, VerifyLease,
              Reread, CheckReady, Ready, Miss
<1>8. ASSUME NEW p \in Procs, Build(p) PROVE FlockExcludes'
  BY <1>8 DEF Build, Discard, Discarded, UnlinkPointer, Prepare, Prepared, Collect,
              BuildFails, PublishGeneration, WritePointer, PinPublished, Tidy, Tidied
<1>9. ASSUME NEW p \in Procs, Cleanup(p) PROVE FlockExcludes'
  BY <1>9 DEF Cleanup, Scan, Sweep, SweepDone, TryExclusive, Flocked, Tear, Torn,
              RemovalFails, Present
<1>10. CASE UNCHANGED vars
  BY <1>10 DEF vars
<1> QED
  BY <1>1, <1>2, <1>3, <1>4, <1>5, <1>6, <1>7, <1>8, <1>9, <1>10 DEF Next, Step

\* A validated lease is on a whole generation.
LEMMA SharedStep ==
    IInv /\ [Next]_vars => SharedIsPinned'
<1> SUFFICES ASSUME IInv, [Next]_vars PROVE SharedIsPinned'
  OBVIOUS
<1> USE NullAssumption DEF IInv, TypeOK, SharedIsPinned, FlockExcludes,
            RemoverHoldsVictim, SeenIsCurrent, CurrentIsWhole, Pinned, Sweeping
<1>1. ASSUME NEW p \in Procs, Start(p) PROVE SharedIsPinned'
  BY <1>1 DEF Start
<1>2. ASSUME NEW p \in Procs, Acquire(p) PROVE SharedIsPinned'
  BY <1>2 DEF Acquire
<1>3. ASSUME NEW p \in Procs, GiveUp(p) PROVE SharedIsPinned'
  BY <1>3 DEF GiveUp
<1>4. ASSUME NEW p \in Procs, Unlock(p) PROVE SharedIsPinned'
  BY <1>4 DEF Unlock
<1>5. ASSUME NEW p \in Procs, Close(p) PROVE SharedIsPinned'
  BY <1>5 DEF Close
<1>6. ASSUME NEW p \in Procs, Crash(p) PROVE SharedIsPinned'
  BY <1>6 DEF Crash
<1>7. ASSUME NEW p \in Procs, Lookup(p) PROVE SharedIsPinned'
  BY <1>7 DEF Lookup, ReadPointer, OpenLease, FlockShared, VerifyLease,
              Reread, CheckReady, Ready, Miss
<1>8. ASSUME NEW p \in Procs, Build(p) PROVE SharedIsPinned'
  BY <1>8 DEF Build, Discard, Discarded, UnlinkPointer, Prepare, Prepared, Collect,
              BuildFails, PublishGeneration, WritePointer, PinPublished, Tidy, Tidied
<1>9. ASSUME NEW p \in Procs, Cleanup(p) PROVE SharedIsPinned'
  BY <1>9 DEF Cleanup, Scan, Sweep, SweepDone, TryExclusive, Flocked, Tear, Torn,
              RemovalFails, Present
<1>10. CASE UNCHANGED vars
  BY <1>10 DEF vars
<1> QED
  BY <1>1, <1>2, <1>3, <1>4, <1>5, <1>6, <1>7, <1>8, <1>9, <1>10 DEF Next, Step

-----------------------------------------------------------------------------
\* Before the first call nothing is published, locked or leased.
LEMMA InitIInv == Init => IInv
  BY NullAssumption, LimitsAssumption
     DEF Init, IInv, TypeOK, Labels, EmptyResume, CallHasRequest, LockIsOwned, UnderLock,
         WholeHasLease, CurrentIsWhole, SeenIsCurrent, Sweeping, RemoverHoldsVictim,
         FlockExcludes, SharedIsPinned, Pinned

\* Every step of every caller, and every crash, keeps it.
LEMMA NextIInv == IInv /\ [Next]_vars => IInv'
<1> SUFFICES ASSUME IInv, [Next]_vars PROVE IInv'
  OBVIOUS
<1>1. TypeOK'
  BY TypeStep DEF IInv
<1> QED
  BY <1>1, RequestStep, LockStep, LeaseFileStep, CurrentStep, SeenStep, RemoverStep,
     FlockStep, SharedStep DEF IInv

\* The invariant holds in every reachable state.
THEOREM FilterCacheInvariant == Spec => []IInv
  BY InitIInv, NextIInv, PTL DEF Spec

\* Every variable keeps its type, for any callers, generations and requests.
THEOREM TypeCorrect == Spec => []TypeOK
<1>1. IInv => TypeOK
  BY DEF IInv
<1> QED
  BY <1>1, FilterCacheInvariant, PTL

\* A generation returned to a caller is whole for as long as it is open.
THEOREM LeasesProtect == Spec => []LeasedStaysWhole
<1>1. IInv => LeasedStaysWhole
  BY NullAssumption DEF IInv, TypeOK, SharedIsPinned, Pinned, LeasedStaysWhole
<1> QED
  BY <1>1, FilterCacheInvariant, PTL

\* current.json never names a missing or half-removed generation.
THEOREM PointerIsSound == Spec => []CurrentIsWhole
<1>1. IInv => CurrentIsWhole
  BY DEF IInv
<1> QED
  BY <1>1, FilterCacheInvariant, PTL
-----------------------------------------------------------------------------
(* The answers: ExactInv, under IInv.                                      *)

\* Wipes and fragments keep the resume directory of one variant.
LEMMA FragmentsStep ==
    IInv /\ ExactInv /\ [Next]_vars => FragmentsMatchKey'
<1> SUFFICES ASSUME IInv, ExactInv, [Next]_vars PROVE FragmentsMatchKey'
  OBVIOUS
<1> USE DEF IInv, TypeOK, ExactInv, FragmentsMatchKey, BuildIsKeyed, EmptyResume, Remnants,
            Exactly, Durable
<1>1. ASSUME NEW p \in Procs, Start(p) PROVE FragmentsMatchKey'
  BY <1>1 DEF Start
<1>2. ASSUME NEW p \in Procs, Acquire(p) \/ GiveUp(p) \/ Unlock(p) PROVE FragmentsMatchKey'
  BY <1>2 DEF Acquire, GiveUp, Unlock
<1>3. ASSUME NEW p \in Procs, Close(p) \/ Crash(p) PROVE FragmentsMatchKey'
  BY <1>3 DEF Close, Crash
<1>4. ASSUME NEW p \in Procs, Lookup(p) PROVE FragmentsMatchKey'
  BY <1>4 DEF Lookup, ReadPointer, OpenLease, FlockShared, VerifyLease, Reread,
              CheckReady, Ready, Miss
<1>5. ASSUME NEW p \in Procs, Build(p) PROVE FragmentsMatchKey'
  BY <1>5 DEF Build, Discard, Discarded, UnlinkPointer, Prepare, Prepared, Collect,
              BuildFails, PublishGeneration, WritePointer, PinPublished, Tidy, Tidied
<1>6. ASSUME NEW p \in Procs, Cleanup(p) PROVE FragmentsMatchKey'
  BY <1>6 DEF Cleanup, Scan, Sweep, SweepDone, TryExclusive, Tear, Torn, RemovalFails
<1>7. CASE UNCHANGED vars
  BY <1>7 DEF vars
<1> QED
  BY <1>1, <1>2, <1>3, <1>4, <1>5, <1>6, <1>7 DEF Next, Step

\* Nobody else touches the resume directory of a running build.
LEMMA KeyedStep ==
    IInv /\ ExactInv /\ [Next]_vars => BuildIsKeyed'
<1> SUFFICES ASSUME IInv, ExactInv, [Next]_vars PROVE BuildIsKeyed'
  OBVIOUS
<1> USE DEF IInv, TypeOK, CallHasRequest, LockIsOwned, UnderLock, ExactInv, BuildIsKeyed,
            Durable, Remnants
<1>1. ASSUME NEW p \in Procs, Start(p) PROVE BuildIsKeyed'
  BY <1>1 DEF Start
<1>2. ASSUME NEW p \in Procs, Acquire(p) \/ GiveUp(p) \/ Unlock(p) PROVE BuildIsKeyed'
  BY <1>2 DEF Acquire, GiveUp, Unlock
<1>3. ASSUME NEW p \in Procs, Close(p) \/ Crash(p) PROVE BuildIsKeyed'
  BY <1>3 DEF Close, Crash
<1>4. ASSUME NEW p \in Procs, Lookup(p) PROVE BuildIsKeyed'
  BY <1>4 DEF Lookup, ReadPointer, OpenLease, FlockShared, VerifyLease, Reread,
              CheckReady, Ready, Miss
<1>5. ASSUME NEW p \in Procs, Build(p) PROVE BuildIsKeyed'
  <2> SUFFICES ASSUME NEW q \in Procs, pc'[q] = "collect"
               PROVE  /\ resume'.key = Variant(req'[q])
                      /\ todo'[q] = Indexes(Variant(req'[q])) \ Durable'
    BY DEF BuildIsKeyed
  <2>1. pc[p] \in UnderLock /\ lock = p
    BY <1>5 DEF Build, Discard, Discarded, UnlinkPointer, Prepare, Prepared, Collect,
                BuildFails, PublishGeneration, WritePointer, PinPublished, Tidy, Tidied
  <2>2. q = p
    BY <1>5, <2>1 DEF Build, Discard, Discarded, UnlinkPointer, Prepare, Prepared, Collect,
                BuildFails, PublishGeneration, WritePointer, PinPublished, Tidy, Tidied
  <2>3. CASE Prepare(p)
    BY <2>2, <2>3 DEF Prepare
  <2>4. CASE Prepared(p)
    BY <2>2, <2>4 DEF Prepared
  <2>5. CASE Collect(p)
    <3>1. PICK chunk \in SUBSET todo[p] \ {{}} :
            /\ resume' = [resume EXCEPT !.frags = @ \cup (chunk \X {Variant(req[p])})]
            /\ todo' = [todo EXCEPT ![p] = @ \ chunk]
      BY <2>5 DEF Collect
    <3>2. Durable' = Durable \cup chunk
      <4>1. Durable' \subseteq Durable \cup chunk
        BY <3>1
      <4>2. Durable \subseteq Durable'
        BY <3>1
      <4>3. ASSUME NEW i \in chunk PROVE i \in Durable'
        <5>1. <<i, Variant(req[p])>> \in resume'.frags
          BY <3>1
        <5> QED
          BY <5>1
      <4> QED
        BY <4>1, <4>2, <4>3
    <3>3. resume'.key = resume.key /\ pc' = pc /\ req' = req
      BY <2>5, <3>1 DEF Collect
    <3> QED
      BY <2>2, <3>1, <3>2, <3>3
  <2> QED
    BY <1>5, <2>2, <2>3, <2>4, <2>5
       DEF Build, Discard, Discarded, UnlinkPointer, BuildFails, PublishGeneration,
           WritePointer, PinPublished, Tidy, Tidied
<1>6. ASSUME NEW p \in Procs, Cleanup(p) PROVE BuildIsKeyed'
  BY <1>6 DEF Cleanup, Scan, Sweep, SweepDone, TryExclusive, Tear, Torn, RemovalFails
<1>7. CASE UNCHANGED vars
  BY <1>7 DEF vars
<1> QED
  BY <1>1, <1>2, <1>3, <1>4, <1>5, <1>6, <1>7 DEF Next, Step

\* While a call is in the with block, the others change neither the pointer nor a generation.
LEMMA OthersLeaveCache ==
    ASSUME IInv, NEW q \in Procs, NEW p \in Procs, q # p, lock = q,
           Start(p) \/ Step(p) \/ Close(p) \/ Crash(p)
    PROVE  /\ UNCHANGED <<dir, rule, pointer>> /\ lock' = lock
           /\ pc'[q] = pc[q] /\ seen'[q] = seen[q] /\ req'[q] = req[q]
<1> USE NullAssumption DEF IInv, TypeOK, LockIsOwned, UnderLock
<1>1. CASE Start(p) \/ Close(p) \/ Crash(p)
  BY <1>1 DEF Start, Close, Crash, disk, flocks
<1>2. CASE Acquire(p) \/ GiveUp(p) \/ Unlock(p)
  BY <1>2 DEF Acquire, GiveUp, Unlock, Goto, disk, flocks, local
<1>3. CASE Lookup(p)
  BY <1>3 DEF Lookup, ReadPointer, OpenLease, FlockShared, VerifyLease, Reread, CheckReady,
              Miss, Goto, disk, flocks, local
<1>4. pc[p] \notin UnderLock
  OBVIOUS
<1>5. ~Build(p) /\ ~Cleanup(p)
  BY <1>4 DEF Build, Discard, Discarded, UnlinkPointer, Prepare, Prepared, Collect, BuildFails,
              PublishGeneration, WritePointer, PinPublished, Tidy, Tidied,
              Cleanup, Scan, Sweep, SweepDone, TryExclusive, Tear, Torn, RemovalFails
<1> QED
  BY <1>1, <1>2, <1>3, <1>5 DEF Step

\* BuildIsDue, of one call.
Due(q) ==
    /\ lock = q => pc[q] # "reread"
    /\ lock = q /\ pc[q] \in {"open", "flock", "verify", "check"} => seen[q] = pointer
    /\ pc[q] \in {"prepare", "preparing", "collect"} /\ pointer # Null => ~Ready(pointer, req[q])

\* A call that has the lock finds the pointer it read still there.
LEMMA DueStep ==
    IInv /\ ExactInv /\ [Next]_vars => BuildIsDue'
<1> SUFFICES ASSUME IInv, BuildIsDue, Next, NEW q \in Procs PROVE Due(q)'
  <2>1. CASE UNCHANGED vars
    BY <2>1 DEF vars, ExactInv, BuildIsDue, Ready
  <2> QED
    BY <2>1 DEF BuildIsDue, ExactInv, Due
<1> USE NullAssumption DEF IInv, TypeOK
<1>1. Due(q)
  BY DEF BuildIsDue, Due
<1>2. PICK p \in Procs : Start(p) \/ Step(p) \/ Close(p) \/ Crash(p)
  BY DEF Next
<1>3. CASE q # p /\ lock = q
  BY <1>1, <1>2, <1>3, OthersLeaveCache DEF Due, Ready
<1>4. CASE q # p /\ lock # q
  <2>1. pc[q] \notin UnderLock
    BY <1>4 DEF LockIsOwned
  <2>2. lock' # q /\ pc'[q] = pc[q]
    <3>1. CASE Start(p) \/ Close(p) \/ Crash(p) \/ Acquire(p) \/ GiveUp(p) \/ Unlock(p)
      BY <1>4, <3>1 DEF Start, Close, Crash, Acquire, GiveUp, Unlock, Goto
    <3>2. CASE Lookup(p)
      BY <1>4, <3>2 DEF Lookup, ReadPointer, OpenLease, FlockShared, VerifyLease, Reread,
                        CheckReady, Miss, Goto
    <3>3. CASE Build(p)
      BY <1>4, <3>3 DEF Build, Discard, Discarded, UnlinkPointer, Prepare, Prepared, Collect,
                        BuildFails, PublishGeneration, WritePointer, PinPublished, Tidy, Tidied,
                        Goto
    <3>4. CASE Cleanup(p)
      BY <1>4, <3>4 DEF Cleanup, Scan, Sweep, SweepDone, TryExclusive, Tear, Torn, RemovalFails,
                        Goto
    <3> QED
      BY <1>2, <3>1, <3>2, <3>3, <3>4 DEF Step
  <2> QED
    BY <2>1, <2>2 DEF Due, UnderLock
<1>5. CASE q = p
  <2>1. CASE Start(p) \/ Close(p) \/ Crash(p) \/ Acquire(p) \/ GiveUp(p) \/ Unlock(p)
    BY <1>5, <2>1 DEF Start, Close, Crash, Acquire, GiveUp, Unlock, Goto, Due, LockIsOwned,
                      UnderLock
  <2>2. CASE Lookup(p)
    <3>1. UNCHANGED <<dir, rule, pointer, lock, req>>
      BY <2>2 DEF Lookup, ReadPointer, OpenLease, FlockShared, VerifyLease, Reread, CheckReady,
                  disk, local
    <3>2. lock = p /\ pc[p] \in {"open", "flock", "verify", "check"} =>
            seen[p] = pointer /\ pointer \in lease /\ pc[p] # "reread"
      BY <1>1, <1>5 DEF Due, CurrentIsWhole, SeenIsCurrent
    <3>3. CASE ReadPointer(p)
      BY <1>5, <3>1, <3>3 DEF ReadPointer, Miss, Goto, Due
    <3>4. CASE OpenLease(p)
      BY <1>5, <3>1, <3>2, <3>4 DEF OpenLease, Goto, local, Due
    <3>5. CASE FlockShared(p)
      BY <1>5, <3>1, <3>2, <3>5 DEF FlockShared, Goto, local, Due
    <3>6. CASE VerifyLease(p)
      BY <1>5, <3>1, <3>2, <3>6 DEF VerifyLease, Goto, local, Due
    <3>7. CASE Reread(p)
      BY <1>1, <1>5, <3>1, <3>7 DEF Reread, Miss, Goto, local, Due
    <3>8. CASE CheckReady(p)
      BY <1>5, <3>1, <3>2, <3>8 DEF CheckReady, Miss, Goto, local, Due, Ready
    <3> QED
      BY <2>2, <3>3, <3>4, <3>5, <3>6, <3>7, <3>8 DEF Lookup
  <2>3. CASE Build(p)
    <3>1. CASE UnlinkPointer(p)
      BY <1>5, <3>1 DEF UnlinkPointer, Goto, Due
    <3>2. CASE Prepare(p) \/ Prepared(p) \/ Collect(p)
      <4>1. /\ UNCHANGED <<dir, rule, pointer, lock, req>>
            /\ pc[p] \in {"prepare", "preparing", "collect"}
            /\ pc'[p] \in {"preparing", "collect"}
        BY <3>2 DEF Prepare, Prepared, Collect, Goto, disk
      <4> QED
        BY <1>1, <1>5, <4>1 DEF Due, Ready
    <3>3. CASE \/ Discard(p) \/ Discarded(p) \/ BuildFails(p) \/ PublishGeneration(p)
              \/ WritePointer(p) \/ PinPublished(p) \/ Tidy(p) \/ Tidied(p)
      <4>1. pc'[p] \in {"discarding", "unlink", "unlock", "point", "pin", "tidy", "tidying", "scan"}
        BY <3>3 DEF Discard, Discarded, BuildFails, PublishGeneration, WritePointer, PinPublished,
                    Tidy, Tidied, Goto
      <4> QED
        BY <1>5, <4>1 DEF Due
    <3> QED
      BY <2>3, <3>1, <3>2, <3>3 DEF Build
  <2>4. CASE Cleanup(p)
    <3>1. pc'[p] \in {"unlock", "sweep", "trylock", "recheck", "tearing"}
      BY <2>4 DEF Cleanup, Scan, Sweep, SweepDone, TryExclusive, Tear, Torn, RemovalFails, Goto
    <3> QED
      BY <1>5, <3>1 DEF Due
  <2> QED
    BY <1>2, <1>5, <2>1, <2>2, <2>3, <2>4 DEF Step
<1> QED
  BY <1>3, <1>4, <1>5

\* A generation is published with every index judged once.
LEMMA ExactStep ==
    IInv /\ ExactInv /\ [Next]_vars => WholeIsExact'
<1> SUFFICES ASSUME IInv, ExactInv, [Next]_vars PROVE WholeIsExact'
  OBVIOUS
<1> USE NullAssumption DEF IInv, TypeOK, ExactInv, WholeIsExact, BuildIsKeyed, FragmentsMatchKey
<1>1. ASSUME NEW p \in Procs, Start(p) PROVE WholeIsExact'
  BY <1>1 DEF Start
<1>2. ASSUME NEW p \in Procs, Acquire(p) \/ GiveUp(p) \/ Unlock(p) PROVE WholeIsExact'
  BY <1>2 DEF Acquire, GiveUp, Unlock
<1>3. ASSUME NEW p \in Procs, Close(p) \/ Crash(p) PROVE WholeIsExact'
  BY <1>3 DEF Close, Crash
<1>4. ASSUME NEW p \in Procs, Lookup(p) PROVE WholeIsExact'
  BY <1>4 DEF Lookup, ReadPointer, OpenLease, FlockShared, VerifyLease, Reread,
              CheckReady, Ready, Miss
<1>5. ASSUME NEW p \in Procs, Build(p) PROVE WholeIsExact'
  <2>1. CASE PublishGeneration(p)
    <3> DEFINE v == Variant(req[p])
    <3>1. v \in Variants
      BY <2>1, VariantType DEF CallHasRequest, PublishGeneration
    <3>2. resume.frags = Exactly(v)
      <4>1. resume.key = v
        BY <2>1 DEF PublishGeneration
      <4>2. resume.frags \subseteq Indexes(v) \X {v}
        BY <3>1, <4>1, NullAssumption DEF Exactly, Variants
      <4>3. ASSUME NEW i \in Indexes(v) PROVE <<i, v>> \in resume.frags
        <5>1. PICK f \in resume.frags : f[1] = i
          BY <2>1 DEF PublishGeneration, Durable
        <5> QED
          BY <4>2, <5>1
      <4> QED
        BY <4>2, <4>3 DEF Exactly
    <3> QED
      BY <2>1, <3>1, <3>2 DEF PublishGeneration, Replayed
  <2> QED
    BY <1>5, <2>1 DEF Build, Discard, Discarded, UnlinkPointer, Prepare, Prepared, Collect,
                      BuildFails, WritePointer, PinPublished, Tidy, Tidied
<1>6. ASSUME NEW p \in Procs, Cleanup(p) PROVE WholeIsExact'
  BY <1>6 DEF Cleanup, Scan, Sweep, SweepDone, TryExclusive, Tear, Torn, RemovalFails
<1>7. CASE UNCHANGED vars
  BY <1>7 DEF vars
<1> QED
  BY <1>1, <1>2, <1>3, <1>4, <1>5, <1>6, <1>7 DEF Next, Step

\* A lease is kept only on a generation that serves the request.
LEMMA AnswersStep ==
    IInv /\ ExactInv /\ [Next]_vars => LeaseAnswers'
<1> SUFFICES ASSUME IInv, ExactInv, [Next]_vars PROVE LeaseAnswers'
  OBVIOUS
<1> USE NullAssumption DEF IInv, TypeOK, CallHasRequest, SharedIsPinned, SeenIsCurrent, Pinned,
            Sweeping, ExactInv, LeaseAnswers, Answers
<1>1. ASSUME NEW p \in Procs, Start(p) PROVE LeaseAnswers'
  BY <1>1 DEF Start
<1>2. ASSUME NEW p \in Procs, Acquire(p) \/ GiveUp(p) \/ Unlock(p) PROVE LeaseAnswers'
  BY <1>2 DEF Acquire, GiveUp, Unlock
<1>3. ASSUME NEW p \in Procs, Close(p) \/ Crash(p) PROVE LeaseAnswers'
  BY <1>3 DEF Close, Crash
<1>4. ASSUME NEW p \in Procs, Lookup(p) PROVE LeaseAnswers'
  BY <1>4 DEF Lookup, ReadPointer, OpenLease, FlockShared, VerifyLease, Reread,
              CheckReady, Ready, Miss
<1>5. ASSUME NEW p \in Procs, Build(p) PROVE LeaseAnswers'
  <2>1. CASE PublishGeneration(p)
    <3>1. PICK g \in Gens : /\ dir[g] = "absent"
                            /\ rule' = [rule EXCEPT ![g] = Variant(req[p])]
                            /\ seen' = [seen EXCEPT ![p] = g]
      BY <2>1 DEF PublishGeneration
    <3>2. Answers(g, req[p])'
      BY <2>1, <3>1 DEF PublishGeneration, Variant
    <3>3. ASSUME NEW q \in Procs, pc[q] \in Pinned, sh[q] # Null
          PROVE  Answers(sh[q], req[q])'
      BY <2>1, <3>1, <3>3 DEF PublishGeneration
    <3>4. ASSUME NEW q \in Procs, q # p PROVE pc[q] \notin {"point", "pin"}
      BY <2>1, <3>4 DEF PublishGeneration, LockIsOwned, UnderLock
    <3> QED
      BY <2>1, <3>1, <3>2, <3>3, <3>4 DEF PublishGeneration
  <2> QED
    BY <1>5, <2>1 DEF Build, Discard, Discarded, UnlinkPointer, Prepare, Prepared, Collect,
                      BuildFails, WritePointer, PinPublished, Tidy, Tidied
<1>6. ASSUME NEW p \in Procs, Cleanup(p) PROVE LeaseAnswers'
  BY <1>6 DEF Cleanup, Scan, Sweep, SweepDone, TryExclusive, Tear, Torn, RemovalFails
<1>7. CASE UNCHANGED vars
  BY <1>7 DEF vars
<1> QED
  BY <1>1, <1>2, <1>3, <1>4, <1>5, <1>6, <1>7 DEF Next, Step

\* Both invariants hold in every reachable state.
LEMMA ExactInvariant == Spec => [](IInv /\ ExactInv)
<1>1. Init => ExactInv
  BY NullAssumption
     DEF Init, ExactInv, FragmentsMatchKey, BuildIsKeyed, BuildIsDue, WholeIsExact, LeaseAnswers,
         EmptyResume, Pinned, Sweeping
<1>2. IInv /\ ExactInv /\ [Next]_vars => ExactInv'
  BY FragmentsStep, KeyedStep, DueStep, ExactStep, AnswersStep DEF ExactInv
<1> QED
  BY <1>1, <1>2, InitIInv, NextIInv, PTL DEF Spec

\* The generation a caller holds answers its request and judges each sample
\* exactly once, whatever crashed builds left behind.
THEOREM AnswersAreExact == Spec => []AnswerIsExact
<1>1. IInv /\ ExactInv => AnswerIsExact
  BY NullAssumption
     DEF IInv, TypeOK, SharedIsPinned, Pinned, ExactInv, WholeIsExact, LeaseAnswers, Answers,
         AnswerIsExact
<1> QED
  BY <1>1, ExactInvariant, PTL

\* A build never judges an index that has a durable fragment, and only runs while the
\* current generation does not serve its request.
THEOREM NothingIsRejudged == Spec => []NoRejudge
<1>1. ExactInv => NoRejudge
  BY DEF ExactInv, BuildIsKeyed, BuildIsDue, NoRejudge
<1> QED
  BY <1>1, ExactInvariant, PTL

-----------------------------------------------------------------------------
(* What is removed: RemovalIsDue, under IInv.                              *)

\* Only the holder of the FileLock touches fragments, the pointer or a generation,
\* and it removes fragments for the reason it had when it began.
LEMMA RemovalStep ==
    IInv /\ RemovalIsDue /\ [Next]_vars => RemovalIsDue'
<1> SUFFICES ASSUME IInv, RemovalIsDue, [Next]_vars PROVE RemovalIsDue'
  OBVIOUS
<1> USE NullAssumption DEF IInv, TypeOK, CallHasRequest, LockIsOwned, UnderLock, RemovalIsDue
<1>1. ASSUME NEW p \in Procs, Start(p) PROVE RemovalIsDue'
  BY <1>1 DEF Start
<1>2. ASSUME NEW p \in Procs, Acquire(p) \/ GiveUp(p) \/ Unlock(p) PROVE RemovalIsDue'
  BY <1>2 DEF Acquire, GiveUp, Unlock
<1>3. ASSUME NEW p \in Procs, Close(p) \/ Crash(p) PROVE RemovalIsDue'
  BY <1>3 DEF Close, Crash
<1>4. ASSUME NEW p \in Procs, Lookup(p) PROVE RemovalIsDue'
  BY <1>4 DEF Lookup, ReadPointer, OpenLease, FlockShared, VerifyLease, Reread,
              CheckReady, Ready, Miss
<1>5. ASSUME NEW p \in Procs, Build(p) PROVE RemovalIsDue'
  <2>1. pc[p] \in UnderLock /\ lock = p /\ \A q \in Procs \ {p} : pc[q] \notin UnderLock
    BY <1>5 DEF Build, Discard, Discarded, UnlinkPointer, Prepare, Prepared, Collect,
                BuildFails, PublishGeneration, WritePointer, PinPublished, Tidy, Tidied
  <2>2. CASE Discard(p) \/ Discarded(p)
    BY <2>1, <2>2 DEF Discard, Discarded
  <2>3. CASE UnlinkPointer(p)
    BY <2>1, <2>3 DEF UnlinkPointer
  <2>4. CASE Prepare(p)
    <3>1. Variant(req[p]) # Null
      BY <2>1, VariantType DEF Variants
    <3> QED
      BY <2>1, <2>4, <3>1 DEF Prepare, Remnants
  <2>5. CASE Prepared(p) \/ Collect(p) \/ BuildFails(p)
    BY <2>1, <2>5 DEF Prepared, Collect, BuildFails
  <2>6. CASE PublishGeneration(p)
    BY <2>1, <2>6 DEF PublishGeneration, Replayed
  <2>7. CASE WritePointer(p)
    BY <2>1, <2>7 DEF WritePointer, SeenIsCurrent
  <2>8. CASE PinPublished(p)
    BY <2>1, <2>8 DEF PinPublished
  <2>9. CASE Tidy(p)
    BY <2>1, <2>9 DEF Tidy, Remnants
  <2>10. CASE Tidied(p)
    BY <2>1, <2>10 DEF Tidied
  <2> QED
    BY <1>5, <2>2, <2>3, <2>4, <2>5, <2>6, <2>7, <2>8, <2>9, <2>10 DEF Build
<1>6. ASSUME NEW p \in Procs, Cleanup(p) PROVE RemovalIsDue'
  BY <1>6 DEF Cleanup, Scan, Sweep, SweepDone, TryExclusive, Tear, Torn, RemovalFails
<1>7. CASE UNCHANGED vars
  BY <1>7 DEF vars
<1> QED
  BY <1>1, <1>2, <1>3, <1>4, <1>5, <1>6, <1>7 DEF Next, Step

\* What one step may do to the fragments.
MayRemove ==
    \/ resume.frags \subseteq resume'.frags
    \/ pointer # Null /\ resume.frags \subseteq content[pointer]
    \/ \E p \in Procs : lock = p /\ (req[p].rebuild \/ resume.key # Variant(req[p]))

\* Durable judgements are only discarded by a rebuild, by a request they cannot serve,
\* or once the generation current.json names holds all of them.
THEOREM WorkIsNotLost == Spec => WorkIsKept
<1>1. Init => RemovalIsDue
  BY DEF Init, RemovalIsDue
<1>2. Spec => [](IInv /\ RemovalIsDue)
  BY <1>1, InitIInv, NextIInv, RemovalStep, PTL DEF Spec
<1>3. IInv /\ RemovalIsDue /\ [Next]_vars => [MayRemove]_vars
  <2> SUFFICES ASSUME IInv, RemovalIsDue, [Next]_vars, ~UNCHANGED vars PROVE MayRemove
    OBVIOUS
  <2>1. CASE resume' = resume
    BY <2>1 DEF MayRemove
  <2>2. CASE resume' # resume
    <3>1. PICK p \in Procs : Start(p) \/ Step(p) \/ Close(p) \/ Crash(p)
      BY DEF Next
    <3>2. Build(p)
      BY <2>2, <3>1 DEF Step, Start, Close, Crash, Acquire, GiveUp, Unlock, Lookup, ReadPointer,
         OpenLease, FlockShared, VerifyLease, Reread, CheckReady, Cleanup, Scan, Sweep, SweepDone,
         TryExclusive, Tear, Torn, RemovalFails
    <3>3. pc[p] \in UnderLock /\ lock = p
      BY <3>2 DEF IInv, LockIsOwned, UnderLock, Build, Discard, Discarded, UnlinkPointer, Prepare,
         Prepared, Collect, BuildFails, PublishGeneration, WritePointer, PinPublished, Tidy, Tidied
    <3>4. CASE Collect(p)
      BY <3>4 DEF Collect, MayRemove, IInv, TypeOK
    <3>5. CASE Tidy(p) \/ Tidied(p)
      BY <3>5, NullAssumption DEF Tidy, Tidied, RemovalIsDue, MayRemove
    <3>6. CASE Discard(p) \/ Discarded(p) \/ Prepare(p) \/ Prepared(p)
      BY <2>2, <3>3, <3>6 DEF Discard, Discarded, Prepare, Prepared, RemovalIsDue, MayRemove
    <3> QED
      BY <2>2, <3>2, <3>4, <3>5, <3>6 DEF Build, UnlinkPointer, BuildFails, PublishGeneration,
         WritePointer, PinPublished
  <2> QED
    BY <2>1, <2>2
<1>4. Spec => [][MayRemove]_vars
  BY <1>2, <1>3, PTL DEF Spec
<1>5. [MayRemove]_vars => 
        [ \/ resume.frags \subseteq resume'.frags
          \/ pointer # Null /\ resume.frags \subseteq content[pointer]
          \/ \E p \in Procs : /\ lock = p
                              /\ req[p].rebuild \/ resume.key # Variant(req[p])
        ]_vars
  BY DEF MayRemove
<1> QED
  BY <1>4, <1>5, PTL DEF WorkIsKept

-----------------------------------------------------------------------------
(* LiveFilter: what close() promises.                                      *)

\* The frames of all calls of close() that have not returned.
FrameType ==
    [kind : {"run", "view"}, id : 0 .. Rebased,
     at : {"claim", "join", "lease", "end", "claimed", "selections"}, left : 0 .. LastRun]
Frames == {f \in FrameType : \E t \in Threads : \E k \in DOMAIN stack[t] : stack[t][k] = f}

CloseTypeOK ==
    /\ chain \in FilterJobs
    /\ builder \in [Runs -> {"scan", "applied", "published", "finished", "raised", "done"}]
    /\ stack \in [Threads -> Seq(FrameType)]
    /\ \A f \in Frames : f.kind = "run" => f.id \in Runs

\* A run that is closed has ended and given its generation back, or the call that
\* claimed it will see to that; behind its join the run has ended.
EndsRun(f, r) == f.kind = "run" /\ f.id = r /\ f.at \in {"join", "lease"}

RunInv(r) ==
    /\ <<"run", r>> \in closed =>
        \/ builder[r] = "done" /\ r \notin leased
        \/ \E f \in Frames : EndsRun(f, r)
    /\ \A f \in Frames : f.kind = "run" /\ f.id = r /\ f.at = "lease" => builder[r] = "done"

\* Its view is closed too, or will be by the call that claimed the run or by the
\* one of the view that this call has made.
EndsView(f, r) == EndsRun(f, r) \/ (f.kind = "view" /\ f.id = r /\ f.at \in {"claim", "claimed"})

ViewInv(r) ==
    <<"run", r>> \in closed =>
        <<"view", r>> \in closed \/ \E f \in Frames : EndsView(f, r)

\* With a view the source is closed, and every run of the view is or will be: by
\* the call that counts them down, or by one that has been made for it.
ClosesRun(f, v, q) ==
    \/ f.kind = "view" /\ f.id = v /\ f.at = "selections" /\ q <= f.left
    \/ f.kind = "run" /\ f.id = q /\ f.at = "claim"

SourceInv(v) ==
    <<"view", v>> \in closed =>
        /\ ~source
        /\ \A q \in 1 .. v : <<"run", q>> \in closed \/ \E f \in Frames : ClosesRun(f, v, q)

CloseInv == CloseTypeOK /\ \A r \in Runs : RunInv(r) /\ ViewInv(r) /\ SourceInv(r)

-----------------------------------------------------------------------------
(* Chains, frames and stacks.                                              *)

LEMMA ChainFacts ==
    ASSUME chain \in FilterJobs
    PROVE  LastRun \in Nat /\ Runs = 1 .. LastRun /\ Rebased = LastRun + 1 /\ Rebased \notin Runs
<1>1. LastRun \in Nat /\ Runs = 1 .. LastRun
    BY FilterJobsAssumption DEF JobIsChain, LastRun, Runs
<1> QED BY <1>1 DEF Rebased

LEMMA FrameFacts ==
    ASSUME chain \in FilterJobs
    PROVE  /\ \A f \in FrameType, a \in {"join", "lease", "end", "claimed", "selections"} :
                /\ Moved(f, a) \in FrameType
                /\ Moved(f, a).kind = f.kind /\ Moved(f, a).id = f.id
                /\ Moved(f, a).at = a /\ Moved(f, a).left = f.left
           /\ \A f \in FrameType, n \in 0 .. LastRun :
                /\ Leaving(f, n) \in FrameType
                /\ Leaving(f, n).kind = f.kind /\ Leaving(f, n).id = f.id
                /\ Leaving(f, n).at = f.at /\ Leaving(f, n).left = n
           /\ \A kind \in {"run", "view"}, i \in 0 .. Rebased :
                /\ Frame(kind, i) \in FrameType
                /\ Frame(kind, i).kind = kind /\ Frame(kind, i).id = i
                /\ Frame(kind, i).at = "claim" /\ Frame(kind, i).left = 0
<1>1. LastRun \in Nat
    BY ChainFacts
<1> QED BY <1>1 DEF FrameType, Moved, Leaving, Frame

\* The frames that are there when those on top of a stack are replaced.
LEMMA OnTop ==
    ASSUME CloseTypeOK, UNCHANGED chain, NEW t \in Threads, stack[t] # <<>>,
           NEW new \in Seq(FrameType), Replace(t, new)
    PROVE  /\ stack' \in [Threads -> Seq(FrameType)]
           /\ Top(t) \in Frames
           /\ \A f \in Frames : f = Top(t) \/ f \in Frames'
           /\ \A k \in 1 .. Len(new) : new[k] \in Frames'
           /\ \A f \in Frames' : f \in Frames \/ \E k \in 1 .. Len(new) : f = new[k]
<1>0. FrameType' = FrameType
    BY DEF FrameType, Rebased, LastRun
<1>1. PICK s \in Seq(FrameType) : s = stack[t]
    BY DEF CloseTypeOK
<1>2. s # <<>> /\ Len(s) \in Nat \ {0} /\ DOMAIN s = 1 .. Len(s) /\ s \in [1 .. Len(s) -> FrameType]
    BY <1>1, LenProperties, EmptySeq
<1>3. Top(t) = s[1]
    BY <1>1, <1>2 DEF Top
<1>4. PICK u \in Seq(FrameType) :
        u = Tail(s) /\ Len(u) = Len(s) - 1 /\ \A k \in 1 .. Len(u) : u[k] = s[k + 1]
    <2>1. /\ Tail(s) \in Seq(FrameType) /\ Len(Tail(s)) = Len(s) - 1
          /\ \A k \in 1 .. Len(Tail(s)) : Tail(s)[k] = s[k + 1]
        BY <1>2, HeadTailProperties
    <2> QED BY <2>1
<1>5. PICK w \in Seq(FrameType) :
        /\ w = new \o u /\ Len(w) = Len(new) + Len(u)
        /\ \A k \in 1 .. Len(new) + Len(u) : w[k] = IF k <= Len(new) THEN new[k] ELSE u[k - Len(new)]
    <2>1. /\ new \o u \in Seq(FrameType) /\ Len(new \o u) = Len(new) + Len(u)
          /\ \A k \in 1 .. Len(new) + Len(u) :
                (new \o u)[k] = IF k <= Len(new) THEN new[k] ELSE u[k - Len(new)]
        BY ConcatProperties
    <2> QED BY <2>1
<1>6. stack' = [stack EXCEPT ![t] = w]
    BY <1>1, <1>4, <1>5 DEF Replace
<1>7. stack' \in [Threads -> Seq(FrameType)] /\ stack'[t] = w
    BY <1>6 DEF CloseTypeOK
<1>8. /\ Len(new) \in Nat /\ DOMAIN new = 1 .. Len(new) /\ Len(u) \in Nat
      /\ DOMAIN w = 1 .. Len(new) + Len(u) /\ w \in [1 .. Len(new) + Len(u) -> FrameType]
      /\ new \in [1 .. Len(new) -> FrameType]
    BY <1>5, LenProperties
<1>9. Top(t) \in Frames
    BY <1>1, <1>2, <1>3 DEF Frames
<1>10. ASSUME NEW f \in Frames, f # Top(t) PROVE f \in Frames'
    <2>1. PICK p \in Threads : \E k \in DOMAIN stack[p] : stack[p][k] = f
        BY DEF Frames
    <2>2. CASE p # t
        <3>1. stack'[p] = stack[p]
            BY <1>6, <2>2 DEF CloseTypeOK
        <3> QED BY <1>0, <2>1, <3>1 DEF Frames
    <2>3. CASE p = t
        <3>1. PICK k \in 1 .. Len(s) : s[k] = f
            BY <1>1, <1>2, <2>1, <2>3
        <3>2. k # 1
            BY <1>3, <1>10, <3>1
        <3>3. PICK j \in 1 .. Len(u) : j = k - 1
            BY <1>2, <1>4, <3>1, <3>2
        <3>4. u[j] = f
            <4>1. u[j] = s[j + 1]
                BY <1>4
            <4>2. j + 1 = k
                BY <3>1, <3>3
            <4> QED BY <3>1, <4>1, <4>2
        <3>5. PICK i \in 1 .. Len(new) + Len(u) : i = Len(new) + j
            <4>1. Len(new) \in Nat /\ Len(u) \in Nat /\ j \in 1 .. Len(u)
                BY <1>8
            <4>2. Len(new) + j \in 1 .. Len(new) + Len(u)
                BY <4>1
            <4> QED BY <4>2
        <3>6. w[i] = u[i - Len(new)] /\ i - Len(new) = j
            <4>1. ~(i <= Len(new)) /\ i - Len(new) = j
                BY <1>8, <3>3, <3>5
            <4> QED BY <1>5, <4>1
        <3>7. w[i] = f
            BY <3>4, <3>6
        <3> QED BY <1>0, <1>7, <1>8, <3>7 DEF Frames
    <2> QED BY <2>2, <2>3
<1>11. ASSUME NEW k \in 1 .. Len(new) PROVE new[k] \in Frames'
    <2>1. k \in 1 .. Len(new) + Len(u) /\ k <= Len(new)
        BY <1>8
    <2>2. w[k] = new[k]
        BY <1>5, <2>1
    <2> QED BY <1>0, <1>7, <1>8, <2>1, <2>2 DEF Frames
<1>12. ASSUME NEW f \in Frames' PROVE f \in Frames \/ \E k \in 1 .. Len(new) : f = new[k]
    <2>1. PICK p \in Threads : \E k \in DOMAIN stack'[p] : stack'[p][k] = f
        BY DEF Frames
    <2>2. f \in FrameType
        BY <1>0 DEF Frames
    <2>3. CASE p # t
        <3>1. stack'[p] = stack[p]
            BY <1>6, <2>3 DEF CloseTypeOK
        <3> QED BY <2>1, <2>2, <3>1 DEF Frames
    <2>4. CASE p = t
        <3>1. PICK k \in 1 .. Len(new) + Len(u) : w[k] = f
            BY <1>7, <1>8, <2>1, <2>4
        <3>2. CASE k <= Len(new)
            <4>1. k \in 1 .. Len(new)
                BY <1>8, <3>2
            <4>2. w[k] = new[k]
                BY <1>5, <3>2
            <4> QED BY <3>1, <4>1, <4>2
        <3>3. CASE ~(k <= Len(new))
            <4>1. PICK j \in 1 .. Len(u) : j = k - Len(new)
                <5>1. Len(new) \in Nat /\ Len(u) \in Nat /\ k \in 1 .. Len(new) + Len(u)
                    BY <1>8
                <5>2. k - Len(new) \in 1 .. Len(u)
                    BY <3>3, <5>1
                <5> QED BY <5>2
            <4>2. w[k] = u[j]
                BY <1>5, <3>3, <4>1
            <4>3. u[j] = s[j + 1]
                BY <1>4
            <4>4. j + 1 \in 1 .. Len(s)
                BY <1>2, <1>4, <4>1
            <4> QED BY <1>1, <1>2, <2>2, <3>1, <4>2, <4>3, <4>4 DEF Frames
        <3> QED BY <3>2, <3>3
    <2> QED BY <2>3, <2>4
<1> QED BY <1>7, <1>9, <1>10, <1>11, <1>12

LEMMA Returns ==
    ASSUME CloseTypeOK, UNCHANGED chain, NEW t \in Threads, stack[t] # <<>>, Return(t)
    PROVE  /\ stack' \in [Threads -> Seq(FrameType)] /\ Top(t) \in Frames
           /\ \A f \in Frames : f = Top(t) \/ f \in Frames'
           /\ \A f \in Frames' : f \in Frames
<1>1. PICK new \in Seq(FrameType) : new = <<>> /\ 1 .. Len(new) = {}
    <2>1. <<>> \in Seq(FrameType) /\ 1 .. Len(<<>>) = {}
        BY EmptySeq
    <2> QED BY <2>1
<1>2. Replace(t, new)
    BY <1>1 DEF Return
<1> QED BY <1>1, <1>2, OnTop

LEMMA GoesOn ==
    ASSUME CloseTypeOK, UNCHANGED chain, NEW t \in Threads, stack[t] # <<>>,
           NEW a \in FrameType, Replace(t, <<a>>)
    PROVE  /\ stack' \in [Threads -> Seq(FrameType)] /\ Top(t) \in Frames
           /\ \A f \in Frames : f = Top(t) \/ f \in Frames'
           /\ a \in Frames'
           /\ \A f \in Frames' : f \in Frames \/ f = a
<1>1. PICK new \in Seq(FrameType) : new = <<a>> /\ Len(new) = 1 /\ new[1] = a
    <2>1. <<a>> \in Seq(FrameType) /\ Len(<<a>>) = 1 /\ <<a>>[1] = a
        OBVIOUS
    <2> QED BY <2>1
<1>2. Replace(t, new)
    BY <1>1
<1>3. /\ stack' \in [Threads -> Seq(FrameType)] /\ Top(t) \in Frames
      /\ \A f \in Frames : f = Top(t) \/ f \in Frames'
      /\ \A k \in 1 .. Len(new) : new[k] \in Frames'
      /\ \A f \in Frames' : f \in Frames \/ \E k \in 1 .. Len(new) : f = new[k]
    BY <1>2, OnTop
<1>4. 1 \in 1 .. Len(new) /\ \A k \in 1 .. Len(new) : k = 1
    BY <1>1
<1> QED BY <1>1, <1>3, <1>4

LEMMA Calls ==
    ASSUME CloseTypeOK, UNCHANGED chain, NEW t \in Threads, stack[t] # <<>>,
           NEW a \in FrameType, NEW b \in FrameType, Replace(t, <<a, b>>)
    PROVE  /\ stack' \in [Threads -> Seq(FrameType)] /\ Top(t) \in Frames
           /\ \A f \in Frames : f = Top(t) \/ f \in Frames'
           /\ a \in Frames' /\ b \in Frames'
           /\ \A f \in Frames' : f \in Frames \/ f = a \/ f = b
<1>1. PICK new \in Seq(FrameType) : new = <<a, b>> /\ Len(new) = 2 /\ new[1] = a /\ new[2] = b
    <2>1. <<a, b>> \in Seq(FrameType) /\ Len(<<a, b>>) = 2 /\ <<a, b>>[1] = a /\ <<a, b>>[2] = b
        OBVIOUS
    <2> QED BY <2>1
<1>2. Replace(t, new)
    BY <1>1
<1>3. /\ stack' \in [Threads -> Seq(FrameType)] /\ Top(t) \in Frames
      /\ \A f \in Frames : f = Top(t) \/ f \in Frames'
      /\ \A k \in 1 .. Len(new) : new[k] \in Frames'
      /\ \A f \in Frames' : f \in Frames \/ \E k \in 1 .. Len(new) : f = new[k]
    BY <1>2, OnTop
<1>4. 1 \in 1 .. Len(new) /\ 2 \in 1 .. Len(new) /\ \A k \in 1 .. Len(new) : k = 1 \/ k = 2
    BY <1>1
<1> QED BY <1>1, <1>3, <1>4

-----------------------------------------------------------------------------
(* The steps of close().                                                   *)

LEMMA TopFacts ==
    ASSUME CloseInv, UNCHANGED <<chain, builder>>, NEW t \in Threads, stack[t] # <<>>
    PROVE  /\ CloseTypeOK /\ chain' \in FilterJobs /\ builder' \in [Runs -> {"scan", "applied", "published", "finished", "raised", "done"}]
           /\ Runs' = Runs /\ Rebased' = Rebased /\ LastRun' = LastRun /\ FrameType' = FrameType
           /\ Top(t) \in FrameType /\ (Top(t).kind = "run" => Top(t).id \in Runs)
           /\ Key(t) = <<Top(t).kind, Top(t).id>>
<1>1. CloseTypeOK /\ chain' = chain /\ builder' = builder
    BY DEF CloseInv
<1>2. Runs' = Runs /\ Rebased' = Rebased /\ LastRun' = LastRun /\ FrameType' = FrameType
    BY <1>1 DEF Runs, Rebased, LastRun, FrameType
<1>3. PICK s \in Seq(FrameType) : s = stack[t]
    BY <1>1 DEF CloseTypeOK
<1>4. s # <<>> /\ 1 \in DOMAIN s /\ s[1] \in FrameType
    <2>1. s # <<>> /\ Len(s) \in Nat \ {0} /\ DOMAIN s = 1 .. Len(s) /\ s \in [1 .. Len(s) -> FrameType]
        BY <1>3, LenProperties, EmptySeq
    <2> QED BY <2>1
<1>5. Top(t) = s[1]
    BY <1>3, <1>4 DEF Top
<1>6. Top(t) \in Frames
    BY <1>3, <1>4, <1>5 DEF Frames
<1> QED BY <1>1, <1>2, <1>4, <1>5, <1>6 DEF CloseTypeOK, Key

-----------------------------------------------------------------------------
(* The steps of close().  Each hands on what the frame on top has promised. *)

\* Whoever had promised to close a run of a view still has, or has done it.
LEMMA SourceStays ==
    ASSUME NEW v \in Runs, SourceInv(v), <<"view", v>> \in closed,
           closed \subseteq closed', source' => source,
           \A q \in 1 .. v : \A f \in Frames : ClosesRun(f, v, q) =>
                <<"run", q>> \in closed' \/ \E g \in Frames' : ClosesRun(g, v, q)
    PROVE  SourceInv(v)'
<1>1. ASSUME NEW q \in 1 .. v
      PROVE  <<"run", q>> \in closed' \/ \E g \in Frames' : ClosesRun(g, v, q)
    BY DEF SourceInv
<1>2. ~source'
    BY DEF SourceInv
<1> QED BY <1>1, <1>2 DEF SourceInv, ClosesRun

LEMMA ClaimRunStep ==
    ASSUME CloseInv, NEW t \in Threads, ClaimRun(t)
    PROVE  CloseInv'
<1>0. /\ UNCHANGED <<chain, builder>> /\ stack[t] # <<>>
      /\ Top(t).kind = "run" /\ Top(t).at = "claim"
    BY DEF ClaimRun, At, running
<1>1. PICK top \in FrameType :
        /\ top = Top(t) /\ top.kind = "run" /\ top.at = "claim"
        /\ (top.kind = "run" => top.id \in Runs) /\ Key(t) = <<top.kind, top.id>>
    BY <1>0, TopFacts
<1>2. /\ CloseTypeOK /\ chain \in FilterJobs /\ chain' \in FilterJobs
      /\ builder' \in [Runs -> {"scan", "applied", "published", "finished", "raised", "done"}]
      /\ Runs' = Runs /\ Rebased' = Rebased /\ LastRun' = LastRun /\ FrameType' = FrameType
    BY <1>0, TopFacts DEF CloseTypeOK
<1>3. \A r \in Runs : RunInv(r) /\ ViewInv(r) /\ SourceInv(r)
    BY DEF CloseInv
<1>4. leased' = leased /\ source' = source
    BY DEF ClaimRun, running
<1>5. CASE Key(t) \in closed
    <2>1. Return(t) /\ closed' = closed /\ <<"run", top.id>> \in closed
        BY <1>1, <1>5 DEF ClaimRun
    <2>2. /\ stack' \in [Threads -> Seq(FrameType)] /\ top \in Frames
          /\ \A f \in Frames : f = top \/ f \in Frames'
          /\ \A f \in Frames' : f \in Frames
        BY <1>0, <1>1, <1>2, <2>1, Returns
    <2>3. CloseTypeOK'
        BY <1>0, <1>1, <1>2, <1>3, <1>4, <2>1, <2>2 DEF CloseTypeOK
    <2>4. ASSUME NEW r \in Runs PROVE RunInv(r)'
        BY <1>0, <1>1, <1>2, <1>3, <1>4, <2>1, <2>2 DEF RunInv, EndsRun
    <2>5. ASSUME NEW r \in Runs PROVE ViewInv(r)'
        BY <1>0, <1>1, <1>2, <1>3, <1>4, <2>1, <2>2 DEF ViewInv, EndsView, EndsRun
    <2>6. ASSUME NEW r \in Runs PROVE SourceInv(r)'
        <3>1. ASSUME NEW q \in 1 .. r, NEW f \in Frames, ClosesRun(f, r, q)
              PROVE  <<"run", q>> \in closed' \/ \E g \in Frames' : ClosesRun(g, r, q)
            BY <3>1, <1>0, <1>1, <1>2, <1>3, <1>4, <2>1, <2>2 DEF ClosesRun
        <3>2. CASE <<"view", r>> \in closed
            BY <1>3, <1>0, <1>1, <1>2, <1>3, <1>4, <2>1, <2>2, <3>1, <3>2, SourceStays
        <3>3. CASE <<"view", r>> \notin closed
            BY <1>0, <1>1, <1>2, <1>3, <1>4, <2>1, <2>2, <3>3 DEF SourceInv
        <3> QED BY <3>2, <3>3
    <2> QED BY <1>2, <2>3, <2>4, <2>5, <2>6 DEF CloseInv
<1>6. CASE Key(t) \notin closed
    <2>1. PICK next \in FrameType :
            /\ next = Moved(top, "join")
            /\ next.kind = "run" /\ next.id = top.id /\ next.at = "join"
        BY <1>1, <1>2, FrameFacts
    <2>2. closed' = closed \cup {<<"run", top.id>>} /\ Replace(t, <<next>>)
        BY <1>1, <1>6, <2>1 DEF ClaimRun, Move
    <2>3. /\ stack' \in [Threads -> Seq(FrameType)] /\ top \in Frames
          /\ \A f \in Frames : f = top \/ f \in Frames'
          /\ next \in Frames' /\ \A f \in Frames' : f \in Frames \/ f = next
        BY <1>0, <1>1, <1>2, <2>2, GoesOn
    <2>4. CloseTypeOK'
        BY <1>0, <1>1, <1>2, <1>3, <1>4, <2>1, <2>2, <2>3 DEF CloseTypeOK
    <2>5. ASSUME NEW r \in Runs PROVE RunInv(r)'
        BY <1>0, <1>1, <1>2, <1>3, <1>4, <2>1, <2>2, <2>3 DEF RunInv, EndsRun
    <2>6. ASSUME NEW r \in Runs PROVE ViewInv(r)'
        BY <1>0, <1>1, <1>2, <1>3, <1>4, <2>1, <2>2, <2>3 DEF ViewInv, EndsView, EndsRun
    <2>7. ASSUME NEW r \in Runs PROVE SourceInv(r)'
        <3>1. ASSUME NEW q \in 1 .. r, NEW f \in Frames, ClosesRun(f, r, q)
              PROVE  <<"run", q>> \in closed' \/ \E g \in Frames' : ClosesRun(g, r, q)
            BY <3>1, <1>0, <1>1, <1>2, <1>3, <1>4, <2>1, <2>2, <2>3 DEF ClosesRun
        <3>2. CASE <<"view", r>> \in closed
            BY <1>3, <1>0, <1>1, <1>2, <1>3, <1>4, <2>1, <2>2, <2>3, <3>1, <3>2, SourceStays
        <3>3. CASE <<"view", r>> \notin closed
            BY <1>0, <1>1, <1>2, <1>3, <1>4, <2>1, <2>2, <2>3, <3>3 DEF SourceInv
        <3> QED BY <3>2, <3>3
    <2> QED BY <1>2, <2>4, <2>5, <2>6, <2>7 DEF CloseInv
<1> QED BY <1>5, <1>6

LEMMA JoinStep ==
    ASSUME CloseInv, NEW t \in Threads, Join(t)
    PROVE  CloseInv'
<1>0. /\ UNCHANGED <<chain, builder>> /\ stack[t] # <<>>
      /\ Top(t).kind = "run" /\ Top(t).at = "join"
    BY DEF Join, At, running
<1>1. PICK top \in FrameType :
        /\ top = Top(t) /\ top.kind = "run" /\ top.at = "join"
        /\ (top.kind = "run" => top.id \in Runs) /\ Key(t) = <<top.kind, top.id>>
    BY <1>0, TopFacts
<1>2. /\ CloseTypeOK /\ chain \in FilterJobs /\ chain' \in FilterJobs
      /\ builder' \in [Runs -> {"scan", "applied", "published", "finished", "raised", "done"}]
      /\ Runs' = Runs /\ Rebased' = Rebased /\ LastRun' = LastRun /\ FrameType' = FrameType
    BY <1>0, TopFacts DEF CloseTypeOK
<1>3. \A r \in Runs : RunInv(r) /\ ViewInv(r) /\ SourceInv(r)
    BY DEF CloseInv
<1>4. leased' = leased /\ source' = source /\ closed' = closed
    BY DEF Join, running
<1>5. PICK next \in FrameType :
        /\ next = Moved(top, "lease")
        /\ next.kind = "run" /\ next.id = top.id /\ next.at = "lease"
    BY <1>1, <1>2, FrameFacts
<1>6. builder[top.id] = "done" /\ Replace(t, <<next>>)
    BY <1>1, <1>5 DEF Join, Move
<1>7. /\ stack' \in [Threads -> Seq(FrameType)] /\ top \in Frames
      /\ \A f \in Frames : f = top \/ f \in Frames'
      /\ next \in Frames' /\ \A f \in Frames' : f \in Frames \/ f = next
    BY <1>0, <1>1, <1>2, <1>6, GoesOn
<1>8. CloseTypeOK'
    BY <1>0, <1>1, <1>2, <1>3, <1>4, <1>5, <1>6, <1>7 DEF CloseTypeOK
<1>9. ASSUME NEW r \in Runs PROVE RunInv(r)'
    <2>1. CASE r = top.id
        <3>1. EndsRun(next, r) /\ builder'[r] = "done"
            BY <1>0, <1>5, <1>6, <2>1 DEF EndsRun
        <3>2. <<"run", r>> \in closed' => \E f \in Frames' : EndsRun(f, r)
            BY <1>7, <3>1
        <3> QED BY <3>1, <3>2 DEF RunInv, EndsRun
    <2>2. CASE r # top.id
        BY <1>0, <1>1, <1>3, <1>4, <1>5, <1>7, <2>2 DEF RunInv, EndsRun
    <2> QED BY <2>1, <2>2
<1>10. ASSUME NEW r \in Runs PROVE ViewInv(r)'
    BY <1>0, <1>1, <1>3, <1>4, <1>5, <1>7 DEF ViewInv, EndsView, EndsRun
<1>11. ASSUME NEW r \in Runs PROVE SourceInv(r)'
    <2>1. ASSUME NEW q \in 1 .. r, NEW f \in Frames, ClosesRun(f, r, q)
          PROVE  <<"run", q>> \in closed' \/ \E g \in Frames' : ClosesRun(g, r, q)
        BY <2>1, <1>0, <1>1, <1>2, <1>3, <1>4, <1>5, <1>6, <1>7 DEF ClosesRun
    <2>2. CASE <<"view", r>> \in closed
        BY <1>3, <1>0, <1>1, <1>2, <1>3, <1>4, <1>5, <1>6, <1>7, <2>1, <2>2, SourceStays
    <2>3. CASE <<"view", r>> \notin closed
        BY <1>0, <1>1, <1>2, <1>3, <1>4, <1>5, <1>6, <1>7, <2>3 DEF SourceInv
    <2> QED BY <2>2, <2>3
<1> QED BY <1>2, <1>8, <1>9, <1>10, <1>11 DEF CloseInv

LEMMA CloseLeaseStep ==
    ASSUME CloseInv, NEW t \in Threads, CloseLease(t)
    PROVE  CloseInv'
<1>0. /\ UNCHANGED <<chain, builder>> /\ stack[t] # <<>>
      /\ Top(t).kind = "run" /\ Top(t).at = "lease"
    BY DEF CloseLease, At, running
<1>1. PICK top \in FrameType :
        /\ top = Top(t) /\ top.kind = "run" /\ top.at = "lease"
        /\ (top.kind = "run" => top.id \in Runs) /\ Key(t) = <<top.kind, top.id>>
    BY <1>0, TopFacts
<1>2. /\ CloseTypeOK /\ chain \in FilterJobs /\ chain' \in FilterJobs
      /\ builder' \in [Runs -> {"scan", "applied", "published", "finished", "raised", "done"}]
      /\ Runs' = Runs /\ Rebased' = Rebased /\ LastRun' = LastRun /\ FrameType' = FrameType
    BY <1>0, TopFacts DEF CloseTypeOK
<1>3. \A r \in Runs : RunInv(r) /\ ViewInv(r) /\ SourceInv(r)
    BY DEF CloseInv
<1>4. source' = source /\ closed' = closed
    BY DEF CloseLease, running
<1>5. PICK next \in FrameType : next = Moved(top, "end") /\ next.kind = "run" /\ next.id = top.id /\ next.at = "end"
    BY <1>1, <1>2, FrameFacts
<1>6. PICK new \in FrameType :
        /\ new = Frame("view", top.id)
        /\ new.kind = "view" /\ new.id = top.id /\ new.at = "claim"
    <2>1. top.id \in 0 .. Rebased
        BY DEF FrameType
    <2> QED BY <1>2, <2>1, FrameFacts
<1>7. leased' = leased \ {top.id} /\ Replace(t, <<new, next>>)
    BY <1>1, <1>5, <1>6 DEF CloseLease, MoveAndCall
<1>8. builder[top.id] = "done"
    <2>1. top \in Frames
        BY <1>0, <1>1, <1>2, <1>7, Calls
    <2> QED BY <1>1, <1>3, <2>1 DEF RunInv
<1>9. /\ stack' \in [Threads -> Seq(FrameType)] /\ top \in Frames
      /\ \A f \in Frames : f = top \/ f \in Frames'
      /\ new \in Frames' /\ next \in Frames'
      /\ \A f \in Frames' : f \in Frames \/ f = new \/ f = next
    BY <1>0, <1>1, <1>2, <1>7, Calls
<1>10. CloseTypeOK'
    BY <1>0, <1>1, <1>2, <1>3, <1>4, <1>5, <1>6, <1>7, <1>8, <1>9 DEF CloseTypeOK
<1>11. ASSUME NEW r \in Runs PROVE RunInv(r)'
    BY <1>0, <1>1, <1>2, <1>3, <1>4, <1>5, <1>6, <1>7, <1>8, <1>9 DEF RunInv, EndsRun
<1>12. ASSUME NEW r \in Runs PROVE ViewInv(r)'
    BY <1>0, <1>1, <1>2, <1>3, <1>4, <1>5, <1>6, <1>7, <1>8, <1>9 DEF ViewInv, EndsView, EndsRun
<1>13. ASSUME NEW r \in Runs PROVE SourceInv(r)'
    <2>1. ASSUME NEW q \in 1 .. r, NEW f \in Frames, ClosesRun(f, r, q)
          PROVE  <<"run", q>> \in closed' \/ \E g \in Frames' : ClosesRun(g, r, q)
        BY <2>1, <1>0, <1>1, <1>2, <1>3, <1>4, <1>5, <1>6, <1>7, <1>8, <1>9 DEF ClosesRun
    <2>2. CASE <<"view", r>> \in closed
        BY <1>3, <1>0, <1>1, <1>2, <1>3, <1>4, <1>5, <1>6, <1>7, <1>8, <1>9, <2>1, <2>2, SourceStays
    <2>3. CASE <<"view", r>> \notin closed
        BY <1>0, <1>1, <1>2, <1>3, <1>4, <1>5, <1>6, <1>7, <1>8, <1>9, <2>3 DEF SourceInv
    <2> QED BY <2>2, <2>3
<1> QED BY <1>2, <1>10, <1>11, <1>12, <1>13 DEF CloseInv

LEMMA ClaimViewStep ==
    ASSUME CloseInv, NEW t \in Threads, ClaimView(t)
    PROVE  CloseInv'
<1>0. /\ UNCHANGED <<chain, builder>> /\ stack[t] # <<>>
      /\ Top(t).kind = "view" /\ Top(t).at = "claim"
    BY DEF ClaimView, At, running
<1>1. PICK top \in FrameType :
        /\ top = Top(t) /\ top.kind = "view" /\ top.at = "claim"
        /\ (top.kind = "run" => top.id \in Runs) /\ Key(t) = <<top.kind, top.id>>
    BY <1>0, TopFacts
<1>2. /\ CloseTypeOK /\ chain \in FilterJobs /\ chain' \in FilterJobs
      /\ builder' \in [Runs -> {"scan", "applied", "published", "finished", "raised", "done"}]
      /\ Runs' = Runs /\ Rebased' = Rebased /\ LastRun' = LastRun /\ FrameType' = FrameType
    BY <1>0, TopFacts DEF CloseTypeOK
<1>3. \A r \in Runs : RunInv(r) /\ ViewInv(r) /\ SourceInv(r)
    BY DEF CloseInv
<1>4. leased' = leased /\ source' = source /\ closed' = closed
    BY DEF ClaimView, running
<1>5. CASE Key(t) \in closed
    <2>1. Return(t) /\ <<"view", top.id>> \in closed
        BY <1>1, <1>5 DEF ClaimView
    <2>2. /\ stack' \in [Threads -> Seq(FrameType)] /\ top \in Frames
          /\ \A f \in Frames : f = top \/ f \in Frames'
          /\ \A f \in Frames' : f \in Frames
        BY <1>0, <1>1, <1>2, <2>1, Returns
    <2>3. CloseTypeOK'
        BY <1>0, <1>1, <1>2, <1>3, <1>4, <2>1, <2>2 DEF CloseTypeOK
    <2>4. ASSUME NEW r \in Runs PROVE RunInv(r)'
        BY <1>0, <1>1, <1>2, <1>3, <1>4, <2>1, <2>2 DEF RunInv, EndsRun
    <2>5. ASSUME NEW r \in Runs PROVE ViewInv(r)'
        BY <1>0, <1>1, <1>2, <1>3, <1>4, <2>1, <2>2 DEF ViewInv, EndsView, EndsRun
    <2>6. ASSUME NEW r \in Runs PROVE SourceInv(r)'
        <3>1. ASSUME NEW q \in 1 .. r, NEW f \in Frames, ClosesRun(f, r, q)
              PROVE  <<"run", q>> \in closed' \/ \E g \in Frames' : ClosesRun(g, r, q)
            BY <3>1, <1>0, <1>1, <1>2, <1>3, <1>4, <2>1, <2>2 DEF ClosesRun
        <3>2. CASE <<"view", r>> \in closed
            BY <1>3, <1>0, <1>1, <1>2, <1>3, <1>4, <2>1, <2>2, <3>1, <3>2, SourceStays
        <3>3. CASE <<"view", r>> \notin closed
            BY <1>0, <1>1, <1>2, <1>3, <1>4, <2>1, <2>2, <3>3 DEF SourceInv
        <3> QED BY <3>2, <3>3
    <2> QED BY <1>2, <2>3, <2>4, <2>5, <2>6 DEF CloseInv
<1>6. CASE Key(t) \notin closed
    <2>1. PICK next \in FrameType :
            /\ next = Moved(top, "claimed")
            /\ next.kind = "view" /\ next.id = top.id /\ next.at = "claimed"
        BY <1>1, <1>2, FrameFacts
    <2>2. Replace(t, <<next>>)
        BY <1>1, <1>6, <2>1 DEF ClaimView, Move
    <2>3. /\ stack' \in [Threads -> Seq(FrameType)] /\ top \in Frames
          /\ \A f \in Frames : f = top \/ f \in Frames'
          /\ next \in Frames' /\ \A f \in Frames' : f \in Frames \/ f = next
        BY <1>0, <1>1, <1>2, <2>2, GoesOn
    <2>4. CloseTypeOK'
        BY <1>0, <1>1, <1>2, <1>3, <1>4, <2>1, <2>2, <2>3 DEF CloseTypeOK
    <2>5. ASSUME NEW r \in Runs PROVE RunInv(r)'
        <3>1. builder' = builder
            BY DEF ClaimView, running
        <3>2. \A f \in Frames : EndsRun(f, r) => f \in Frames'
            BY <1>1, <2>1, <2>3 DEF EndsRun
        <3>3. \A f \in Frames' : f.kind = "run" => f \in Frames
            BY <2>1, <2>3
        <3>4. <<"run", r>> \in closed
                => (builder[r] = "done" /\ r \notin leased) \/ \E f \in Frames' : EndsRun(f, r)
            BY <1>3, <3>2 DEF RunInv
        <3>5. \A f \in Frames' : f.kind = "run" /\ f.id = r /\ f.at = "lease" => builder[r] = "done"
            BY <1>3, <3>3 DEF RunInv
        <3>6. EndsRun(top, r)' = EndsRun(top, r) /\ \A f : EndsRun(f, r)' = EndsRun(f, r)
            BY DEF EndsRun
        <3> QED BY <1>4, <3>1, <3>4, <3>5, <3>6 DEF RunInv
    <2>6. ASSUME NEW r \in Runs PROVE ViewInv(r)'
        BY <1>0, <1>1, <1>2, <1>3, <1>4, <2>1, <2>2, <2>3 DEF ViewInv, EndsView, EndsRun
    <2>7. ASSUME NEW r \in Runs PROVE SourceInv(r)'
        <3>1. ASSUME NEW q \in 1 .. r, NEW f \in Frames, ClosesRun(f, r, q)
              PROVE  <<"run", q>> \in closed' \/ \E g \in Frames' : ClosesRun(g, r, q)
            BY <3>1, <1>0, <1>1, <1>2, <1>3, <1>4, <2>1, <2>2, <2>3 DEF ClosesRun
        <3>2. CASE <<"view", r>> \in closed
            BY <1>3, <1>0, <1>1, <1>2, <1>3, <1>4, <2>1, <2>2, <2>3, <3>1, <3>2, SourceStays
        <3>3. CASE <<"view", r>> \notin closed
            BY <1>0, <1>1, <1>2, <1>3, <1>4, <2>1, <2>2, <2>3, <3>3 DEF SourceInv
        <3> QED BY <3>2, <3>3
    <2> QED BY <1>2, <2>4, <2>5, <2>6, <2>7 DEF CloseInv
<1> QED BY <1>5, <1>6

LEMMA CloseUniverseStep ==
    ASSUME CloseInv, NEW t \in Threads, CloseUniverse(t)
    PROVE  CloseInv'
<1>0. /\ UNCHANGED <<chain, builder>> /\ stack[t] # <<>>
      /\ Top(t).kind = "view" /\ Top(t).at = "claimed"
    BY DEF CloseUniverse, At, running
<1>1. PICK top \in FrameType :
        /\ top = Top(t) /\ top.kind = "view" /\ top.at = "claimed"
        /\ (top.kind = "run" => top.id \in Runs) /\ Key(t) = <<top.kind, top.id>>
    BY <1>0, TopFacts
<1>2. /\ CloseTypeOK /\ chain \in FilterJobs /\ chain' \in FilterJobs
      /\ builder' \in [Runs -> {"scan", "applied", "published", "finished", "raised", "done"}]
      /\ Runs' = Runs /\ Rebased' = Rebased /\ LastRun' = LastRun /\ FrameType' = FrameType
    BY <1>0, TopFacts DEF CloseTypeOK
<1>3. \A r \in Runs : RunInv(r) /\ ViewInv(r) /\ SourceInv(r)
    BY DEF CloseInv
<1>4. leased' = leased
    BY DEF CloseUniverse, running
<1>5. PICK n \in 0 .. LastRun :
        n = (IF top.id = Rebased THEN 0 ELSE top.id)
    <2>1. LastRun \in Nat /\ Rebased = LastRun + 1
        BY <1>2, ChainFacts
    <2>2. top.id \in 0 .. Rebased
        BY DEF FrameType
    <2> QED BY <2>1, <2>2
<1>6. PICK next \in FrameType :
        /\ next = Leaving(Moved(top, "selections"), n)
        /\ next.kind = "view" /\ next.id = top.id /\ next.at = "selections" /\ next.left = n
    <2>1. PICK moved \in FrameType :
            /\ moved = Moved(top, "selections")
            /\ moved.kind = "view" /\ moved.id = top.id /\ moved.at = "selections"
        BY <1>1, <1>2, FrameFacts
    <2> QED BY <1>2, <2>1, FrameFacts
<1>7. /\ closed' = closed \cup {<<"view", top.id>>} /\ Replace(t, <<next>>)
      /\ source' = (source /\ top.id = Rebased)
    BY <1>1, <1>5, <1>6 DEF CloseUniverse
<1>8. /\ stack' \in [Threads -> Seq(FrameType)] /\ top \in Frames
      /\ \A f \in Frames : f = top \/ f \in Frames'
      /\ next \in Frames' /\ \A f \in Frames' : f \in Frames \/ f = next
    BY <1>0, <1>1, <1>2, <1>7, GoesOn
<1>9. CloseTypeOK'
    BY <1>0, <1>1, <1>2, <1>3, <1>4, <1>5, <1>6, <1>7, <1>8 DEF CloseTypeOK
<1>10. ASSUME NEW r \in Runs PROVE RunInv(r)'
    BY <1>0, <1>1, <1>2, <1>3, <1>4, <1>5, <1>6, <1>7, <1>8 DEF RunInv, EndsRun
<1>11. ASSUME NEW r \in Runs PROVE ViewInv(r)'
    BY <1>0, <1>1, <1>2, <1>3, <1>4, <1>5, <1>6, <1>7, <1>8 DEF ViewInv, EndsView, EndsRun
<1>12. ASSUME NEW r \in Runs PROVE SourceInv(r)'
    <2>1. ASSUME NEW q \in 1 .. r, NEW f \in Frames, ClosesRun(f, r, q)
          PROVE  <<"run", q>> \in closed' \/ \E g \in Frames' : ClosesRun(g, r, q)
        BY <2>1, <1>0, <1>1, <1>2, <1>3, <1>4, <1>5, <1>6, <1>7, <1>8 DEF ClosesRun
    <2>2. CASE <<"view", r>> \in closed
        BY <1>0, <1>1, <1>2, <1>3, <1>4, <1>5, <1>6, <1>7, <1>8, <2>1, <2>2, SourceStays
    <2>3. CASE <<"view", r>> \notin closed /\ r # top.id
        BY <1>0, <1>1, <1>2, <1>3, <1>4, <1>5, <1>6, <1>7, <1>8, <2>3 DEF SourceInv
    <2>4. CASE <<"view", r>> \notin closed /\ r = top.id
        <3>1. r # Rebased /\ n = r /\ ~source'
            BY <1>2, <1>5, <1>7, <2>4, ChainFacts
        <3>2. ASSUME NEW q \in 1 .. r PROVE ClosesRun(next, r, q)
            BY <1>6, <2>4, <3>1, <3>2 DEF ClosesRun
        <3> QED BY <1>8, <3>1, <3>2 DEF SourceInv, ClosesRun
    <2> QED BY <2>2, <2>3, <2>4
<1> QED BY <1>2, <1>9, <1>10, <1>11, <1>12 DEF CloseInv

LEMMA CloseSelectionsStep ==
    ASSUME CloseInv, NEW t \in Threads, CloseSelections(t)
    PROVE  CloseInv'
<1>0. /\ UNCHANGED <<chain, builder>> /\ stack[t] # <<>>
      /\ Top(t).kind = "view" /\ Top(t).at = "selections"
    BY DEF CloseSelections, At, running
<1>1. PICK top \in FrameType :
        /\ top = Top(t) /\ top.kind = "view" /\ top.at = "selections"
        /\ (top.kind = "run" => top.id \in Runs) /\ Key(t) = <<top.kind, top.id>>
    BY <1>0, TopFacts
<1>2. /\ CloseTypeOK /\ chain \in FilterJobs /\ chain' \in FilterJobs
      /\ builder' \in [Runs -> {"scan", "applied", "published", "finished", "raised", "done"}]
      /\ Runs' = Runs /\ Rebased' = Rebased /\ LastRun' = LastRun /\ FrameType' = FrameType
    BY <1>0, TopFacts DEF CloseTypeOK
<1>3. \A r \in Runs : RunInv(r) /\ ViewInv(r) /\ SourceInv(r)
    BY DEF CloseInv
<1>4. leased' = leased /\ source' = source /\ closed' = closed
    BY DEF CloseSelections, running
<1>5. LastRun \in Nat /\ Runs = 1 .. LastRun /\ Rebased = LastRun + 1 /\ top.left \in 0 .. LastRun
    BY <1>2, ChainFacts DEF FrameType
<1>6. CASE top.left > 0
    <2>1. PICK n \in 0 .. LastRun : n = top.left - 1 /\ top.left \in Runs /\ top.left \in 0 .. Rebased
        BY <1>5, <1>6
    <2>2. PICK next \in FrameType :
            /\ next = Leaving(top, n) /\ next.kind = "view" /\ next.id = top.id
            /\ next.at = "selections" /\ next.left = n
        BY <1>1, <1>2, FrameFacts
    <2>3. PICK new \in FrameType :
            /\ new = Frame("run", top.left)
            /\ new.kind = "run" /\ new.id = top.left /\ new.at = "claim"
        BY <1>2, <2>1, FrameFacts
    <2>4. Replace(t, <<new, next>>)
        BY <1>1, <1>6, <2>1, <2>2, <2>3 DEF CloseSelections
    <2>5. /\ stack' \in [Threads -> Seq(FrameType)] /\ top \in Frames
          /\ \A f \in Frames : f = top \/ f \in Frames'
          /\ new \in Frames' /\ next \in Frames'
          /\ \A f \in Frames' : f \in Frames \/ f = new \/ f = next
        BY <1>0, <1>1, <1>2, <2>4, Calls
    <2>6. CloseTypeOK'
        BY <1>0, <1>1, <1>2, <1>3, <1>4, <1>5, <2>1, <2>2, <2>3, <2>5 DEF CloseTypeOK
    <2>7. ASSUME NEW r \in Runs PROVE RunInv(r)'
        <3>1. builder' = builder
            BY <1>0
        <3>2. \A f \in Frames : EndsRun(f, r) => f \in Frames'
            BY <1>1, <2>5 DEF EndsRun
        <3>3. \A f \in Frames' : f.kind = "run" /\ f.at = "lease" => f \in Frames
            BY <2>2, <2>3, <2>5
        <3>4. <<"run", r>> \in closed
                => (builder[r] = "done" /\ r \notin leased) \/ \E f \in Frames' : EndsRun(f, r)
            BY <1>3, <3>2 DEF RunInv
        <3>5. \A f \in Frames' : f.kind = "run" /\ f.id = r /\ f.at = "lease" => builder[r] = "done"
            BY <1>3, <3>3 DEF RunInv
        <3>6. \A f : EndsRun(f, r)' = EndsRun(f, r)
            BY DEF EndsRun
        <3> QED BY <1>4, <3>1, <3>4, <3>5, <3>6 DEF RunInv
    <2>8. ASSUME NEW r \in Runs PROVE ViewInv(r)'
        BY <1>0, <1>1, <1>2, <1>3, <1>4, <1>5, <2>1, <2>2, <2>3, <2>5 DEF ViewInv, EndsView, EndsRun
    <2>9. ASSUME NEW r \in Runs PROVE SourceInv(r)'
        <3>1. ASSUME NEW q \in 1 .. r, NEW f \in Frames, ClosesRun(f, r, q)
              PROVE  <<"run", q>> \in closed' \/ \E g \in Frames' : ClosesRun(g, r, q)
            BY <3>1, <1>0, <1>1, <1>2, <1>3, <1>4, <1>5, <2>1, <2>2, <2>3, <2>5 DEF ClosesRun
        <3>2. CASE <<"view", r>> \in closed
            BY <1>3, <1>0, <1>1, <1>2, <1>3, <1>4, <1>5, <2>1, <2>2, <2>3, <2>5, <3>1, <3>2, SourceStays
        <3>3. CASE <<"view", r>> \notin closed
            BY <1>0, <1>1, <1>2, <1>3, <1>4, <1>5, <2>1, <2>2, <2>3, <2>5, <3>3 DEF SourceInv
        <3> QED BY <3>2, <3>3
    <2> QED BY <1>2, <2>6, <2>7, <2>8, <2>9 DEF CloseInv
<1>7. CASE ~(top.left > 0)
    <2>1. \A r \in Runs : \A q \in 1 .. r : ~(q <= top.left)
        BY <1>5, <1>7
    <2>2. CASE top.id = Rebased
        <3>1. PICK next \in FrameType : next = Moved(top, "end") /\ next.kind = "view" /\ next.id = top.id /\ next.at = "end"
            BY <1>1, <1>2, FrameFacts
        <3>2. PICK new \in FrameType :
                /\ new = Frame("view", LastRun)
                /\ new.kind = "view" /\ new.id = LastRun /\ new.at = "claim"
            <4>1. LastRun \in 0 .. Rebased
                BY <1>5
            <4> QED BY <1>2, <4>1, FrameFacts
        <3>3. Replace(t, <<new, next>>)
            BY <1>1, <1>7, <2>2, <3>1, <3>2 DEF CloseSelections, MoveAndCall
        <3>4. /\ stack' \in [Threads -> Seq(FrameType)] /\ top \in Frames
              /\ \A f \in Frames : f = top \/ f \in Frames'
              /\ new \in Frames' /\ next \in Frames'
              /\ \A f \in Frames' : f \in Frames \/ f = new \/ f = next
            BY <1>0, <1>1, <1>2, <3>3, Calls
        <3>5. CloseTypeOK'
            BY <1>0, <1>1, <1>2, <1>3, <1>4, <2>1, <3>1, <3>2, <3>4 DEF CloseTypeOK
        <3>6. ASSUME NEW r \in Runs PROVE RunInv(r)'
            BY <1>0, <1>1, <1>2, <1>3, <1>4, <2>1, <3>1, <3>2, <3>4 DEF RunInv, EndsRun
        <3>7. ASSUME NEW r \in Runs PROVE ViewInv(r)'
            BY <1>0, <1>1, <1>2, <1>3, <1>4, <2>1, <3>1, <3>2, <3>4 DEF ViewInv, EndsView, EndsRun
        <3>8. ASSUME NEW r \in Runs PROVE SourceInv(r)'
            <4>1. ASSUME NEW q \in 1 .. r, NEW f \in Frames, ClosesRun(f, r, q)
                  PROVE  <<"run", q>> \in closed' \/ \E g \in Frames' : ClosesRun(g, r, q)
                BY <4>1, <1>0, <1>1, <1>2, <1>3, <1>4, <2>1, <3>1, <3>2, <3>4 DEF ClosesRun
            <4>2. CASE <<"view", r>> \in closed
                BY <1>3, <1>0, <1>1, <1>2, <1>3, <1>4, <2>1, <3>1, <3>2, <3>4, <4>1, <4>2, SourceStays
            <4>3. CASE <<"view", r>> \notin closed
                BY <1>0, <1>1, <1>2, <1>3, <1>4, <2>1, <3>1, <3>2, <3>4, <4>3 DEF SourceInv
            <4> QED BY <4>2, <4>3
        <3> QED BY <1>2, <3>5, <3>6, <3>7, <3>8 DEF CloseInv
    <2>3. CASE top.id # Rebased
        <3>1. Return(t)
            BY <1>1, <1>7, <2>3 DEF CloseSelections
        <3>2. /\ stack' \in [Threads -> Seq(FrameType)] /\ top \in Frames
              /\ \A f \in Frames : f = top \/ f \in Frames'
              /\ \A f \in Frames' : f \in Frames
            BY <1>0, <1>1, <1>2, <3>1, Returns
        <3>3. CloseTypeOK'
            BY <1>0, <1>1, <1>2, <1>3, <1>4, <2>1, <3>2 DEF CloseTypeOK
        <3>4. ASSUME NEW r \in Runs PROVE RunInv(r)'
            BY <1>0, <1>1, <1>2, <1>3, <1>4, <2>1, <3>2 DEF RunInv, EndsRun
        <3>5. ASSUME NEW r \in Runs PROVE ViewInv(r)'
            BY <1>0, <1>1, <1>2, <1>3, <1>4, <2>1, <3>2 DEF ViewInv, EndsView, EndsRun
        <3>6. ASSUME NEW r \in Runs PROVE SourceInv(r)'
            <4>1. ASSUME NEW q \in 1 .. r, NEW f \in Frames, ClosesRun(f, r, q)
                  PROVE  <<"run", q>> \in closed' \/ \E g \in Frames' : ClosesRun(g, r, q)
                BY <4>1, <1>0, <1>1, <1>2, <1>3, <1>4, <2>1, <3>2 DEF ClosesRun
            <4>2. CASE <<"view", r>> \in closed
                BY <1>3, <1>0, <1>1, <1>2, <1>3, <1>4, <2>1, <3>2, <4>1, <4>2, SourceStays
            <4>3. CASE <<"view", r>> \notin closed
                BY <1>0, <1>1, <1>2, <1>3, <1>4, <2>1, <3>2, <4>3 DEF SourceInv
            <4> QED BY <4>2, <4>3
        <3> QED BY <1>2, <3>3, <3>4, <3>5, <3>6 DEF CloseInv
    <2> QED BY <2>2, <2>3
<1> QED BY <1>6, <1>7

LEMMA EndsStep ==
    ASSUME CloseInv, NEW t \in Threads, Ends(t)
    PROVE  CloseInv'
<1>0. /\ UNCHANGED <<chain, builder>> /\ stack[t] # <<>>
      /\ Top(t).at = "end"
    BY DEF Ends, At, running
<1>1. PICK top \in FrameType :
        /\ top = Top(t) /\ top.at = "end"
        /\ (top.kind = "run" => top.id \in Runs) /\ Key(t) = <<top.kind, top.id>>
    BY <1>0, TopFacts
<1>2. /\ CloseTypeOK /\ chain \in FilterJobs /\ chain' \in FilterJobs
      /\ builder' \in [Runs -> {"scan", "applied", "published", "finished", "raised", "done"}]
      /\ Runs' = Runs /\ Rebased' = Rebased /\ LastRun' = LastRun /\ FrameType' = FrameType
    BY <1>0, TopFacts DEF CloseTypeOK
<1>3. \A r \in Runs : RunInv(r) /\ ViewInv(r) /\ SourceInv(r)
    BY DEF CloseInv
<1>4. leased' = leased /\ source' = source /\ closed' = closed
    BY DEF Ends, running
<1>5. Return(t)
    BY DEF Ends
<1>6. /\ stack' \in [Threads -> Seq(FrameType)] /\ top \in Frames
      /\ \A f \in Frames : f = top \/ f \in Frames'
      /\ \A f \in Frames' : f \in Frames
    BY <1>0, <1>1, <1>2, <1>5, Returns
<1>7. CloseTypeOK'
    BY <1>0, <1>1, <1>2, <1>3, <1>4, <1>6 DEF CloseTypeOK
<1>8. ASSUME NEW r \in Runs PROVE RunInv(r)'
    BY <1>0, <1>1, <1>2, <1>3, <1>4, <1>6 DEF RunInv, EndsRun
<1>9. ASSUME NEW r \in Runs PROVE ViewInv(r)'
    BY <1>0, <1>1, <1>2, <1>3, <1>4, <1>6 DEF ViewInv, EndsView, EndsRun
<1>10. ASSUME NEW r \in Runs PROVE SourceInv(r)'
    <2>1. ASSUME NEW q \in 1 .. r, NEW f \in Frames, ClosesRun(f, r, q)
          PROVE  <<"run", q>> \in closed' \/ \E g \in Frames' : ClosesRun(g, r, q)
        BY <2>1, <1>0, <1>1, <1>2, <1>3, <1>4, <1>6 DEF ClosesRun
    <2>2. CASE <<"view", r>> \in closed
        BY <1>3, <1>0, <1>1, <1>2, <1>3, <1>4, <1>6, <2>1, <2>2, SourceStays
    <2>3. CASE <<"view", r>> \notin closed
        BY <1>0, <1>1, <1>2, <1>3, <1>4, <1>6, <2>3 DEF SourceInv
    <2> QED BY <2>2, <2>3
<1> QED BY <1>2, <1>7, <1>8, <1>9, <1>10 DEF CloseInv


-----------------------------------------------------------------------------
(* The other steps.                                                        *)

\* A user calls close() of a run or of a view.
LEMMA CloseCalled ==
    ASSUME CloseInv, NEW t \in Threads, CloseSomething(t)
    PROVE  CloseInv'
<1>0. CloseTypeOK /\ chain \in FilterJobs
    BY DEF CloseInv, CloseTypeOK
<1>1. LastRun \in Nat /\ Runs = 1 .. LastRun /\ Rebased = LastRun + 1
    BY <1>0, ChainFacts
<1>2. PICK kind \in {"run", "view"}, id \in 0 .. Rebased :
        CallClose(t, kind, id) /\ (kind = "run" => id \in Runs)
    BY <1>1 DEF CloseSomething, Views
<1>3. PICK new \in FrameType :
        new = Frame(kind, id) /\ new.kind = kind /\ new.id = id /\ new.at = "claim"
    BY <1>0, FrameFacts
<1>4. /\ UNCHANGED <<chain, builder, leased, source, closed>> /\ stack[t] = <<>>
      /\ stack' = [stack EXCEPT ![t] = <<new>>]
    BY <1>2, <1>3 DEF CallClose, running
<1>5. Runs' = Runs /\ Rebased' = Rebased /\ LastRun' = LastRun /\ FrameType' = FrameType
    BY <1>4 DEF Runs, Rebased, LastRun, FrameType
<1>6. PICK s \in Seq(FrameType) : s = <<new>> /\ DOMAIN s = 1 .. 1 /\ s[1] = new
    <2>1. <<new>> \in Seq(FrameType) /\ DOMAIN <<new>> = 1 .. 1 /\ <<new>>[1] = new
        OBVIOUS
    <2> QED BY <2>1
<1>7. stack' \in [Threads -> Seq(FrameType)] /\ stack'[t] = s /\ \A p \in Threads \ {t} : stack'[p] = stack[p]
    BY <1>0, <1>4, <1>6 DEF CloseTypeOK
<1>8. \A f \in Frames : f \in Frames'
    BY <1>0, <1>4, <1>5, <1>7, EmptySeq DEF Frames
<1>9. \A f \in Frames' : f \in Frames \/ f = new
    BY <1>5, <1>6, <1>7 DEF Frames
<1>10. CloseTypeOK'
    BY <1>0, <1>2, <1>3, <1>4, <1>5, <1>7, <1>9 DEF CloseTypeOK
<1>11. ASSUME NEW r \in Runs PROVE (RunInv(r) /\ ViewInv(r) /\ SourceInv(r))'
    <2>0. RunInv(r) /\ ViewInv(r) /\ SourceInv(r)
        BY DEF CloseInv
    <2>1. RunInv(r)'
        BY <1>3, <1>4, <1>8, <1>9, <2>0 DEF RunInv, EndsRun
    <2>2. ViewInv(r)'
        BY <1>4, <1>8, <2>0 DEF ViewInv, EndsView, EndsRun
    <2>3. SourceInv(r)'
        BY <1>4, <1>8, <2>0 DEF SourceInv, ClosesRun
    <2> QED BY <2>1, <2>2, <2>3
<1> QED BY <1>5, <1>10, <1>11 DEF CloseInv

\* What a step does that calls no close(): a thread that has ended stays so, and only
\* one that has not ended leases a generation.
Aside ==
    /\ UNCHANGED <<chain, source, closed, stack>>
    /\ builder' \in [Runs -> {"scan", "applied", "published", "finished", "raised", "done"}]
    /\ \A r \in Runs : builder[r] = "done" => builder'[r] = "done"
    /\ \A r \in Runs : builder[r] = "done" /\ r \in leased' => r \in leased

LEMMA AsideStep ==
    ASSUME CloseInv, Aside
    PROVE  CloseInv'
<1>1. Runs' = Runs /\ Rebased' = Rebased /\ LastRun' = LastRun /\ FrameType' = FrameType
    BY DEF Aside, Runs, Rebased, LastRun, FrameType
<1>2. Frames' = Frames
    BY <1>1 DEF Aside, Frames
<1>3. CloseTypeOK'
    BY <1>1, <1>2 DEF Aside, CloseInv, CloseTypeOK
<1>4. ASSUME NEW r \in Runs PROVE RunInv(r)' /\ ViewInv(r)' /\ SourceInv(r)'
    <2>0. RunInv(r) /\ ViewInv(r) /\ SourceInv(r)
        BY DEF CloseInv
    <2>1. RunInv(r)'
        BY <1>2, <2>0 DEF Aside, RunInv, EndsRun
    <2>2. ViewInv(r)'
        BY <1>2, <2>0 DEF Aside, ViewInv, EndsView, EndsRun
    <2>3. SourceInv(r)'
        BY <1>2, <2>0 DEF Aside, SourceInv, ClosesRun
    <2> QED BY <2>1, <2>2, <2>3
<1> QED BY <1>1, <1>3, <1>4 DEF CloseInv

LEMMA FailAside ==
    ASSUME CloseTypeOK, NEW r \in Runs, Fail(r)
    PROVE  Aside
BY DEF Fail, Aside, CloseTypeOK

LEMMA ConflictAside ==
    ASSUME CloseTypeOK, NEW r \in Runs, NEW chunk, PublishConflicting(r, chunk),
           builder[r] \in {"scan", "applied"}
    PROVE  Aside
BY DEF PublishConflicting, Aside, CloseTypeOK, closing, reading

LEMMA BuildStep ==
    ASSUME CloseInv, NEW r \in Runs, Judge(r)
    PROVE  CloseInv'
<1>0. CloseTypeOK
    BY DEF CloseInv
<1>1. CASE Observe(r)
    <2>1. \/ \E chunk : PublishConflicting(r, chunk)
          \/ UNCHANGED <<chain, complete, failed, builder, closing, call, begun, answers>>
        BY <1>1 DEF Observe
    <2>2. builder[r] = "scan"
        BY <1>1 DEF Observe
    <2>3. Aside
        BY <1>0, <2>1, <2>2, ConflictAside DEF Aside, closing, CloseTypeOK
    <2> QED BY <2>3, AsideStep
<1>2. CASE ApplyRaises(r)
    BY <1>0, <1>2, FailAside, AsideStep DEF ApplyRaises
<1>3. CASE ApplyReturns(r)
    <2>1. Aside
        BY <1>0, <1>3 DEF ApplyReturns, Aside, CloseTypeOK
    <2> QED BY <2>1, AsideStep
<1>4. CASE PublishAll(r)
    <2>1. \/ \E chunk : PublishConflicting(r, chunk)
          \/ /\ builder' = [builder EXCEPT ![r] = "published"]
             /\ UNCHANGED <<chain, complete, failed, closing, call, begun, answers>>
        BY <1>4 DEF PublishAll
    <2>2. builder[r] = "applied"
        BY <1>4 DEF PublishAll
    <2>3. Aside
        BY <1>0, <2>1, <2>2, ConflictAside DEF Aside, closing, CloseTypeOK
    <2> QED BY <2>3, AsideStep
<1>5. CASE Finish(r)
    <2>1. \/ Fail(r)
          \/ /\ builder[r] = "published" /\ builder' = [builder EXCEPT ![r] = "finished"]
             /\ UNCHANGED <<chain, decided, failed, closing, call, begun, answers>>
        BY <1>5 DEF Finish
    <2>2. Aside
        BY <1>0, <2>1, FailAside DEF Aside, closing, CloseTypeOK
    <2> QED BY <2>2, AsideStep
<1>6. CASE ReturnLease(r)
    <2>1. Aside
        BY <1>0, <1>6 DEF ReturnLease, Aside, CloseTypeOK
    <2> QED BY <2>1, AsideStep
<1>7. CASE EndRaised(r)
    BY <1>0, <1>7, FailAside, AsideStep DEF EndRaised
<1> QED BY <1>1, <1>2, <1>3, <1>4, <1>5, <1>6, <1>7 DEF Judge

\* A read ends nothing and closes nothing.
LEMMA ReadLeavesAlone ==
    ASSUME NEW t \in Threads, Read(t) \/ ReadStep(t)
    PROVE  UNCHANGED <<chain, running, closing>>
<1>1. ASSUME NEW state, Settle(t, state) PROVE UNCHANGED <<chain, running, closing>>
    BY <1>1 DEF Settle, Answer, Goes
<1>2. CASE Read(t)
    BY <1>2 DEF Read, Begin
<1>3. CASE Look(t)
    BY <1>1, <1>3 DEF Look, Raise, Answer, Goes
<1>4. CASE Looked(t)
    BY <1>1, <1>4 DEF Looked, Raise, Answer, Goes
<1>5. CASE Again(t)
    BY <1>1, <1>5 DEF Again, Raise, Goes
<1>6. CASE WaitDecision(t)
    BY <1>1, <1>6 DEF WaitDecision, Raise, Goes, Park
<1>7. CASE WaitComplete(t)
    BY <1>1, <1>7 DEF WaitComplete, Raise, Goes, Answer, Park
<1> QED BY <1>2, <1>3, <1>4, <1>5, <1>6, <1>7 DEF ReadStep

-----------------------------------------------------------------------------
(* The theorems.                                                           *)

LEMMA InvInit ==
    ASSUME LInit
    PROVE  CloseInv
<1>1. /\ chain \in FilterJobs /\ closed = {} /\ stack = [t \in Threads |-> <<>>]
      /\ builder = [r \in Runs |-> IF chain.runs[r].ready THEN "done" ELSE "scan"]
    BY DEF LInit
<1>2. Frames = {}
    BY <1>1, EmptySeq DEF Frames
<1>3. stack \in [Threads -> Seq(FrameType)]
    <2>1. <<>> \in Seq(FrameType)
        BY EmptySeq
    <2> QED BY <1>1, <2>1
<1>4. CloseTypeOK
    BY <1>1, <1>2, <1>3 DEF CloseTypeOK
<1> QED BY <1>1, <1>2, <1>4 DEF CloseInv, RunInv, ViewInv, SourceInv

LEMMA InvNext ==
    ASSUME CloseInv, [LNext]_lvars
    PROVE  CloseInv'
<1>0. CloseTypeOK
    BY DEF CloseInv
<1>1. CASE UNCHANGED lvars
    <2>1. Aside
        BY <1>0, <1>1 DEF Aside, lvars, CloseTypeOK
    <2> QED BY <2>1, AsideStep
<1>2. ASSUME NEW r \in Runs, Judge(r) PROVE CloseInv'
    BY <1>2, BuildStep
<1>3. ASSUME NEW t \in Threads, Read(t) \/ ReadStep(t) PROVE CloseInv'
    <2>1. UNCHANGED <<chain, running, closing>>
        BY <1>3, ReadLeavesAlone
    <2>2. Aside
        BY <1>0, <2>1 DEF Aside, running, closing, CloseTypeOK
    <2> QED BY <2>2, AsideStep
<1>4. ASSUME NEW t \in Threads, CloseSomething(t) PROVE CloseInv'
    BY <1>4, CloseCalled
<1>5. ASSUME NEW t \in Threads, CloseStep(t) PROVE CloseInv'
    BY <1>5, ClaimRunStep, JoinStep, CloseLeaseStep, ClaimViewStep, CloseUniverseStep,
       CloseSelectionsStep, EndsStep DEF CloseStep
<1> QED BY <1>1, <1>2, <1>3, <1>4, <1>5 DEF LNext

\* Whatever is closed, someone sees to the rest: the run's end, its generation, its
\* view, the source and the runs below, for any chain and any threads.
THEOREM CloseSafe == LSpec => []CloseInv
<1>1. LInit => CloseInv
    BY InvInit
<1>2. CloseInv /\ [LNext]_lvars => CloseInv'
    BY InvNext
<1> QED BY <1>1, <1>2, PTL DEF LSpec

\* When every close() has returned, the runs that were closed and those below them
\* have ended and hold no generation, and the source is closed, whatever raised and
\* however many threads closed them at once.
THEOREM CloseThorough == LSpec => []CloseIsThorough
<1>1. CloseInv => CloseIsThorough
    <2> SUFFICES ASSUME CloseInv, \A t \in Threads : stack[t] = <<>>,
                        NEW r \in Runs, <<"run", r>> \in closed
                 PROVE  /\ ~source
                        /\ \A q \in 1 .. r : <<"run", q>> \in closed /\ builder[q] = "done" /\ q \notin leased
        BY DEF CloseIsThorough
    <2>1. Frames = {}
        BY EmptySeq DEF Frames
    <2>2. <<"view", r>> \in closed
        BY <2>1 DEF CloseInv, ViewInv
    <2>3. ~source /\ \A q \in 1 .. r : <<"run", q>> \in closed
        BY <2>1, <2>2 DEF CloseInv, SourceInv
    <2>4. \A q \in 1 .. r : q \in Runs
        <3>1. chain \in FilterJobs
            BY DEF CloseInv, CloseTypeOK
        <3>2. LastRun \in Nat /\ Runs = 1 .. LastRun
            BY <3>1, ChainFacts
        <3> QED BY <3>2
    <2>5. ASSUME NEW q \in 1 .. r PROVE builder[q] = "done" /\ q \notin leased
        BY <2>1, <2>3, <2>4 DEF CloseInv, RunInv
    <2> QED BY <2>3, <2>5
<1> QED BY <1>1, CloseSafe, PTL
-----------------------------------------------------------------------------
(* Reads, while runs still decide.                                         *)

Every(v) == 0 .. Len(IdsOf(v)) - 1

AllYes(v, u) == \A s \in SelectionsOf(v) : SelectionState(v, s, u) = "yes"
SomeNo(v, u) == \E s \in SelectionsOf(v) : SelectionState(v, s, u) = "no"

\* The samples before a position, all of them decided; those of them chosen.
DecidedBefore(v, n) == \A u \in 0 .. n - 1 : AllYes(v, u) \/ SomeNo(v, u)
YesBefore(v, n) == {u \in 0 .. n - 1 : AllYes(v, u)}
YesCount(v, n) == Cardinality(YesBefore(v, n))

CallType ==
    [op : {"at", "len", "has"}, view : Views, arg : Nat, u : Nat, s : Nat, found : Nat,
     unknown : Nat \cup {None}, phase : {"complete", "look", "again", "wait"}]

\* What a read has counted is what was decided, for good, of the samples it has
\* passed; of the sample it is at, the selections it has asked contain it, but for
\* those from the first on that did not know.
Passed(c) ==
    /\ c.u < Len(IdsOf(c.view))
    /\ c.op = "has" => c.u = c.arg /\ c.phase = "look"
    /\ c.op # "has" => DecidedBefore(c.view, c.u) /\ c.found = YesCount(c.view, c.u)
    /\ c.op = "at" => c.found <= c.arg

AskedYes(c) == \A q \in 1 .. c.s - 1 : SelectionState(c.view, q, c.u) = "yes"

Asking(c) ==
    /\ c.s \in Nat \ {0}
    /\ \A q \in 1 .. c.s - 1 : q \in SelectionsOf(c.view)
    /\ c.phase = "look" /\ c.unknown = None => AskedYes(c)
    /\ c.phase = "look" /\ c.unknown # None => c.unknown \in 1 .. c.s - 1
    /\ c.phase = "again" \/ (c.phase = "wait" /\ c.view = Rebased) => AskedYes(c)
    /\ c.phase = "wait" => c.s \in SelectionsOf(c.view)

CallInv(c) ==
    /\ c \in CallType
    /\ c.phase = "complete" => c.op = "len" /\ c.u = 0 /\ c.found = 0 /\ c.unknown = None /\ c.s # 0
    /\ c.phase # "complete" => Passed(c) /\ Asking(c)

AnswerInv(a) ==
    /\ a.view \in Views /\ a.arg \in Nat
    /\ \/ /\ a.op = "has" /\ a.arg \in Every(a.view)
          /\ \/ a.value = 1 /\ AllYes(a.view, a.arg)
             \/ a.value = 0 /\ SomeNo(a.view, a.arg)
       \/ /\ a.op = "len" /\ DecidedBefore(a.view, Len(IdsOf(a.view)))
          /\ a.value = YesCount(a.view, Len(IdsOf(a.view)))
       \/ /\ a.op = "at" /\ a.value = OutOfRange
          /\ DecidedBefore(a.view, Len(IdsOf(a.view)))
          /\ YesCount(a.view, Len(IdsOf(a.view))) <= a.arg
       \/ /\ a.op = "at" /\ a.value \in Every(a.view)
          /\ DecidedBefore(a.view, a.value) /\ AllYes(a.view, a.value)
          /\ YesCount(a.view, a.value) = a.arg

ReadInv ==
    /\ chain \in FilterJobs
    /\ decided = [r \in Runs |-> [k \in Positions |-> decided[r][k]]]
    /\ call \in [Threads -> CallType \cup {None}]
    /\ \A t \in Threads : call[t] # None => CallInv(call[t])
    /\ \A a \in answers : AnswerInv(a)

\* What is decided stays decided.
Kept ==
    /\ chain' = chain
    /\ decided' = [r \in Runs |-> [k \in Positions |-> decided'[r][k]]]
    /\ \A r \in Runs, k \in Positions : decided[r][k] # None => decided'[r][k] = decided[r][k]

LEMMA ChainIs ==
    ASSUME chain \in FilterJobs
    PROVE  /\ LastRun \in Nat /\ Runs = 1 .. LastRun /\ Rebased = LastRun + 1
           /\ Upstream \in Nat
           /\ \A s \in 1 .. Upstream : chain.upstream[s] \in [Positions -> States]
           /\ Len(chain.ids) \in Nat /\ chain.ids \in Seq(ToSet(chain.ids))
           /\ DOMAIN chain.ids = Positions
<1>1. LastRun \in Nat /\ Runs = 1 .. LastRun /\ Rebased = LastRun + 1
    BY ChainFacts
<1>2. JobIsChain(chain)
    BY FilterJobsAssumption
<1>3. chain.ids \in Seq(ToSet(chain.ids))
    BY <1>2 DEF JobIsChain
<1>4. Len(chain.ids) \in Nat /\ DOMAIN chain.ids = Positions
    BY <1>3, LenProperties DEF Positions
<1>5. chain.upstream \in Seq([Positions -> States])
    BY <1>2 DEF JobIsChain, Positions
<1>6. /\ Len(chain.upstream) \in Nat
      /\ chain.upstream \in [1 .. Len(chain.upstream) -> [Positions -> States]]
    BY <1>5, LenProperties
<1> QED BY <1>1, <1>3, <1>4, <1>6 DEF Upstream

\* Where the samples of a view are in the universe of the runs.
LEMMA ViewIs ==
    ASSUME chain \in FilterJobs, NEW v \in Views
    PROVE  /\ \E n \in Nat : SelectionsOf(v) = 1 .. n
           /\ Len(IdsOf(v)) \in Nat /\ (IdsOf(v) # <<>> => Len(IdsOf(v)) > 0) /\ Len(<<>>) = 0
           /\ \A u \in Every(v) : SourcePosition(v, u) \in Positions
           /\ \A s \in SelectionsOf(v) : s > Upstream => RunOf(s) \in Runs
<1>1. /\ LastRun \in Nat /\ Runs = 1 .. LastRun /\ Rebased = LastRun + 1 /\ Upstream \in Nat
      /\ Len(chain.ids) \in Nat /\ chain.ids \in Seq(ToSet(chain.ids))
      /\ DOMAIN chain.ids = Positions
    BY ChainIs
<1>2. Len(<<>>) = 0
    BY EmptySeq
<1>3. CASE v # Rebased
    <2>1. v \in Runs
        BY <1>3 DEF Views
    <2>2. SelectionsOf(v) = 1 .. Upstream + v /\ IdsOf(v) = chain.ids
        BY <1>3 DEF SelectionsOf, IdsOf
    <2>3. \A s \in SelectionsOf(v) : s > Upstream => RunOf(s) \in Runs
        BY <1>1, <2>1, <2>2 DEF RunOf
    <2>4. \A u \in Every(v) : SourcePosition(v, u) \in Positions
        BY <1>1, <1>3, <2>2 DEF Every, SourcePosition, Positions
    <2>5. IdsOf(v) # <<>> => Len(IdsOf(v)) > 0
        BY <1>1, <2>2, EmptySeq, LenProperties
    <2> QED BY <1>1, <1>2, <2>1, <2>2, <2>3, <2>4, <2>5
<1>4. CASE v = Rebased
    <2>1. chain.target # None
        BY <1>1, <1>4 DEF Views
    <2>2. /\ chain.target \in Seq(ToSet(chain.ids))
          /\ Lineage(chain.ids, chain.target, FALSE) # None
        BY <2>1, FilterJobsAssumption DEF JobIsChain
    <2>3. /\ Len(chain.target) \in Nat /\ DOMAIN chain.target = 1 .. Len(chain.target)
          /\ (chain.target # <<>> => Len(chain.target) > 0)
        BY <2>2, EmptySeq, LenProperties
    <2>4. /\ ToSet(chain.target) \subseteq ToSet(chain.ids)
          /\ Lineage(chain.ids, chain.target, FALSE) =
                [k \in DOMAIN chain.target |->
                    CHOOSE p \in DOMAIN chain.ids : chain.ids[p] = chain.target[k]]
        BY <2>2 DEF Lineage
    <2>5. SelectionsOf(v) = 1 .. Upstream + LastRun /\ IdsOf(v) = chain.target
        BY <1>4 DEF SelectionsOf, IdsOf
    <2>6. \A s \in SelectionsOf(v) : s > Upstream => RunOf(s) \in Runs
        BY <1>1, <2>5 DEF RunOf
    <2>7. ASSUME NEW u \in Every(v) PROVE SourcePosition(v, u) \in Positions
        <3>1. u + 1 \in DOMAIN chain.target
            BY <2>3, <2>5 DEF Every
        <3>2. \E p \in DOMAIN chain.ids : chain.ids[p] = chain.target[u + 1]
            BY <2>4, <3>1 DEF ToSet
        <3>3. Lineage(chain.ids, chain.target, FALSE)[u + 1] =
                CHOOSE p \in DOMAIN chain.ids : chain.ids[p] = chain.target[u + 1]
            BY <2>4, <3>1
        <3>4. Lineage(chain.ids, chain.target, FALSE)[u + 1] \in DOMAIN chain.ids
            BY <3>2, <3>3
        <3> QED BY <1>1, <1>4, <3>4 DEF SourcePosition
    <2> QED BY <1>1, <1>2, <2>3, <2>5, <2>6, <2>7
<1> QED BY <1>3, <1>4

LEMMA StateIs ==
    ASSUME chain \in FilterJobs, NEW v \in Views, NEW u \in Every(v), NEW s \in SelectionsOf(v)
    PROVE  SelectionState(v, s, u) \in States
<1>1. SourcePosition(v, u) \in Positions
    BY ViewIs
<1>2. CASE s <= Upstream
    <2>1. \E n \in Nat : SelectionsOf(v) = 1 .. n
        BY ViewIs
    <2>2. s \in 1 .. Upstream
        BY <1>2, <2>1, ChainIs
    <2> QED BY <1>1, <1>2, <2>2, ChainIs DEF SelectionState
<1>3. CASE ~(s <= Upstream)
    BY <1>3 DEF SelectionState, StateOf, States
<1> QED BY <1>2, <1>3

LEMMA StateStays ==
    ASSUME chain \in FilterJobs, Kept, NEW v \in Views, NEW u \in Every(v),
           NEW s \in SelectionsOf(v), SelectionState(v, s, u) # "unknown"
    PROVE  SelectionState(v, s, u)' = SelectionState(v, s, u)
<1>1. SourcePosition(v, u) \in Positions
    BY ViewIs
<1>2. Upstream' = Upstream /\ SourcePosition(v, u)' = SourcePosition(v, u) /\ RunOf(s)' = RunOf(s)
    BY DEF Kept, Upstream, SourcePosition, RunOf, Rebased, LastRun
<1>3. CASE s <= Upstream
    BY <1>2, <1>3 DEF Kept, SelectionState
<1>4. CASE ~(s <= Upstream)
    <2>1. RunOf(s) \in Runs
        <3>1. \E n \in Nat : SelectionsOf(v) = 1 .. n
            BY ViewIs
        <3>2. s > Upstream
            BY <1>4, <3>1, ChainIs
        <3> QED BY <3>2, ViewIs
    <2>2. decided[RunOf(s)][SourcePosition(v, u)] # None
        BY <1>4 DEF SelectionState, StateOf
    <2>3. decided'[RunOf(s)][SourcePosition(v, u)] = decided[RunOf(s)][SourcePosition(v, u)]
        BY <1>1, <2>1, <2>2 DEF Kept
    <2> QED BY <1>2, <1>4, <2>3 DEF Kept, SelectionState
<1> QED BY <1>3, <1>4

\* Counting the samples that are chosen, one by one.
LEMMA Counting ==
    ASSUME NEW v, NEW n \in Nat
    PROVE  /\ IsFiniteSet(YesBefore(v, n)) /\ YesCount(v, n) \in Nat /\ YesCount(v, 0) = 0
           /\ AllYes(v, n) => YesCount(v, n + 1) = YesCount(v, n) + 1
           /\ ~AllYes(v, n) => YesCount(v, n + 1) = YesCount(v, n)
<1>1. IsFiniteSet(0 .. n - 1)
    BY FS_Interval
<1>2. IsFiniteSet(YesBefore(v, n))
    BY <1>1, FS_Subset DEF YesBefore
<1>3. YesCount(v, n) \in Nat
    BY <1>2, FS_CardinalityType DEF YesCount
<1>4. YesBefore(v, 0) = {}
    BY DEF YesBefore
<1>5. YesCount(v, 0) = 0
    BY <1>4, FS_EmptySet DEF YesCount
<1>6. ASSUME AllYes(v, n) PROVE YesCount(v, n + 1) = YesCount(v, n) + 1
    <2>1. YesBefore(v, n + 1) = YesBefore(v, n) \cup {n} /\ n \notin YesBefore(v, n)
        BY <1>6 DEF YesBefore
    <2> QED BY <1>2, <2>1, FS_AddElement DEF YesCount
<1>7. ASSUME ~AllYes(v, n) PROVE YesCount(v, n + 1) = YesCount(v, n)
    <2>1. YesBefore(v, n + 1) = YesBefore(v, n)
        BY <1>7 DEF YesBefore
    <2> QED BY <2>1 DEF YesCount
<1> QED BY <1>2, <1>3, <1>5, <1>6, <1>7

LEMMA ViewStays ==
    ASSUME Kept
    PROVE  /\ Views' = Views /\ Runs' = Runs /\ Positions' = Positions /\ Rebased' = Rebased
           /\ CallType' = CallType
           /\ \A v : IdsOf(v)' = IdsOf(v) /\ Every(v)' = Every(v) /\ SelectionsOf(v)' = SelectionsOf(v)
<1>1. LastRun' = LastRun /\ Rebased' = Rebased /\ Upstream' = Upstream
    BY DEF Kept, LastRun, Rebased, Upstream
<1>2. Views' = Views /\ Runs' = Runs /\ Positions' = Positions
    BY <1>1 DEF Kept, Views, Runs, Positions
<1>3. \A v : IdsOf(v)' = IdsOf(v) /\ SelectionsOf(v)' = SelectionsOf(v)
    BY <1>1 DEF Kept, IdsOf, SelectionsOf
<1>4. \A v : Every(v)' = Every(v)
    BY <1>3 DEF Every
<1>5. CallType' = CallType
    BY <1>2 DEF CallType
<1> QED BY <1>1, <1>2, <1>3, <1>4, <1>5

\* A sample that is decided stays decided as it is.
LEMMA SampleStays ==
    ASSUME chain \in FilterJobs, Kept, NEW v \in Views, NEW u \in Every(v)
    PROVE  /\ AllYes(v, u) => AllYes(v, u)'
           /\ SomeNo(v, u) => SomeNo(v, u)' /\ ~AllYes(v, u)'
<1>1. SelectionsOf(v)' = SelectionsOf(v)
    BY ViewStays
<1>2. ASSUME NEW s \in SelectionsOf(v), SelectionState(v, s, u) # "unknown"
      PROVE  SelectionState(v, s, u)' = SelectionState(v, s, u)
    BY <1>2, StateStays
<1>3. AllYes(v, u) => AllYes(v, u)'
    BY <1>1, <1>2 DEF AllYes
<1>4. ASSUME SomeNo(v, u) PROVE SomeNo(v, u)' /\ ~AllYes(v, u)'
    <2>1. PICK s \in SelectionsOf(v) : SelectionState(v, s, u) = "no"
        BY <1>4 DEF SomeNo
    <2>2. SelectionState(v, s, u)' = "no"
        BY <1>2, <2>1
    <2> QED BY <1>1, <2>2 DEF SomeNo, AllYes
<1> QED BY <1>3, <1>4

LEMMA CountStays ==
    ASSUME chain \in FilterJobs, Kept, NEW v \in Views, NEW n \in Nat, n <= Len(IdsOf(v)),
           DecidedBefore(v, n)
    PROVE  DecidedBefore(v, n)' /\ YesCount(v, n)' = YesCount(v, n)
<1>1. \A u \in 0 .. n - 1 : u \in Every(v)
    <2>1. Len(IdsOf(v)) \in Nat
        BY ViewIs
    <2> QED BY <2>1 DEF Every
<1>2. \A u \in 0 .. n - 1 :
        (AllYes(v, u) => AllYes(v, u)') /\ (SomeNo(v, u) => SomeNo(v, u)' /\ ~AllYes(v, u)')
    BY <1>1, SampleStays
<1>3. DecidedBefore(v, n)'
    BY <1>2 DEF DecidedBefore
<1>4. YesBefore(v, n)' = YesBefore(v, n)
    BY <1>2 DEF DecidedBefore, YesBefore
<1> QED BY <1>3, <1>4 DEF YesCount

LEMMA CallStays ==
    ASSUME chain \in FilterJobs, Kept, NEW c, CallInv(c)
    PROVE  CallInv(c)'
<1>1. c \in CallType /\ c \in CallType' /\ c.view \in Views /\ c.u \in Nat /\ c.s \in Nat
    BY ViewStays DEF CallInv, CallType
<1>2. CASE c.phase = "complete"
    BY <1>1, <1>2 DEF CallInv
<1>3. CASE c.phase # "complete"
    <2>0. Passed(c) /\ Asking(c)
        BY <1>3 DEF CallInv
    <2>1. c.u \in Every(c.view) /\ c.u <= Len(IdsOf(c.view))
        <3>1. Len(IdsOf(c.view)) \in Nat
            BY <1>1, ViewIs
        <3> QED BY <1>1, <2>0, <3>1 DEF Passed, Every
    <2>2. Rebased' = Rebased /\ IdsOf(c.view)' = IdsOf(c.view)
          /\ SelectionsOf(c.view)' = SelectionsOf(c.view)
        BY ViewStays
    <2>3. DecidedBefore(c.view, c.u) =>
            DecidedBefore(c.view, c.u)' /\ YesCount(c.view, c.u)' = YesCount(c.view, c.u)
        BY <1>1, <2>1, CountStays
    <2>4. Passed(c)'
        BY <2>0, <2>2, <2>3 DEF Passed
    <2>5. ASSUME AskedYes(c) PROVE AskedYes(c)'
        <3>1. ASSUME NEW q \in 1 .. c.s - 1 PROVE SelectionState(c.view, q, c.u)' = "yes"
            <4>1. SelectionState(c.view, q, c.u) = "yes" /\ q \in SelectionsOf(c.view)
                BY <2>0, <2>5 DEF AskedYes, Asking
            <4> QED BY <1>1, <2>1, <4>1, StateStays
        <3> QED BY <3>1 DEF AskedYes
    <2>6. Asking(c)'
        BY <2>0, <2>2, <2>5 DEF Asking
    <2> QED BY <1>1, <1>3, <2>4, <2>6 DEF CallInv
<1> QED BY <1>2, <1>3

LEMMA AnswerStays ==
    ASSUME chain \in FilterJobs, Kept, NEW a, AnswerInv(a)
    PROVE  AnswerInv(a)'
<1>0. /\ a.view \in Views /\ a.view \in Views' /\ a.arg \in Nat
      /\ IdsOf(a.view)' = IdsOf(a.view) /\ Every(a.view)' = Every(a.view)
      /\ Len(IdsOf(a.view)) \in Nat
    BY ViewStays, ViewIs DEF AnswerInv
<1>1. CASE a.op = "has" /\ a.arg \in Every(a.view) /\
           ((a.value = 1 /\ AllYes(a.view, a.arg)) \/ (a.value = 0 /\ SomeNo(a.view, a.arg)))
    <2>1. /\ AllYes(a.view, a.arg) => AllYes(a.view, a.arg)'
          /\ SomeNo(a.view, a.arg) => SomeNo(a.view, a.arg)'
        BY <1>0, <1>1, SampleStays
    <2> QED BY <1>0, <1>1, <2>1 DEF AnswerInv
<1>2. CASE a.op \in {"len", "at"} /\ DecidedBefore(a.view, Len(IdsOf(a.view)))
    <2>1. /\ DecidedBefore(a.view, Len(IdsOf(a.view)))'
          /\ YesCount(a.view, Len(IdsOf(a.view)))' = YesCount(a.view, Len(IdsOf(a.view)))
        <3>1. PICK n \in Nat : n = Len(IdsOf(a.view))
            BY <1>0
        <3>2. DecidedBefore(a.view, n)' /\ YesCount(a.view, n)' = YesCount(a.view, n)
            BY <1>0, <1>2, <3>1, CountStays
        <3> QED BY <1>0, <3>1, <3>2
    <2>2. CASE a.op = "len" \/ a.value = OutOfRange
        BY <1>0, <1>2, <2>1, <2>2 DEF AnswerInv, OutOfRange, Every
    <2>3. CASE ~(a.op = "len" \/ a.value = OutOfRange)
        <3>1. /\ a.op = "at" /\ a.value \in Every(a.view)
              /\ DecidedBefore(a.view, a.value) /\ AllYes(a.view, a.value)
              /\ YesCount(a.view, a.value) = a.arg
            BY <1>2, <2>3 DEF AnswerInv
        <3>2. a.value \in Nat /\ a.value <= Len(IdsOf(a.view))
            BY <1>0, <3>1 DEF Every
        <3>3. DecidedBefore(a.view, a.value)' /\ YesCount(a.view, a.value)' = YesCount(a.view, a.value)
            BY <1>0, <3>1, <3>2, CountStays
        <3>4. AllYes(a.view, a.value)'
            BY <1>0, <3>1, SampleStays
        <3> QED BY <1>0, <3>1, <3>3, <3>4 DEF AnswerInv
    <2> QED BY <2>2, <2>3
<1>3. CASE /\ a.op = "at" /\ a.value \in Every(a.view)
           /\ DecidedBefore(a.view, a.value) /\ AllYes(a.view, a.value)
           /\ YesCount(a.view, a.value) = a.arg
    <2>2. a.value \in Nat /\ a.value <= Len(IdsOf(a.view))
        BY <1>0, <1>3 DEF Every
    <2>3. DecidedBefore(a.view, a.value)' /\ YesCount(a.view, a.value)' = YesCount(a.view, a.value)
        BY <1>0, <1>3, <2>2, CountStays
    <2>4. AllYes(a.view, a.value)'
        BY <1>0, <1>3, SampleStays
    <2> QED BY <1>0, <1>3, <2>3, <2>4 DEF AnswerInv
<1> QED BY <1>1, <1>2, <1>3 DEF AnswerInv

-----------------------------------------------------------------------------
(* The steps of a read.                                                    *)

LEMMA ReadingStays ==
    ASSUME ReadInv, Kept, call' = call, answers' = answers
    PROVE  ReadInv'
<1>1. chain \in FilterJobs
    BY DEF ReadInv
<1>2. chain' \in FilterJobs /\ CallType' = CallType /\ Runs' = Runs /\ Positions' = Positions
    BY <1>1, ViewStays DEF Kept
<1>3. (\A t \in Threads : call[t] # None => CallInv(call[t]))'
    <2>1. ASSUME NEW t \in Threads, NEW c, c = call'[t], c # None PROVE CallInv(c)'
        <3>1. CallInv(c)
            BY <2>1 DEF ReadInv
        <3> QED BY <1>1, <3>1, CallStays
    <2> QED BY <2>1
<1>4. \A a \in answers' : AnswerInv(a)'
    BY <1>1, AnswerStays DEF ReadInv
<1>5. decided' = [r \in Runs' |-> [k \in Positions' |-> decided'[r][k]]]
    BY <1>2 DEF Kept
<1>6. call' \in [Threads -> CallType' \cup {None}]
    BY <1>2 DEF ReadInv
<1> QED BY <1>2, <1>3, <1>4, <1>5, <1>6 DEF ReadInv

LEMMA Unmoved ==
    ASSUME ReadInv, chain' = chain, decided' = decided
    PROVE  Kept
BY DEF ReadInv, Kept

LEMMA CallMoves ==
    ASSUME ReadInv, NEW t \in Threads, NEW changed, CallInv(changed),
           UNCHANGED <<chain, running>>, answers' = answers, call' = [call EXCEPT ![t] = changed]
    PROVE  ReadInv'
<1>1. chain' = chain /\ decided' = decided /\ answers' = answers
      /\ call' = [call EXCEPT ![t] = changed]
    BY DEF running
<1>2. chain \in FilterJobs /\ Kept
    BY <1>1, Unmoved DEF ReadInv
<1>3. chain' \in FilterJobs /\ CallType' = CallType /\ Runs' = Runs /\ Positions' = Positions
    BY <1>1, <1>2, ViewStays
<1>4. call' \in [Threads -> CallType' \cup {None}]
    BY <1>1, <1>3 DEF ReadInv, CallInv
<1>5. (\A p \in Threads : call[p] # None => CallInv(call[p]))'
    <2>1. ASSUME NEW p \in Threads, NEW c, c = call'[p], c # None PROVE CallInv(c)'
        <3>1. CallInv(c)
            BY <1>1, <2>1 DEF ReadInv
        <3> QED BY <1>2, <3>1, CallStays
    <2> QED BY <2>1
<1>6. \A a \in answers' : AnswerInv(a)'
    BY <1>1, <1>2, AnswerStays DEF ReadInv
<1>7. decided' = [r \in Runs' |-> [k \in Positions' |-> decided'[r][k]]]
    BY <1>2, <1>3 DEF Kept
<1> QED BY <1>3, <1>4, <1>5, <1>6, <1>7 DEF ReadInv

LEMMA GoesStep ==
    ASSUME ReadInv, NEW t \in Threads, NEW changed, CallInv(changed), Goes(t, changed)
    PROVE  ReadInv'
<1>1. /\ UNCHANGED <<chain, running>> /\ answers' = answers
      /\ call' = [call EXCEPT ![t] = changed]
    BY DEF Goes
<1> QED BY <1>1, CallMoves

LEMMA EndStep ==
    ASSUME ReadInv, NEW t \in Threads, UNCHANGED <<chain, running>>,
           call' = [call EXCEPT ![t] = None], \A a \in answers' : AnswerInv(a)
    PROVE  ReadInv'
<1>1. chain' = chain /\ decided' = decided
    BY DEF running
<1>2. chain \in FilterJobs /\ Kept
    BY <1>1, Unmoved DEF ReadInv
<1>3. chain' \in FilterJobs /\ CallType' = CallType /\ Runs' = Runs /\ Positions' = Positions
    BY <1>1, <1>2, ViewStays
<1>4. call' \in [Threads -> CallType' \cup {None}]
    BY <1>3 DEF ReadInv
<1>5. (\A p \in Threads : call[p] # None => CallInv(call[p]))'
    <2>1. ASSUME NEW p \in Threads, NEW c, c = call'[p], c # None PROVE CallInv(c)'
        <3>1. CallInv(c)
            BY <1>1, <2>1 DEF ReadInv
        <3> QED BY <1>2, <3>1, CallStays
    <2> QED BY <2>1
<1>6. \A a \in answers' : AnswerInv(a)'
    BY <1>2, AnswerStays
<1>7. decided' = [r \in Runs' |-> [k \in Positions' |-> decided'[r][k]]]
    BY <1>2, <1>3 DEF Kept
<1> QED BY <1>3, <1>4, <1>5, <1>6, <1>7 DEF ReadInv

LEMMA RaiseStep ==
    ASSUME ReadInv, NEW t \in Threads, Raise(t)
    PROVE  ReadInv'
<1>1. UNCHANGED <<chain, running>> /\ call' = [call EXCEPT ![t] = None] /\ answers' = answers
    BY DEF Raise
<1> QED BY <1>1, EndStep DEF ReadInv

LEMMA AnswerStep ==
    ASSUME ReadInv, NEW t \in Threads, NEW value, Answer(t, value),
           AnswerInv([op |-> call[t].op, view |-> call[t].view, arg |-> call[t].arg,
                      value |-> value])
    PROVE  ReadInv'
<1>1. /\ UNCHANGED <<chain, running>> /\ call' = [call EXCEPT ![t] = None]
      /\ answers' = answers \cup {[op |-> call[t].op, view |-> call[t].view,
                                   arg |-> call[t].arg, value |-> value]}
    BY DEF Answer
<1>2. \A a \in answers' : AnswerInv(a)
    BY <1>1 DEF ReadInv
<1> QED BY <1>1, <1>2, EndStep

\* What a read in progress knows.
LEMMA CallIs ==
    ASSUME ReadInv, NEW t \in Threads, call[t] # None
    PROVE  /\ chain \in FilterJobs /\ CallInv(call[t]) /\ call[t] \in CallType
           /\ call[t].view \in Views /\ call[t].arg \in Nat /\ call[t].u \in Nat
           /\ call[t].s \in Nat /\ call[t].found \in Nat
           /\ call[t].op \in {"at", "len", "has"}
           /\ call[t].unknown \in Nat \cup {None}
           /\ Len(IdsOf(call[t].view)) \in Nat
           /\ \E n \in Nat : SelectionsOf(call[t].view) = 1 .. n
           /\ call[t].phase # "complete" => call[t].u \in Every(call[t].view)
<1>1. chain \in FilterJobs /\ CallInv(call[t]) /\ call[t] \in CallType
    BY DEF ReadInv, CallInv
<1>2. /\ call[t].view \in Views /\ call[t].arg \in Nat /\ call[t].u \in Nat
      /\ call[t].s \in Nat /\ call[t].found \in Nat /\ call[t].op \in {"at", "len", "has"}
      /\ call[t].unknown \in Nat \cup {None}
    BY <1>1 DEF CallType
<1>3. /\ Len(IdsOf(call[t].view)) \in Nat
      /\ \E n \in Nat : SelectionsOf(call[t].view) = 1 .. n
    BY <1>1, <1>2, ViewIs
<1>4. call[t].phase # "complete" => call[t].u \in Every(call[t].view)
    BY <1>1, <1>2, <1>3 DEF CallInv, Passed, Every
<1> QED BY <1>1, <1>2, <1>3, <1>4

\* The state of the sample that the read is at has been found out.
LEMMA SettleStep ==
    ASSUME ReadInv, NEW t \in Threads, call[t] # None, call[t].phase # "complete",
           call[t].op # "has", NEW state \in {"yes", "no"}, Settle(t, state),
           state = "yes" => AllYes(call[t].view, call[t].u),
           state = "no" => SomeNo(call[t].view, call[t].u)
    PROVE  ReadInv'
<1>0. PICK c, n, found :
        /\ c = call[t] /\ n = Len(IdsOf(c.view))
        /\ found = c.found + (IF state = "yes" THEN 1 ELSE 0)
    OBVIOUS
<1>1. /\ chain \in FilterJobs /\ CallInv(c) /\ c \in CallType
      /\ c.view \in Views /\ c.arg \in Nat /\ c.u \in Nat /\ c.found \in Nat /\ c.s \in Nat
      /\ c.op \in {"at", "len"} /\ n \in Nat /\ c.u \in Every(c.view) /\ c.u < n
      /\ \E m \in Nat : SelectionsOf(c.view) = 1 .. m
    BY <1>0, CallIs DEF CallInv, Passed
<1>2. Passed(c) /\ Asking(c)
    BY <1>0, <1>1 DEF CallInv
<1>3. DecidedBefore(c.view, c.u) /\ c.found = YesCount(c.view, c.u)
      /\ (c.op = "at" => c.found <= c.arg)
    BY <1>1, <1>2 DEF Passed
<1>4. ~AllYes(c.view, c.u) \/ ~SomeNo(c.view, c.u)
    BY <1>0 DEF AllYes, SomeNo
<1>5. YesCount(c.view, c.u + 1) = found /\ found \in Nat
    BY <1>0, <1>1, <1>3, <1>4, Counting
<1>6. DecidedBefore(c.view, c.u + 1)
    BY <1>0, <1>1, <1>3 DEF DecidedBefore
<1>7. CASE c.op = "at" /\ state = "yes" /\ c.found = c.arg
    <2>1. Answer(t, c.u)
        BY <1>0, <1>7 DEF Settle
    <2>2. PICK a : a = [op |-> c.op, view |-> c.view, arg |-> c.arg, value |-> c.u]
        OBVIOUS
    <2>3. a.op = "at" /\ a.view = c.view /\ a.arg = c.arg /\ a.value = c.u
        BY <1>7, <2>2
    <2>4. AnswerInv(a)
        BY <1>0, <1>1, <1>3, <1>7, <2>3 DEF AnswerInv
    <2> QED BY <2>1, <2>2, <2>4, <1>0, AnswerStep
<1>8. CASE ~(c.op = "at" /\ state = "yes" /\ c.found = c.arg) /\ c.u + 1 = n
    <2>1. PICK value : value = (IF c.op = "len" THEN found ELSE OutOfRange)
        OBVIOUS
    <2>2. Answer(t, value)
        BY <1>0, <1>8, <2>1 DEF Settle
    <2>3. PICK a : a = [op |-> c.op, view |-> c.view, arg |-> c.arg, value |-> value]
        OBVIOUS
    <2>4. a.op = c.op /\ a.view = c.view /\ a.arg = c.arg /\ a.value = value
        BY <2>3
    <2>5. DecidedBefore(a.view, Len(IdsOf(a.view))) /\ YesCount(a.view, Len(IdsOf(a.view))) = found
        BY <1>0, <1>5, <1>6, <1>8, <2>4
    <2>6. ASSUME c.op = "len" PROVE AnswerInv(a)
        BY <1>1, <2>1, <2>4, <2>5, <2>6 DEF AnswerInv
    <2>7. ASSUME c.op = "at" PROVE AnswerInv(a)
        <3>1. found <= c.arg
            BY <1>0, <1>1, <1>3, <1>8, <2>7
        <3> QED BY <1>1, <2>1, <2>4, <2>5, <2>7, <3>1 DEF AnswerInv
    <2>8. AnswerInv(a)
        BY <1>1, <2>6, <2>7
    <2> QED BY <2>2, <2>3, <2>8, <1>0, AnswerStep
<1>9. CASE ~(c.op = "at" /\ state = "yes" /\ c.found = c.arg) /\ c.u + 1 # n
    <2>1. PICK d : d = [c EXCEPT !.u = @ + 1, !.s = 1, !.found = found, !.unknown = None,
                                 !.phase = "look"]
        OBVIOUS
    <2>2. Goes(t, d)
        BY <1>0, <1>9, <2>1 DEF Settle
    <2>3. /\ d \in CallType /\ d.op = c.op /\ d.view = c.view /\ d.arg = c.arg
          /\ d.u = c.u + 1 /\ d.s = 1 /\ d.found = found /\ d.unknown = None /\ d.phase = "look"
        <3>1. c.u + 1 \in Nat /\ found \in Nat /\ c \in CallType
            BY <1>1, <1>5
        <3>2. PICK next : next = c.u + 1
            OBVIOUS
        <3>3. d = [c EXCEPT !.u = next, !.s = 1, !.found = found, !.unknown = None,
                            !.phase = "look"]
            BY <2>1, <3>2
        <3> QED BY <3>1, <3>2, <3>3 DEF CallType
    <2>4. d.op = "at" => d.found <= d.arg
        BY <1>0, <1>1, <1>3, <1>9, <2>3
    <2>5. Passed(d)
        BY <1>0, <1>1, <1>5, <1>6, <1>9, <2>3, <2>4 DEF Passed
    <2>6. Asking(d)
        BY <2>3 DEF Asking, AskedYes
    <2>7. CallInv(d)
        BY <2>3, <2>5, <2>6 DEF CallInv
    <2> QED BY <2>2, <2>7, GoesStep
<1> QED BY <1>7, <1>8, <1>9

LEMMA BeginStep ==
    ASSUME ReadInv, NEW t \in Threads, Read(t)
    PROVE  ReadInv'
<1>1. PICK v \in Views :
        \/ "at" \in chain.ops /\ \E k \in 0 .. Len(IdsOf(v)) - 1 : Begin(t, "at", v, k)
        \/ "len" \in chain.ops /\ Begin(t, "len", v, 0)
        \/ "has" \in chain.ops /\ \E u \in 0 .. Len(IdsOf(v)) - 1 : Begin(t, "has", v, u)
    BY DEF Read
<1>2. PICK op \in {"at", "len", "has"}, arg \in Nat :
        Begin(t, op, v, arg) /\ (op # "len" => arg \in 0 .. Len(IdsOf(v)) - 1)
    BY <1>1
<1>3. PICK c : c = [op |-> op, view |-> v, arg |-> arg, u |-> IF op = "has" THEN arg ELSE 0,
                    s |-> 1, found |-> 0, unknown |-> None,
                    phase |-> IF op = "len" THEN "complete" ELSE "look"]
    OBVIOUS
<1>4. /\ UNCHANGED <<chain, running>> /\ answers' = answers
      /\ call' = [call EXCEPT ![t] = c]
    BY <1>2, <1>3 DEF Begin
<1>5. /\ c \in CallType /\ c.op = op /\ c.view = v /\ c.arg = arg
      /\ c.u = (IF op = "has" THEN arg ELSE 0) /\ c.s = 1 /\ c.found = 0 /\ c.unknown = None
      /\ c.phase = (IF op = "len" THEN "complete" ELSE "look")
    BY <1>3 DEF CallType
<1>6. Len(IdsOf(v)) \in Nat
    BY ViewIs DEF ReadInv
<1>7. CallInv(c)
    <2>1. CASE op = "len"
        BY <1>5, <2>1 DEF CallInv
    <2>2. CASE op # "len"
        <3>1. DecidedBefore(v, 0) /\ YesCount(v, 0) = 0
            BY Counting DEF DecidedBefore
        <3>2. Passed(c)
            BY <1>2, <1>5, <1>6, <2>2, <3>1 DEF Passed
        <3>3. Asking(c)
            BY <1>5, <2>2 DEF Asking, AskedYes
        <3> QED BY <1>5, <2>2, <3>2, <3>3 DEF CallInv
    <2> QED BY <2>1, <2>2
<1> QED BY <1>4, <1>7, CallMoves

\* What is asked of a selection.
LEMMA AskedIs ==
    ASSUME ReadInv, NEW t \in Threads, call[t] # None, call[t].phase # "complete",
           MoreSelections(t)
    PROVE  Selected(t) \in States
           /\ Selected(t) = SelectionState(call[t].view, call[t].s, call[t].u)
           /\ call[t].s \in SelectionsOf(call[t].view)
<1>1. call[t].s \in SelectionsOf(call[t].view)
    BY DEF MoreSelections
<1>2. chain \in FilterJobs /\ call[t].view \in Views /\ call[t].u \in Every(call[t].view)
    BY CallIs
<1> QED BY <1>1, <1>2, StateIs DEF Selected

\* When a selection says no, no sample is chosen, and when all have been asked and
\* none said anything but yes, it is.
LEMMA NoIsFinal ==
    ASSUME ReadInv, NEW t \in Threads, MoreSelections(t), Selected(t) = "no"
    PROVE  SomeNo(call[t].view, call[t].u)
BY DEF MoreSelections, Selected, SomeNo

LEMMA YesIsFinal ==
    ASSUME ReadInv, NEW t \in Threads, call[t] # None, Asking(call[t]), AskedYes(call[t]),
           ~MoreSelections(t)
    PROVE  AllYes(call[t].view, call[t].u)
<1>1. PICK n \in Nat : SelectionsOf(call[t].view) = 1 .. n
    BY CallIs
<1>2. call[t].s \in Nat \ {0} /\ call[t].s \notin 1 .. n
    BY <1>1 DEF Asking, MoreSelections
<1>3. \A q \in 1 .. n : q \in 1 .. call[t].s - 1
    BY <1>2
<1> QED BY <1>1, <1>3 DEF AskedYes, AllYes

LEMMA LookStep ==
    ASSUME ReadInv, NEW t \in Threads, Look(t)
    PROVE  ReadInv'
<1>0. PICK c : c = call[t]
    OBVIOUS
<1>1. call[t] # None /\ c.phase = "look" /\ MoreSelections(t)
    BY <1>0 DEF Look, In
<1>2. /\ chain \in FilterJobs /\ CallInv(c) /\ c \in CallType
      /\ c.view \in Views /\ c.arg \in Nat /\ c.u \in Nat /\ c.s \in Nat
      /\ c.op \in {"at", "len", "has"} /\ c.unknown \in Nat \cup {None}
      /\ \E m \in Nat : SelectionsOf(c.view) = 1 .. m
      /\ c.u \in Every(c.view)
    BY <1>0, <1>1, CallIs
<1>3. Passed(c) /\ Asking(c)
    BY <1>1, <1>2 DEF CallInv
<1>4. /\ Selected(t) \in States /\ Selected(t) = SelectionState(c.view, c.s, c.u)
      /\ c.s \in SelectionsOf(c.view)
    BY <1>0, <1>1, AskedIs
<1>5. CASE Broken(t)
    <2>1. Raise(t)
        BY <1>0, <1>5 DEF Look
    <2> QED BY <2>1, RaiseStep
<1>6. CASE ~Broken(t) /\ Selected(t) = "no"
    <2>1. SomeNo(c.view, c.u)
        BY <1>0, <1>1, <1>6, NoIsFinal
    <2>2. CASE c.op = "has"
        <3>1. Answer(t, 0)
            BY <1>0, <1>6, <2>2 DEF Look
        <3>2. PICK a : a = [op |-> c.op, view |-> c.view, arg |-> c.arg, value |-> 0]
            OBVIOUS
        <3>3. a.op = "has" /\ a.view = c.view /\ a.arg = c.arg /\ a.value = 0
            BY <2>2, <3>2
        <3>4. c.u = c.arg
            BY <1>3, <2>2 DEF Passed
        <3>5. AnswerInv(a)
            BY <1>2, <2>1, <3>3, <3>4 DEF AnswerInv
        <3> QED BY <1>0, <3>1, <3>2, <3>5, AnswerStep
    <2>3. CASE c.op # "has"
        <3>1. Settle(t, "no")
            BY <1>0, <1>6, <2>3 DEF Look
        <3> QED BY <1>0, <1>1, <2>1, <2>3, <3>1, SettleStep
    <2> QED BY <2>2, <2>3
<1>7. CASE ~Broken(t) /\ Selected(t) # "no"
    <2>1. PICK next, unknown :
            /\ next = c.s + 1
            /\ unknown = (IF Selected(t) = "unknown" /\ c.unknown = None THEN c.s ELSE c.unknown)
        OBVIOUS
    <2>2. PICK d : d = [c EXCEPT !.s = next, !.unknown = unknown]
        OBVIOUS
    <2>3. Goes(t, d)
        BY <1>0, <1>7, <2>1, <2>2 DEF Look
    <2>4. next \in Nat \ {0} /\ unknown \in Nat \cup {None}
        BY <1>2, <2>1
    <2>5. /\ d \in CallType /\ d.op = c.op /\ d.view = c.view /\ d.arg = c.arg /\ d.u = c.u
          /\ d.found = c.found /\ d.phase = c.phase /\ d.s = next /\ d.unknown = unknown
        BY <1>2, <2>2, <2>4 DEF CallType
    <2>6. Passed(d)
        BY <1>3, <2>5 DEF Passed
    <2>7. \A q \in 1 .. next - 1 : q \in 1 .. c.s - 1 \/ q = c.s
        BY <1>2, <2>1
    <2>8. \A q \in 1 .. d.s - 1 : q \in SelectionsOf(d.view)
        BY <1>3, <1>4, <2>5, <2>7 DEF Asking
    <2>9. d.unknown = None => AskedYes(d)
        <3>1. SUFFICES ASSUME unknown = None PROVE AskedYes(d)
            BY <2>5
        <3>2. c.unknown = None /\ Selected(t) = "yes"
            BY <1>2, <1>4, <1>7, <2>1, <3>1, NoneAssumption DEF States
        <3>3. AskedYes(c)
            BY <1>1, <1>3, <3>2 DEF Asking
        <3> QED BY <1>4, <2>5, <2>7, <3>2, <3>3 DEF AskedYes
    <2>10. d.unknown # None => d.unknown \in 1 .. d.s - 1
        <3>1. c.s \in Nat \ {0} /\ (c.unknown # None => c.unknown \in 1 .. c.s - 1)
            BY <1>1, <1>3 DEF Asking
        <3> QED BY <2>1, <2>5, <3>1
    <2>11. Asking(d)
        BY <1>1, <2>4, <2>5, <2>8, <2>9, <2>10 DEF Asking
    <2>12. CallInv(d)
        BY <1>1, <2>5, <2>6, <2>11 DEF CallInv
    <2> QED BY <2>3, <2>12, GoesStep
<1> QED BY <1>5, <1>6, <1>7

\* The read goes on with the same sample.
LEMMA SameSample ==
    ASSUME NEW c, CallInv(c), c.phase # "complete", c.op # "has", NEW d, d \in CallType,
           d.op = c.op /\ d.view = c.view /\ d.arg = c.arg /\ d.u = c.u /\ d.found = c.found,
           Asking(d), d.phase # "complete"
    PROVE  CallInv(d)
<1>1. Passed(c)
    BY DEF CallInv
<1>2. Passed(d)
    BY <1>1 DEF Passed
<1> QED BY <1>2 DEF CallInv

LEMMA LookedStep ==
    ASSUME ReadInv, NEW t \in Threads, Looked(t)
    PROVE  ReadInv'
<1>0. PICK c : c = call[t]
    OBVIOUS
<1>1. call[t] # None /\ c.phase = "look" /\ ~MoreSelections(t)
    BY <1>0 DEF Looked, In
<1>2. /\ CallInv(c) /\ c \in CallType /\ c.view \in Views /\ c.arg \in Nat
      /\ c.op \in {"at", "len", "has"} /\ c.u \in Every(c.view)
      /\ \E m \in Nat : SelectionsOf(c.view) = 1 .. m
    BY <1>0, <1>1, CallIs
<1>3. Passed(c) /\ Asking(c)
    BY <1>1, <1>2 DEF CallInv
<1>4. ASSUME c.unknown = None PROVE AllYes(c.view, c.u)
    <2>1. AskedYes(c)
        BY <1>1, <1>3, <1>4 DEF Asking
    <2> QED BY <1>0, <1>1, <1>3, <2>1, YesIsFinal
<1>5. CASE Raise(t)
    BY <1>5, RaiseStep
<1>6. CASE c.op = "has" /\ c.unknown = None
    <2>1. Answer(t, 1)
        BY <1>0, <1>6 DEF Looked
    <2>2. PICK a : a = [op |-> c.op, view |-> c.view, arg |-> c.arg, value |-> 1]
        OBVIOUS
    <2>3. a.op = "has" /\ a.view = c.view /\ a.arg = c.arg /\ a.value = 1
        BY <1>6, <2>2
    <2>4. c.u = c.arg
        BY <1>3, <1>6 DEF Passed
    <2>5. AnswerInv(a)
        BY <1>2, <1>4, <1>6, <2>3, <2>4 DEF AnswerInv
    <2> QED BY <1>0, <2>1, <2>2, <2>5, AnswerStep
<1>7. CASE c.op # "has" /\ c.unknown = None
    <2>1. Settle(t, "yes")
        BY <1>0, <1>7 DEF Looked
    <2>2. AllYes(c.view, c.u)
        BY <1>4, <1>7
    <2> QED BY <1>0, <1>1, <1>7, <2>1, <2>2, SettleStep
<1>8. CASE c.op # "has" /\ c.unknown # None /\ c.view = Rebased /\ ~Raise(t)
    <2>1. PICK d : d = [c EXCEPT !.s = 1, !.phase = "again"]
        OBVIOUS
    <2>2. Goes(t, d)
        BY <1>0, <1>8, <2>1 DEF Looked
    <2>3. /\ d \in CallType /\ d.op = c.op /\ d.view = c.view /\ d.arg = c.arg /\ d.u = c.u
          /\ d.found = c.found /\ d.phase = "again" /\ d.s = 1
        BY <1>2, <2>1 DEF CallType
    <2>4. Asking(d)
        BY <2>3 DEF Asking, AskedYes
    <2>5. CallInv(d)
        BY <1>1, <1>2, <1>8, <2>3, <2>4, SameSample
    <2> QED BY <2>2, <2>5, GoesStep
<1>9. CASE c.op # "has" /\ c.unknown # None /\ c.view # Rebased /\ ~Raise(t)
    <2>1. PICK d : d = [c EXCEPT !.s = c.unknown, !.phase = "wait"]
        OBVIOUS
    <2>2. Goes(t, d)
        BY <1>0, <1>9, <2>1 DEF Looked
    <2>3. c.s \in Nat /\ c.unknown \in 1 .. c.s - 1 /\ c.unknown \in SelectionsOf(c.view)
        BY <1>1, <1>3, <1>9 DEF Asking
    <2>4. PICK m \in Nat : SelectionsOf(c.view) = 1 .. m
        BY <1>2
    <2>5. c.unknown \in Nat \ {0} /\ \A q \in 1 .. c.unknown - 1 : q \in SelectionsOf(c.view)
        BY <2>3, <2>4
    <2>6. /\ d \in CallType /\ d.op = c.op /\ d.view = c.view /\ d.arg = c.arg /\ d.u = c.u
          /\ d.found = c.found /\ d.phase = "wait" /\ d.s = c.unknown
        BY <1>2, <2>1, <2>5 DEF CallType
    <2>7. Asking(d)
        BY <1>9, <2>3, <2>5, <2>6 DEF Asking
    <2>8. CallInv(d)
        BY <1>1, <1>2, <1>9, <2>6, <2>7, SameSample
    <2> QED BY <2>2, <2>8, GoesStep
<1>10. c.op = "has" /\ c.unknown # None => Raise(t)
    BY <1>0 DEF Looked
<1> QED BY <1>5, <1>6, <1>7, <1>8, <1>9, <1>10

\* One more selection has said yes, each of them once it was known.
LEMMA MoreYes ==
    ASSUME NEW c, Asking(c), AskedYes(c), c.s \in SelectionsOf(c.view),
           SelectionState(c.view, c.s, c.u) = "yes",
           NEW d, d.view = c.view, d.u = c.u, d.s = c.s + 1, d.phase = "again"
    PROVE  Asking(d)
<1>1. c.s \in Nat \ {0} /\ \A q \in 1 .. c.s - 1 : q \in SelectionsOf(c.view)
    BY DEF Asking
<1>2. d.s \in Nat \ {0} /\ \A q \in 1 .. d.s - 1 : q \in 1 .. c.s - 1 \/ q = c.s
    BY <1>1
<1>3. AskedYes(d)
    BY <1>2 DEF AskedYes
<1> QED BY <1>1, <1>2, <1>3 DEF Asking

LEMMA AgainStep ==
    ASSUME ReadInv, NEW t \in Threads, Again(t)
    PROVE  ReadInv'
<1>0. PICK c : c = call[t]
    OBVIOUS
<1>1. call[t] # None /\ c.phase = "again"
    BY <1>0 DEF Again, In
<1>2. CallInv(c) /\ c \in CallType /\ c.view \in Views /\ c.s \in Nat
    BY <1>0, <1>1, CallIs
<1>3. Passed(c) /\ Asking(c) /\ AskedYes(c) /\ c.op # "has"
    BY <1>1, <1>2 DEF CallInv, Passed, Asking
<1>4. CASE Raise(t)
    BY <1>4, RaiseStep
<1>5. CASE ~MoreSelections(t)
    <2>1. Settle(t, "yes")
        BY <1>0, <1>5 DEF Again
    <2>2. AllYes(c.view, c.u)
        BY <1>0, <1>1, <1>3, <1>5, YesIsFinal
    <2> QED BY <1>0, <1>1, <1>3, <2>1, <2>2, SettleStep
<1>6. CASE MoreSelections(t) /\ ~Raise(t)
    <2>1. /\ Selected(t) \in States /\ Selected(t) = SelectionState(c.view, c.s, c.u)
          /\ c.s \in SelectionsOf(c.view)
        BY <1>0, <1>1, <1>6, AskedIs
    <2>2. CASE Selected(t) = "no"
        <3>1. Settle(t, "no")
            BY <1>0, <1>6, <2>2 DEF Again
        <3>2. SomeNo(c.view, c.u)
            BY <1>0, <1>6, <2>2, NoIsFinal
        <3> QED BY <1>0, <1>1, <1>3, <3>1, <3>2, SettleStep
    <2>3. CASE Selected(t) = "yes"
        <3>1. PICK d : d = [c EXCEPT !.s = @ + 1]
            OBVIOUS
        <3>2. Goes(t, d)
            BY <1>0, <1>6, <2>3, <3>1 DEF Again
        <3>3. c.s + 1 \in Nat
            BY <1>2
        <3>4. /\ d \in CallType /\ d.op = c.op /\ d.view = c.view /\ d.arg = c.arg /\ d.u = c.u
              /\ d.found = c.found /\ d.phase = "again" /\ d.s = c.s + 1
            BY <1>1, <1>2, <3>1, <3>3 DEF CallType
        <3>5. Asking(d)
            BY <1>3, <2>1, <2>3, <3>4, MoreYes
        <3>6. CallInv(d)
            BY <1>1, <1>2, <1>3, <3>4, <3>5, SameSample
        <3> QED BY <3>2, <3>6, GoesStep
    <2>4. CASE Selected(t) = "unknown"
        <3>1. PICK d : d = [c EXCEPT !.phase = "wait"]
            OBVIOUS
        <3>2. Goes(t, d)
            BY <1>0, <1>6, <2>4, <3>1 DEF Again
        <3>3. /\ d \in CallType /\ d.op = c.op /\ d.view = c.view /\ d.arg = c.arg /\ d.u = c.u
              /\ d.found = c.found /\ d.phase = "wait" /\ d.s = c.s
            BY <1>2, <3>1 DEF CallType
        <3>4. Asking(d)
            BY <1>3, <2>1, <3>3 DEF Asking, AskedYes
        <3>5. CallInv(d)
            BY <1>1, <1>2, <1>3, <3>3, <3>4, SameSample
        <3> QED BY <3>2, <3>5, GoesStep
    <2> QED BY <2>1, <2>2, <2>3, <2>4 DEF States
<1> QED BY <1>4, <1>5, <1>6

LEMMA WaitDecisionStep ==
    ASSUME ReadInv, NEW t \in Threads, WaitDecision(t)
    PROVE  ReadInv'
<1>0. PICK c : c = call[t]
    OBVIOUS
<1>1. call[t] # None /\ c.phase = "wait"
    BY <1>0 DEF WaitDecision, In
<1>2. CallInv(c) /\ c \in CallType /\ c.view \in Views /\ c.s \in Nat
    BY <1>0, <1>1, CallIs
<1>3. Passed(c) /\ Asking(c) /\ c.op # "has" /\ c.s \in SelectionsOf(c.view)
      /\ (c.view = Rebased => AskedYes(c))
    BY <1>1, <1>2 DEF CallInv, Passed, Asking
<1>4. CASE Raise(t)
    BY <1>4, RaiseStep
<1>5. CASE Park(t)
    <2>1. chain' = chain /\ decided' = decided /\ call' = call /\ answers' = answers
        BY <1>5 DEF Park, running
    <2> QED BY <2>1, Unmoved, ReadingStays
<1>6. CASE ~Raise(t) /\ ~Park(t)
    <2>0. MoreSelections(t)
        BY <1>0, <1>3 DEF MoreSelections
    <2>1. /\ Selected(t) \in States /\ Selected(t) = SelectionState(c.view, c.s, c.u)
        BY <1>0, <1>1, <2>0, AskedIs
    <2>2. Selected(t) # "unknown"
        BY <1>0, <1>6 DEF WaitDecision
    <2>3. CASE c.view = Rebased /\ Selected(t) = "no"
        <3>1. Settle(t, "no")
            BY <1>0, <1>6, <2>3 DEF WaitDecision
        <3>2. SomeNo(c.view, c.u)
            BY <1>0, <2>0, <2>3, NoIsFinal
        <3> QED BY <1>0, <1>1, <1>3, <3>1, <3>2, SettleStep
    <2>4. CASE c.view = Rebased /\ Selected(t) = "yes"
        <3>1. PICK d : d = [c EXCEPT !.s = @ + 1, !.phase = "again"]
            OBVIOUS
        <3>2. Goes(t, d)
            BY <1>0, <1>6, <2>4, <3>1 DEF WaitDecision
        <3>3. c.s + 1 \in Nat
            BY <1>2
        <3>4. /\ d \in CallType /\ d.op = c.op /\ d.view = c.view /\ d.arg = c.arg /\ d.u = c.u
              /\ d.found = c.found /\ d.phase = "again" /\ d.s = c.s + 1
            BY <1>2, <3>1, <3>3 DEF CallType
        <3>5. Asking(d)
            BY <1>3, <2>1, <2>4, <3>4, MoreYes
        <3>6. CallInv(d)
            BY <1>1, <1>2, <1>3, <3>4, <3>5, SameSample
        <3> QED BY <3>2, <3>6, GoesStep
    <2>5. CASE c.view # Rebased
        <3>1. PICK d : d = [c EXCEPT !.s = 1, !.unknown = None, !.phase = "look"]
            OBVIOUS
        <3>2. Goes(t, d)
            BY <1>0, <1>6, <2>2, <2>5, <3>1 DEF WaitDecision
        <3>3. /\ d \in CallType /\ d.op = c.op /\ d.view = c.view /\ d.arg = c.arg /\ d.u = c.u
              /\ d.found = c.found /\ d.phase = "look" /\ d.s = 1 /\ d.unknown = None
            BY <1>2, <3>1 DEF CallType
        <3>4. Asking(d)
            BY <3>3 DEF Asking, AskedYes
        <3>5. CallInv(d)
            BY <1>1, <1>2, <1>3, <3>3, <3>4, SameSample
        <3> QED BY <3>2, <3>5, GoesStep
    <2> QED BY <2>1, <2>2, <2>3, <2>4, <2>5 DEF States
<1> QED BY <1>4, <1>5, <1>6

LEMMA WaitCompleteStep ==
    ASSUME ReadInv, NEW t \in Threads, WaitComplete(t)
    PROVE  ReadInv'
<1>0. PICK c : c = call[t]
    OBVIOUS
<1>1. call[t] # None /\ c.phase = "complete"
    BY <1>0 DEF WaitComplete, In
<1>2. /\ CallInv(c) /\ c \in CallType /\ c.view \in Views /\ c.s \in Nat /\ c.arg \in Nat
      /\ Len(IdsOf(c.view)) \in Nat /\ chain \in FilterJobs
    BY <1>0, <1>1, CallIs
<1>3. c.op = "len" /\ c.u = 0 /\ c.found = 0 /\ c.unknown = None /\ c.s # 0
    BY <1>1, <1>2 DEF CallInv
<1>4. CASE Raise(t)
    BY <1>4, RaiseStep
<1>5. CASE Park(t)
    <2>1. chain' = chain /\ decided' = decided /\ call' = call /\ answers' = answers
        BY <1>5 DEF Park, running
    <2> QED BY <2>1, Unmoved, ReadingStays
<1>6. DecidedBefore(c.view, 0) /\ YesCount(c.view, 0) = 0
    BY Counting DEF DecidedBefore
<1>7. CASE ~Raise(t) /\ ~Park(t) /\ ~MoreSelections(t) /\ IdsOf(c.view) = <<>>
    <2>1. Answer(t, 0)
        BY <1>0, <1>7 DEF WaitComplete
    <2>2. PICK a : a = [op |-> c.op, view |-> c.view, arg |-> c.arg, value |-> 0]
        OBVIOUS
    <2>3. a.op = "len" /\ a.view = c.view /\ a.arg = c.arg /\ a.value = 0
        BY <1>3, <2>2
    <2>4. Len(IdsOf(c.view)) = 0
        BY <1>2, <1>7, ViewIs
    <2>5. AnswerInv(a)
        BY <1>2, <1>6, <2>3, <2>4 DEF AnswerInv
    <2> QED BY <1>0, <2>1, <2>2, <2>5, AnswerStep
<1>8. CASE ~Raise(t) /\ ~Park(t) /\ ~MoreSelections(t) /\ IdsOf(c.view) # <<>>
    <2>1. PICK d : d = [c EXCEPT !.s = 1, !.phase = "look"]
        OBVIOUS
    <2>2. Goes(t, d)
        BY <1>0, <1>8, <2>1 DEF WaitComplete
    <2>3. /\ d \in CallType /\ d.op = c.op /\ d.view = c.view /\ d.arg = c.arg /\ d.u = c.u
          /\ d.found = c.found /\ d.phase = "look" /\ d.s = 1 /\ d.unknown = c.unknown
        BY <1>2, <2>1 DEF CallType
    <2>4. Len(IdsOf(c.view)) > 0
        BY <1>2, <1>8, ViewIs
    <2>5. Passed(d)
        BY <1>2, <1>3, <1>6, <2>3, <2>4 DEF Passed
    <2>6. Asking(d)
        BY <1>3, <2>3 DEF Asking, AskedYes
    <2>7. CallInv(d)
        BY <2>3, <2>5, <2>6 DEF CallInv
    <2> QED BY <2>2, <2>7, GoesStep
<1>9. CASE ~Raise(t) /\ ~Park(t) /\ MoreSelections(t)
    <2>1. PICK d : d = [c EXCEPT !.s = @ + 1]
        OBVIOUS
    <2>2. Goes(t, d)
        BY <1>0, <1>9, <2>1 DEF WaitComplete
    <2>3. c.s + 1 \in Nat \ {0}
        BY <1>2
    <2>4. /\ d \in CallType /\ d.op = c.op /\ d.view = c.view /\ d.arg = c.arg /\ d.u = c.u
          /\ d.found = c.found /\ d.phase = "complete" /\ d.s = c.s + 1 /\ d.unknown = c.unknown
        BY <1>1, <1>2, <2>1, <2>3 DEF CallType
    <2>5. CallInv(d)
        BY <1>3, <2>3, <2>4 DEF CallInv
    <2> QED BY <2>2, <2>5, GoesStep
<1> QED BY <1>4, <1>5, <1>7, <1>8, <1>9

-----------------------------------------------------------------------------
(* The steps of the runs, and of close().                                  *)

\* A chunk decides on samples that were open, or decides as before.
LEMMA PublishStep ==
    ASSUME ReadInv, NEW r \in Runs, NEW positions \in SUBSET Positions,
           NEW chunk \in ChunksOf(r, positions), Agrees(r, chunk), Publish(r, chunk),
           chain' = chain, call' = call, answers' = answers
    PROVE  ReadInv'
<1>1. DOMAIN chunk = positions
    BY DEF ChunksOf
<1>2. \A k \in positions : decided[r][k] \in {None, chunk[k]}
    BY <1>1 DEF Agrees
<1>3. decided' = [decided EXCEPT ![r] = [k \in Positions |->
                        IF k \in positions THEN chunk[k] ELSE @[k]]]
    BY <1>1 DEF Publish
<1>4. decided = [q \in Runs |-> [k \in Positions |-> decided[q][k]]] /\ DOMAIN decided = Runs
    BY DEF ReadInv
<1>5. /\ decided' = [q \in Runs |-> decided'[q]]
      /\ \A q \in Runs : q # r => decided'[q] = decided[q]
      /\ decided'[r] = [k \in Positions |-> IF k \in positions THEN chunk[k] ELSE decided[r][k]]
    BY <1>3, <1>4
<1>6. ASSUME NEW q \in Runs PROVE decided'[q] = [k \in Positions |-> decided'[q][k]]
    BY <1>4, <1>5
<1>7. decided' = [q \in Runs |-> [k \in Positions |-> decided'[q][k]]]
    BY <1>5, <1>6
<1>8. ASSUME NEW q \in Runs, NEW k \in Positions, decided[q][k] # None
      PROVE  decided'[q][k] = decided[q][k]
    BY <1>2, <1>5, <1>8
<1>9. Kept
    BY <1>7, <1>8 DEF Kept
<1> QED BY <1>9, ReadingStays

\* A conflict found in a chunk changes no decision either.
LEMMA ConflictStep ==
    ASSUME ReadInv, NEW r \in Runs, NEW chunk, PublishConflicting(r, chunk)
    PROVE  ReadInv'
<1>1. PICK before \in SUBSET {k \in DOMAIN chunk : decided[r][k] = None} :
        decided' = [decided EXCEPT ![r] = [k \in Positions |->
                        IF k \in before THEN chunk[k] ELSE @[k]]]
    BY DEF PublishConflicting
<1>2. decided = [q \in Runs |-> [k \in Positions |-> decided[q][k]]] /\ DOMAIN decided = Runs
    BY DEF ReadInv
<1>3. /\ decided' = [q \in Runs |-> decided'[q]]
      /\ \A q \in Runs : q # r => decided'[q] = decided[q]
      /\ decided'[r] = [k \in Positions |-> IF k \in before THEN chunk[k] ELSE decided[r][k]]
    BY <1>1, <1>2
<1>4. ASSUME NEW q \in Runs PROVE decided'[q] = [k \in Positions |-> decided'[q][k]]
    BY <1>2, <1>3
<1>5. decided' = [q \in Runs |-> [k \in Positions |-> decided'[q][k]]]
    BY <1>3, <1>4
<1>6. ASSUME NEW q \in Runs, NEW k \in Positions, decided[q][k] # None
      PROVE  decided'[q][k] = decided[q][k]
    BY <1>1, <1>3, <1>6
<1>7. chain' = chain /\ call' = call /\ answers' = answers
    BY DEF PublishConflicting, reading
<1>8. Kept
    BY <1>5, <1>6, <1>7 DEF Kept
<1> QED BY <1>7, <1>8, ReadingStays

LEMMA QuietStep ==
    ASSUME ReadInv, chain' = chain, decided' = decided, call' = call, answers' = answers
    PROVE  ReadInv'
BY Unmoved, ReadingStays

LEMMA BuildReads ==
    ASSUME ReadInv, NEW r \in Runs, Judge(r)
    PROVE  ReadInv'
<1>1. CASE Fail(r)
    BY <1>1, QuietStep DEF Fail
<1>2. CASE Observe(r)
    <2>1. PICK positions \in SUBSET Positions : \E chunk \in ChunksOf(r, positions) :
            IF Agrees(r, chunk)
            THEN /\ Publish(r, chunk)
                 /\ UNCHANGED <<chain, complete, failed, builder, closing, call, begun, answers>>
            ELSE PublishConflicting(r, chunk)
        BY <1>2 DEF Observe
    <2>2. PICK chunk \in ChunksOf(r, positions) :
            IF Agrees(r, chunk)
            THEN Publish(r, chunk) /\ chain' = chain /\ call' = call /\ answers' = answers
            ELSE PublishConflicting(r, chunk)
        BY <2>1
    <2> QED BY <2>2, PublishStep, ConflictStep
<1>3. CASE PublishAll(r)
    <2>1. PICK positions \in SUBSET Positions : positions = Positions
        OBVIOUS
    <2>2. PICK chunk \in ChunksOf(r, positions) :
            IF Agrees(r, chunk)
            THEN Publish(r, chunk) /\ chain' = chain /\ call' = call /\ answers' = answers
            ELSE PublishConflicting(r, chunk)
        BY <1>3, <2>1 DEF PublishAll
    <2> QED BY <2>2, PublishStep, ConflictStep
<1>4. CASE ApplyRaises(r)
    BY <1>1, <1>4 DEF ApplyRaises
<1>5. CASE ApplyReturns(r)
    BY <1>5, QuietStep DEF ApplyReturns, reading
<1>6. CASE Finish(r)
    BY <1>1, <1>6, QuietStep DEF Finish
<1>7. CASE ReturnLease(r)
    BY <1>7, QuietStep DEF ReturnLease, reading
<1>8. CASE EndRaised(r)
    BY <1>1, <1>8 DEF EndRaised
<1> QED BY <1>2, <1>3, <1>4, <1>5, <1>6, <1>7, <1>8 DEF Judge

LEMMA CloseReads ==
    ASSUME ReadInv, NEW t \in Threads, CloseSomething(t) \/ CloseStep(t)
    PROVE  ReadInv'
<1>1. CASE CloseSomething(t)
    BY <1>1, QuietStep DEF CloseSomething, CallClose, running
<1>2. CASE ClaimRun(t) \/ Join(t) \/ CloseLease(t) \/ Ends(t)
    BY <1>2, QuietStep DEF ClaimRun, Join, CloseLease, Ends, running, reading
<1>3. CASE ClaimView(t) \/ CloseUniverse(t) \/ CloseSelections(t)
    BY <1>3, QuietStep DEF ClaimView, CloseUniverse, CloseSelections, running, reading
<1> QED BY <1>1, <1>2, <1>3 DEF CloseStep

LEMMA ReadInvInit ==
    ASSUME LInit
    PROVE  ReadInv
<1>1. decided = [r \in Runs |-> [k \in Positions |-> decided[r][k]]]
    <2>1. PICK ready : ready = [r \in Runs |-> [k \in Positions |->
                    IF chain.runs[r].ready THEN CHOOSE l \in chain.runs[r].rule[k] : TRUE
                    ELSE None]]
        OBVIOUS
    <2>2. decided = ready
        BY <2>1 DEF LInit
    <2>3. \A r \in Runs : ready[r] = [k \in Positions |-> ready[r][k]]
        BY <2>1
    <2> QED BY <2>1, <2>2, <2>3
<1>2. chain \in FilterJobs /\ answers = {} /\ call = [t \in Threads |-> None]
    BY DEF LInit
<1> QED BY <1>1, <1>2 DEF ReadInv

\* Whatever a read has passed or returned is decided for good and counted right, for
\* any chains, rules and threads, whenever the runs publish, fail or are closed.
THEOREM ReadSafe == LSpec => []ReadInv
<1>1. LInit => ReadInv
    BY ReadInvInit
<1>2. ASSUME ReadInv, [LNext]_lvars PROVE ReadInv'
    <2>1. CASE UNCHANGED lvars
        BY <2>1, <1>2, QuietStep DEF lvars
    <2>2. ASSUME NEW r \in Runs, Judge(r) PROVE ReadInv'
        BY <1>2, <2>2, BuildReads
    <2>3. ASSUME NEW t \in Threads, Read(t) PROVE ReadInv'
        BY <1>2, <2>3, BeginStep
    <2>4. ASSUME NEW t \in Threads, ReadStep(t) PROVE ReadInv'
        BY <1>2, <2>4, LookStep, LookedStep, AgainStep, WaitDecisionStep, WaitCompleteStep
           DEF ReadStep
    <2>5. ASSUME NEW t \in Threads, CloseSomething(t) \/ CloseStep(t) PROVE ReadInv'
        BY <1>2, <2>5, CloseReads
    <2> QED BY <1>2, <2>1, <2>2, <2>3, <2>4, <2>5 DEF LNext
<1> QED BY <1>1, <1>2, PTL DEF LSpec

\* An answer that the decisions bear out is the one that finished views give.
LEMMA AnswerIsFinal ==
    ASSUME chain \in FilterJobs, NEW a, AnswerInv(a)
    PROVE  IsFinal(a)
<1> DEFINE v == a.view
           n == Len(IdsOf(v))
<1>1. v \in Views /\ n \in Nat /\ a.arg \in Nat
    BY ViewIs DEF AnswerInv
<1>2. ASSUME NEW u \in Every(v)
      PROVE  Meet({SelectionState(v, s, u) : s \in SelectionsOf(v)}) = "yes" <=> AllYes(v, u)
    <2>1. \A s \in SelectionsOf(v) : SelectionState(v, s, u) \in States
        BY <1>1, StateIs
    <2> QED BY <2>1 DEF Meet, AllYes, States
<1>3. ChosenPositions(v) = YesBefore(v, n)
    BY <1>2 DEF ChosenPositions, YesBefore, Every
<1>4. IsFiniteSet(ChosenPositions(v)) /\ Cardinality(ChosenPositions(v)) = YesCount(v, n)
      /\ YesCount(v, n) \in Nat
    BY <1>1, <1>3, Counting DEF YesCount
<1>5. CASE a.op = "has"
    <2>1. a.arg \in Every(v)
          /\ ((a.value = 1 /\ AllYes(v, a.arg)) \/ (a.value = 0 /\ SomeNo(v, a.arg)))
        BY <1>5 DEF AnswerInv
    <2>2. ~AllYes(v, a.arg) \/ ~SomeNo(v, a.arg)
        BY DEF AllYes, SomeNo
    <2>3. a.arg \in ChosenPositions(v) <=> AllYes(v, a.arg)
        BY <1>2, <2>1 DEF ChosenPositions, Every
    <2> QED BY <1>5, <2>1, <2>2, <2>3 DEF IsFinal
<1>6. CASE a.op = "len"
    BY <1>4, <1>6 DEF AnswerInv, IsFinal
<1>7. CASE a.op = "at"
    <2>1. CASE a.value = OutOfRange
        <3>1. OutOfRange \notin Every(v)
            BY <1>1 DEF OutOfRange, Every
        <3>2. YesCount(v, n) <= a.arg
            BY <1>7, <2>1, <3>1 DEF AnswerInv
        <3>3. ~(a.arg < Cardinality(ChosenPositions(v)))
            BY <1>1, <1>4, <3>2
        <3> QED BY <1>7, <2>1, <3>3 DEF IsFinal
    <2>2. CASE a.value # OutOfRange
        <3>1. /\ a.value \in Every(v) /\ AllYes(v, a.value) /\ YesCount(v, a.value) = a.arg
            BY <1>7, <2>2 DEF AnswerInv
        <3>2. a.value \in Nat /\ a.value < n
            BY <1>1, <3>1 DEF Every
        <3>3. a.value \in ChosenPositions(v)
            BY <1>2, <3>1 DEF ChosenPositions, Every
        <3>4. {u \in ChosenPositions(v) : u < a.value} = YesBefore(v, a.value)
            BY <1>1, <1>3, <3>2 DEF YesBefore
        <3>5. YesCount(v, a.value + 1) = a.arg + 1
            BY <3>1, <3>2, Counting
        <3>6. YesBefore(v, a.value + 1) \subseteq YesBefore(v, n)
            BY <1>1, <3>2 DEF YesBefore
        <3>7. YesCount(v, a.value + 1) <= YesCount(v, n)
            BY <1>3, <1>4, <3>6, FS_Subset DEF YesCount
        <3>8. a.arg < Cardinality(ChosenPositions(v))
            BY <1>1, <1>4, <3>5, <3>7
        <3> QED BY <1>7, <3>1, <3>3, <3>4, <3>8 DEF IsFinal, YesCount
    <2> QED BY <2>1, <2>2
<1> QED BY <1>5, <1>6, <1>7 DEF AnswerInv

\* Whatever was answered while runs were scanning - a length, a membership, the
\* sample at a position - is what the views answer once their runs are complete.
THEOREM AnswersSafe == LSpec => []AnswersHold
<1>1. ReadInv => AnswersHold
    BY AnswerIsFinal DEF ReadInv, AnswersHold
<1> QED BY <1>1, ReadSafe, PTL
=============================================================================
