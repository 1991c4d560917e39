--------------------------- MODULE Services_proof ---------------------------
(***************************************************************************)
(* Proofs about the two services of this project, as MCServices puts them  *)
(* side by side.                                                           *)
(*                                                                         *)
(* WriteSink: its inductive invariant and the refinement of DurableSet,    *)
(* for any batches, pool size and limits.                                  *)
(*                                                                         *)
(* ProviderService: servers that share the path of a socket, for any       *)
(* owners, clients and uses.  However starts, stops, clients and kills     *)
(* overlap, an owner without a process has none running; and as long as    *)
(* the calls of owners do not overlap, one of them has a process, the path *)
(* is its, and a start that returned was answered by it.                   *)
(***************************************************************************)
EXTENDS WriteSink, ProviderService, FiniteSetTheorems, SequenceTheorems, TLAPS

\* What the cardinality of pending rests on.
LEMMA JobsAreFinite == IsFiniteSet(Jobs)
<1> QED BY FS_Interval, SinkAssumption DEF Jobs

\* Every step keeps the types.
LEMMA TypeStep == IInv /\ [Next]_vars => TypeOK'
<1> SUFFICES ASSUME IInv, [Next]_vars PROVE TypeOK'
    OBVIOUS
<1> USE DEF IInv, TypeOK
<1>1. CASE Submit
    BY <1>1, SinkAssumption DEF Submit, futures
<1>2. CASE Flush
    BY <1>2 DEF Flush, futures
<1>3. CASE ExitBlock
    BY <1>3 DEF ExitBlock, futures
<1>4. CASE BlockRaises
    BY <1>4 DEF BlockRaises, futures
<1>5. CASE Checked
    BY <1>5 DEF Checked, futures, RaiseCall, New, CallIsPlaced
<1>6. CASE Emit
    BY <1>6 DEF Emit, futures
<1>7. CASE Polled
    BY <1>7 DEF Polled, futures, RaiseCall, CallIsPlaced
<1>8. CASE FullRaises
    BY <1>8 DEF FullRaises, futures, RaiseCall, CallIsPlaced
<1>9. CASE Enqueue
    <2>1. PICK k \in Jobs :
            /\ state' = [state EXCEPT ![k] = "queued"]
            /\ content' = [content EXCEPT ![k] = batch]
            /\ pending' = pending \cup {k}
        BY <1>9 DEF Enqueue
    <2>2. Cardinality(pending') <= PendingLimit
        BY <2>1, <1>9, JobsAreFinite, FS_Subset, FS_AddElement, FS_CardinalityType, SinkAssumption
        DEF Enqueue
    <2>3. /\ state' \in [Jobs -> {"new", "queued", "running", "written", "failed", "cancelled"}]
          /\ content' \in [Jobs -> SUBSET Indexes]
        BY <2>1
    <2> QED BY <2>1, <2>2, <2>3, <1>9 DEF Enqueue
<1>10. CASE WriteInline
    <2>1. PICK k \in Jobs :
            /\ content' = [content EXCEPT ![k] = batch]
            /\ \/ state' = [state EXCEPT ![k] = "written"]
               \/ state' = [state EXCEPT ![k] = "failed"]
            /\ durable' \in {durable, durable \cup batch}
            /\ reported' \in {reported, reported \cup {k}}
            /\ outputs' \in {outputs, outputs \ batch}
            /\ error' \in {error, k}
        BY <1>10 DEF WriteInline
    <2>2. /\ state' \in [Jobs -> {"new", "queued", "running", "written", "failed", "cancelled"}]
          /\ content' \in [Jobs -> SUBSET Indexes]
        BY <2>1
    <2>3. pc' \in {"emit", "flush", "abort", "shutdown"} /\ raising' \in BOOLEAN
        BY <1>10 DEF WriteInline, RaiseCall, CallIsPlaced
    <2> QED BY <2>1, <2>2, <2>3, <1>10 DEF WriteInline
<1>11. CASE Flushed
    BY <1>11 DEF Flushed, futures, RaiseCall, CallIsPlaced
<1>12. CASE Shutdown
    BY <1>12 DEF Shutdown, futures, Unfinished
<1>13. CASE Abort
    <2>1. state' \in [Jobs -> {"new", "queued", "running", "written", "failed", "cancelled"}]
        BY <1>13 DEF Abort
    <2>2. Cardinality({}) <= PendingLimit
        BY FS_EmptySet, SinkAssumption
    <2> QED BY <2>1, <2>2, <1>13 DEF Abort
<1>14. CASE Aborted
    BY <1>14 DEF Aborted, futures, Unfinished
<1>15. ASSUME NEW j \in Jobs, Complete(j) PROVE TypeOK'
    <2>1. Cardinality(pending') <= PendingLimit
        BY <1>15, JobsAreFinite, FS_Subset, FS_RemoveElement, FS_CardinalityType, SinkAssumption
        DEF Complete
    <2>2. /\ pc' \in {pc, "flush", "abort", "shutdown"} /\ raising' \in BOOLEAN
          /\ error' \in {error, j}
          /\ reported' \in {reported, reported \cup {j}}
        BY <1>15 DEF Complete, RaiseCall, Takes, CallIsPlaced
    <2> QED BY <2>1, <2>2, <1>15 DEF Complete, futures
<1>16. ASSUME NEW j \in Jobs, StartJob(j) PROVE TypeOK'
    BY <1>16 DEF StartJob
<1>17. ASSUME NEW j \in Jobs, Written(j) PROVE TypeOK'
    BY <1>17 DEF Written, MarkReady
<1>18. ASSUME NEW j \in Jobs, WriteFails(j) PROVE TypeOK'
    BY <1>18 DEF WriteFails, MarkReady
<1>19. CASE UNCHANGED vars
    BY <1>19 DEF vars
<1> QED BY <1>1, <1>2, <1>3, <1>4, <1>5, <1>6, <1>7, <1>8, <1>9, <1>10,
           <1>11, <1>12, <1>13, <1>14, <1>15, <1>16, <1>17, <1>18, <1>19 DEF Next, Step, Pool

\* Every step leaves a call at one of its own places.
LEMMA PlacedStep == IInv /\ [Next]_vars => CallIsPlaced'
<1> SUFFICES ASSUME IInv, [Next]_vars PROVE CallIsPlaced'
    OBVIOUS
<1> USE DEF IInv, CallIsPlaced
<1>1. CASE Submit
    BY <1>1 DEF Submit, futures
<1>2. CASE Flush
    BY <1>2 DEF Flush, futures
<1>3. CASE ExitBlock
    BY <1>3 DEF ExitBlock, futures
<1>4. CASE BlockRaises
    BY <1>4 DEF BlockRaises, futures
<1>5. CASE Checked
    BY <1>5 DEF Checked, futures, RaiseCall, New
<1>6. CASE Emit
    BY <1>6 DEF Emit, futures
<1>7. CASE Polled
    BY <1>7 DEF Polled, futures, RaiseCall
<1>8. CASE FullRaises
    BY <1>8 DEF FullRaises, futures, RaiseCall
<1>9. CASE Enqueue
    BY <1>9 DEF Enqueue, NextJob
<1>10. CASE WriteInline
    BY <1>10 DEF WriteInline, RaiseCall, NextJob
<1>11. CASE Flushed
    BY <1>11 DEF Flushed, futures, RaiseCall
<1>12. CASE Shutdown
    BY <1>12 DEF Shutdown, futures, Unfinished
<1>13. CASE Abort
    BY <1>13 DEF Abort
<1>14. CASE Aborted
    BY <1>14 DEF Aborted, futures, Unfinished
<1>15. ASSUME NEW j \in Jobs, Complete(j) PROVE CallIsPlaced'
    BY <1>15 DEF Complete, futures, RaiseCall, Takes
<1>16. ASSUME NEW j \in Jobs, StartJob(j) PROVE CallIsPlaced'
    BY <1>16 DEF StartJob
<1>17. ASSUME NEW j \in Jobs, Written(j) PROVE CallIsPlaced'
    BY <1>17 DEF Written, MarkReady
<1>18. ASSUME NEW j \in Jobs, WriteFails(j) PROVE CallIsPlaced'
    BY <1>18 DEF WriteFails, MarkReady
<1>19. CASE UNCHANGED vars
    BY <1>19 DEF vars
<1> QED BY <1>1, <1>2, <1>3, <1>4, <1>5, <1>6, <1>7, <1>8, <1>9, <1>10,
           <1>11, <1>12, <1>13, <1>14, <1>15, <1>16, <1>17, <1>18, <1>19 DEF Next, Step, Pool

\* Jobs only carry accepted outputs.
LEMMA AcceptedStep == IInv /\ [Next]_vars => JobsAreAccepted'
<1> SUFFICES ASSUME IInv, [Next]_vars PROVE JobsAreAccepted'
    OBVIOUS
<1> USE DEF IInv, TypeOK, JobsAreAccepted, NothingIsDropped, CallIsPlaced
<1>1. CASE Submit
    BY <1>1 DEF Submit, futures
<1>2. CASE Flush
    BY <1>2 DEF Flush, futures
<1>3. CASE ExitBlock
    BY <1>3 DEF ExitBlock, futures
<1>4. CASE BlockRaises
    BY <1>4 DEF BlockRaises, futures
<1>5. CASE Checked
    BY <1>5 DEF Checked, futures, RaiseCall, New
<1>6. CASE Emit
    BY <1>6 DEF Emit, futures
<1>7. CASE Polled
    BY <1>7 DEF Polled, futures, RaiseCall
<1>8. CASE FullRaises
    BY <1>8 DEF FullRaises, futures, RaiseCall
<1>9. CASE Enqueue
    BY <1>9 DEF Enqueue, NextJob
<1>10. CASE WriteInline
    BY <1>10 DEF WriteInline, RaiseCall, NextJob
<1>11. CASE Flushed
    BY <1>11 DEF Flushed, futures, RaiseCall
<1>12. CASE Shutdown
    BY <1>12 DEF Shutdown, futures, Unfinished
<1>13. CASE Abort
    BY <1>13 DEF Abort
<1>14. CASE Aborted
    BY <1>14 DEF Aborted, futures, Unfinished
<1>15. ASSUME NEW j \in Jobs, Complete(j) PROVE JobsAreAccepted'
    BY <1>15 DEF Complete, futures, RaiseCall, Takes
<1>16. ASSUME NEW j \in Jobs, StartJob(j) PROVE JobsAreAccepted'
    BY <1>16 DEF StartJob
<1>17. ASSUME NEW j \in Jobs, Written(j) PROVE JobsAreAccepted'
    BY <1>17 DEF Written, MarkReady
<1>18. ASSUME NEW j \in Jobs, WriteFails(j) PROVE JobsAreAccepted'
    BY <1>18 DEF WriteFails, MarkReady
<1>19. CASE UNCHANGED vars
    BY <1>19 DEF vars
<1> QED BY <1>1, <1>2, <1>3, <1>4, <1>5, <1>6, <1>7, <1>8, <1>9, <1>10,
           <1>11, <1>12, <1>13, <1>14, <1>15, <1>16, <1>17, <1>18, <1>19 DEF Next, Step, Pool

\* No index enters a second job.
LEMMA OnceStep == IInv /\ [Next]_vars => EachOnce'
<1> SUFFICES ASSUME IInv, [Next]_vars PROVE EachOnce'
    OBVIOUS
<1> USE DEF IInv, TypeOK, EachOnce, JobsAreAccepted, NothingIsDropped, CallIsPlaced
<1>1. CASE Submit
    BY <1>1 DEF Submit, futures
<1>2. CASE Flush
    BY <1>2 DEF Flush, futures
<1>3. CASE ExitBlock
    BY <1>3 DEF ExitBlock, futures
<1>4. CASE BlockRaises
    BY <1>4 DEF BlockRaises, futures
<1>5. CASE Checked
    BY <1>5 DEF Checked, futures, RaiseCall, New
<1>6. CASE Emit
    BY <1>6 DEF Emit, futures
<1>7. CASE Polled
    BY <1>7 DEF Polled, futures, RaiseCall
<1>8. CASE FullRaises
    BY <1>8 DEF FullRaises, futures, RaiseCall
<1>9. CASE Enqueue
    BY <1>9 DEF Enqueue, NextJob
<1>10. CASE WriteInline
    BY <1>10 DEF WriteInline, RaiseCall, NextJob
<1>11. CASE Flushed
    BY <1>11 DEF Flushed, futures, RaiseCall
<1>12. CASE Shutdown
    BY <1>12 DEF Shutdown, futures, Unfinished
<1>13. CASE Abort
    BY <1>13 DEF Abort
<1>14. CASE Aborted
    BY <1>14 DEF Aborted, futures, Unfinished
<1>15. ASSUME NEW j \in Jobs, Complete(j) PROVE EachOnce'
    BY <1>15 DEF Complete, futures, RaiseCall, Takes
<1>16. ASSUME NEW j \in Jobs, StartJob(j) PROVE EachOnce'
    BY <1>16 DEF StartJob
<1>17. ASSUME NEW j \in Jobs, Written(j) PROVE EachOnce'
    BY <1>17 DEF Written, MarkReady
<1>18. ASSUME NEW j \in Jobs, WriteFails(j) PROVE EachOnce'
    BY <1>18 DEF WriteFails, MarkReady
<1>19. CASE UNCHANGED vars
    BY <1>19 DEF vars
<1> QED BY <1>1, <1>2, <1>3, <1>4, <1>5, <1>6, <1>7, <1>8, <1>9, <1>10,
           <1>11, <1>12, <1>13, <1>14, <1>15, <1>16, <1>17, <1>18, <1>19 DEF Next, Step, Pool

\* Outputs move from the buffer to jobs and nowhere else.
LEMMA DroppedStep == IInv /\ [Next]_vars => NothingIsDropped'
<1> SUFFICES ASSUME IInv, [Next]_vars PROVE NothingIsDropped'
    OBVIOUS
<1> USE DEF IInv, TypeOK, NothingIsDropped, JobsAreAccepted, CallIsPlaced
<1>1. CASE Submit
    BY <1>1 DEF Submit, futures
<1>2. CASE Flush
    BY <1>2 DEF Flush, futures
<1>3. CASE ExitBlock
    BY <1>3 DEF ExitBlock, futures
<1>4. CASE BlockRaises
    BY <1>4 DEF BlockRaises, futures
<1>5. CASE Checked
    BY <1>5 DEF Checked, futures, RaiseCall, New
<1>6. CASE Emit
    BY <1>6 DEF Emit, futures
<1>7. CASE Polled
    BY <1>7 DEF Polled, futures, RaiseCall
<1>8. CASE FullRaises
    BY <1>8 DEF FullRaises, futures, RaiseCall
<1>9. CASE Enqueue
    BY <1>9 DEF Enqueue, NextJob
<1>10. CASE WriteInline
    BY <1>10 DEF WriteInline, RaiseCall, NextJob
<1>11. CASE Flushed
    BY <1>11 DEF Flushed, futures, RaiseCall
<1>12. CASE Shutdown
    BY <1>12 DEF Shutdown, futures, Unfinished
<1>13. CASE Abort
    BY <1>13 DEF Abort
<1>14. CASE Aborted
    BY <1>14 DEF Aborted, futures, Unfinished
<1>15. ASSUME NEW j \in Jobs, Complete(j) PROVE NothingIsDropped'
    BY <1>15 DEF Complete, futures, RaiseCall, Takes
<1>16. ASSUME NEW j \in Jobs, StartJob(j) PROVE NothingIsDropped'
    BY <1>16 DEF StartJob
<1>17. ASSUME NEW j \in Jobs, Written(j) PROVE NothingIsDropped'
    BY <1>17 DEF Written, MarkReady
<1>18. ASSUME NEW j \in Jobs, WriteFails(j) PROVE NothingIsDropped'
    BY <1>18 DEF WriteFails, MarkReady
<1>19. CASE UNCHANGED vars
    BY <1>19 DEF vars
<1> QED BY <1>1, <1>2, <1>3, <1>4, <1>5, <1>6, <1>7, <1>8, <1>9, <1>10,
           <1>11, <1>12, <1>13, <1>14, <1>15, <1>16, <1>17, <1>18, <1>19 DEF Next, Step, Pool

\* Jobs stay pending until they are dealt with.
LEMMA PendingStep == IInv /\ [Next]_vars => JobsArePending'
<1> SUFFICES ASSUME IInv, [Next]_vars PROVE JobsArePending'
    OBVIOUS
<1> USE DEF IInv, TypeOK, JobsArePending, CallIsPlaced
<1>1. CASE Submit
    BY <1>1 DEF Submit, futures
<1>2. CASE Flush
    BY <1>2 DEF Flush, futures
<1>3. CASE ExitBlock
    BY <1>3 DEF ExitBlock, futures
<1>4. CASE BlockRaises
    BY <1>4 DEF BlockRaises, futures
<1>5. CASE Checked
    BY <1>5 DEF Checked, futures, RaiseCall, New
<1>6. CASE Emit
    BY <1>6 DEF Emit, futures
<1>7. CASE Polled
    BY <1>7 DEF Polled, futures, RaiseCall
<1>8. CASE FullRaises
    BY <1>8 DEF FullRaises, futures, RaiseCall
<1>9. CASE Enqueue
    BY <1>9 DEF Enqueue, NextJob
<1>10. CASE WriteInline
    BY <1>10 DEF WriteInline, RaiseCall, NextJob
<1>11. CASE Flushed
    BY <1>11 DEF Flushed, futures, RaiseCall
<1>12. CASE Shutdown
    BY <1>12 DEF Shutdown, futures, Unfinished
<1>13. CASE Abort
    BY <1>13 DEF Abort
<1>14. CASE Aborted
    BY <1>14 DEF Aborted, futures, Unfinished
<1>15. ASSUME NEW j \in Jobs, Complete(j) PROVE JobsArePending'
    BY <1>15 DEF Complete, futures, RaiseCall, Takes, None, Jobs
<1>16. ASSUME NEW j \in Jobs, StartJob(j) PROVE JobsArePending'
    BY <1>16 DEF StartJob
<1>17. ASSUME NEW j \in Jobs, Written(j) PROVE JobsArePending'
    BY <1>17 DEF Written, MarkReady
<1>18. ASSUME NEW j \in Jobs, WriteFails(j) PROVE JobsArePending'
    BY <1>18 DEF WriteFails, MarkReady
<1>19. CASE UNCHANGED vars
    BY <1>19 DEF vars
<1> QED BY <1>1, <1>2, <1>3, <1>4, <1>5, <1>6, <1>7, <1>8, <1>9, <1>10,
           <1>11, <1>12, <1>13, <1>14, <1>15, <1>16, <1>17, <1>18, <1>19 DEF Next, Step, Pool

\* The block ends after its jobs.
LEMMA QuietStep == IInv /\ [Next]_vars => QuietAfterEnd'
<1> SUFFICES ASSUME IInv, [Next]_vars PROVE QuietAfterEnd'
    OBVIOUS
<1> USE DEF IInv, QuietAfterEnd, Unfinished, CallIsPlaced
<1>1. CASE Submit
    BY <1>1 DEF Submit, futures
<1>2. CASE Flush
    BY <1>2 DEF Flush, futures
<1>3. CASE ExitBlock
    BY <1>3 DEF ExitBlock, futures
<1>4. CASE BlockRaises
    BY <1>4 DEF BlockRaises, futures
<1>5. CASE Checked
    BY <1>5 DEF Checked, futures, RaiseCall, New
<1>6. CASE Emit
    BY <1>6 DEF Emit, futures
<1>7. CASE Polled
    BY <1>7 DEF Polled, futures, RaiseCall
<1>8. CASE FullRaises
    BY <1>8 DEF FullRaises, futures, RaiseCall
<1>9. CASE Enqueue
    BY <1>9 DEF Enqueue, NextJob
<1>10. CASE WriteInline
    BY <1>10 DEF WriteInline, RaiseCall, NextJob
<1>11. CASE Flushed
    BY <1>11 DEF Flushed, futures, RaiseCall
<1>12. CASE Shutdown
    BY <1>12 DEF Shutdown, futures
<1>13. CASE Abort
    BY <1>13 DEF Abort
<1>14. CASE Aborted
    BY <1>14 DEF Aborted, futures
<1>15. ASSUME NEW j \in Jobs, Complete(j) PROVE QuietAfterEnd'
    <2>1. pc' \notin {"closed", "failed"}
        BY <1>15 DEF Complete, Takes, RaiseCall
    <2> QED BY <2>1
<1>16. ASSUME NEW j \in Jobs, StartJob(j) PROVE QuietAfterEnd'
    BY <1>16 DEF StartJob
<1>17. ASSUME NEW j \in Jobs, Written(j) PROVE QuietAfterEnd'
    BY <1>17 DEF Written, MarkReady
<1>18. ASSUME NEW j \in Jobs, WriteFails(j) PROVE QuietAfterEnd'
    BY <1>18 DEF WriteFails, MarkReady
<1>19. CASE UNCHANGED vars
    BY <1>19 DEF vars
<1> QED BY <1>1, <1>2, <1>3, <1>4, <1>5, <1>6, <1>7, <1>8, <1>9, <1>10,
           <1>11, <1>12, <1>13, <1>14, <1>15, <1>16, <1>17, <1>18, <1>19 DEF Next, Step, Pool

\* The block starts in the invariant.
LEMMA InvInit == Init => IInv
<1> SUFFICES ASSUME Init PROVE IInv
    OBVIOUS
<1>1. TypeOK
    <2>1. Cardinality({}) <= PendingLimit
        BY FS_EmptySet, SinkAssumption
    <2> QED BY <2>1 DEF Init, TypeOK
<1>2. EachOnce
    BY DEF Init, EachOnce
<1>3. JobsAreAccepted
    BY DEF Init, JobsAreAccepted
<1>4. NothingIsDropped
    BY DEF Init, NothingIsDropped
<1>5. CallIsPlaced /\ JobsArePending /\ QuietAfterEnd
    BY DEF Init, CallIsPlaced, JobsArePending, QuietAfterEnd
<1> QED BY <1>1, <1>2, <1>3, <1>4, <1>5 DEF IInv

\* FragmentOutputSink and BackgroundWriteSink keep the bookkeeping of accepted
\* outputs, jobs and pending futures consistent, whatever the pool does.
THEOREM WriteSinkInvariant == Spec => []IInv
<1>1. Init => IInv
    BY InvInit
<1>2. IInv /\ [Next]_vars => IInv'
    BY TypeStep, PlacedStep, AcceptedStep, OnceStep, DroppedStep, PendingStep, QuietStep DEF IInv
<1> QED BY <1>1, <1>2, PTL DEF Spec

\* BackgroundWriteSink never has more than max_pending jobs pending.
THEOREM TypeCorrect == Spec => []TypeOK
<1>1. IInv => TypeOK
    BY DEF IInv
<1> QED BY <1>1, WriteSinkInvariant, PTL

\* FragmentOutputSink never writes an index to two fragments, nor one that was
\* durable before.
THEOREM WrittenOnce == Spec => []EachOnce
<1>1. IInv => EachOnce
    BY DEF IInv
<1> QED BY <1>1, WriteSinkInvariant, PTL

-----------------------------------------------------------------------------
\* The abstract state, by the names of the mapping.
Told == UNION {content[j] : j \in reported}
Result == IF pc \in {"closed", "failed"} THEN pc ELSE "open"

\* A block starts with nothing accepted.
LEMMA ContractInit == Init => Contract!Init
<1> QED BY DEF Init, Contract!Init

\* Every step of the sink is one of the contract, or a stutter.
LEMMA ContractStep == IInv /\ IInv' /\ [Next]_vars => [Contract!Next]_(Contract!vars)
<1> SUFFICES ASSUME IInv, IInv', [Next]_vars
             PROVE  [Contract!Next]_(Contract!vars)
    OBVIOUS
<1> DEFINE Kept == UNCHANGED <<reserved, durable, content, reported>>
<1>1. ASSUME Kept, Result' = Result
      PROVE  UNCHANGED Contract!vars
    BY <1>1 DEF Contract!vars, Result
<1> HIDE DEF Kept
<1>2. CASE Submit \/ Flush \/ ExitBlock \/ BlockRaises
    <2>1. Kept /\ Result' = Result
        BY <1>2 DEF Submit, Flush, ExitBlock, BlockRaises, futures, Result, Kept
    <2> QED BY <2>1, <1>1
<1>3. CASE Emit \/ Polled \/ FullRaises \/ Flushed \/ Abort
    <2>1. Kept /\ Result' = Result
        BY <1>3 DEF Emit, Polled, FullRaises, Flushed, Abort, RaiseCall, futures, Result, Kept,
                    IInv, CallIsPlaced
    <2> QED BY <2>1, <1>1
<1>4. CASE Checked
    <2>1. CASE error # None
        <3>1. Kept /\ Result' = Result
            BY <1>4, <2>1 DEF Checked, RaiseCall, futures, Result, Kept, IInv, CallIsPlaced
        <3> QED BY <3>1, <1>1
    <2>2. CASE error = None
        <3>1. /\ reserved' = reserved \cup New
              /\ UNCHANGED <<durable, content, reported>>
              /\ Result = "open" /\ Result' = "open"
            BY <1>4, <2>2 DEF Checked, futures, Result
        <3>2. New \subseteq Indexes \ reserved
            BY DEF New, IInv, TypeOK
        <3>3. Contract!Accept
            BY <3>1, <3>2 DEF Contract!Accept, Result
        <3> QED BY <3>3 DEF Contract!Next
    <2> QED BY <2>1, <2>2
<1>5. CASE Enqueue
    <2>1. PICK k \in Jobs :
            /\ state[k] = "new"
            /\ content' = [content EXCEPT ![k] = batch]
        BY <1>5 DEF Enqueue, NextJob
    <2>2. Told' = Told
        BY <1>5, <2>1 DEF Enqueue, Told, IInv, TypeOK, JobsAreAccepted
    <2>3. UNCHANGED <<reserved, durable>> /\ Result' = Result
        BY <1>5 DEF Enqueue, Result
    <2> QED BY <2>2, <2>3 DEF Contract!vars, Told, Result
<1>6. CASE WriteInline
    <2>1. PICK k \in Jobs :
            /\ NextJob(k)
            /\ content' = [content EXCEPT ![k] = batch]
            /\ \/ durable' = durable \cup batch /\ reported' = reported \cup {k}
               \/ durable' = durable \cup batch /\ reported' = reported
               \/ durable' = durable /\ reported' = reported
        BY <1>6 DEF WriteInline
    <2>2. k \notin reported
        BY <2>1 DEF NextJob, IInv, JobsAreAccepted
    <2>3. /\ reserved' = reserved
          /\ Result = "open" /\ Result' = "open"
        BY <1>6 DEF WriteInline, RaiseCall, Result, IInv, CallIsPlaced
    <2>4. /\ batch \subseteq reserved \ durable
        <3>1. ~raising /\ batch \subseteq outputs
            BY <1>6 DEF WriteInline, IInv, CallIsPlaced, NothingIsDropped
        <3>2. \A j \in Jobs : content[j] \cap outputs = {}
            BY <3>1 DEF IInv, NothingIsDropped
        <3>3. durable \cap outputs = {}
            BY <3>2 DEF IInv, JobsAreAccepted
        <3> QED BY <3>1, <3>3 DEF IInv, JobsAreAccepted
    <2>5. CASE durable' = durable \cup batch /\ reported' = reported \cup {k}
        <3>1. Told' = Told \cup batch
            BY <2>1, <2>2, <2>5 DEF Told, IInv, TypeOK
        <3>2. Contract!StoreAndReport
            BY <2>3, <2>4, <2>5, <3>1 DEF Contract!StoreAndReport, Told, Result
        <3> QED BY <3>2 DEF Contract!Next
    <2>6. CASE durable' = durable \cup batch /\ reported' = reported
        <3>1. Told' = Told
            BY <2>1, <2>2, <2>6 DEF Told, IInv, TypeOK
        <3>2. Contract!Store
            BY <2>3, <2>4, <2>6, <3>1 DEF Contract!Store, Told, Result
        <3> QED BY <3>2 DEF Contract!Next
    <2>7. CASE durable' = durable /\ reported' = reported
        <3>1. Told' = Told
            BY <2>1, <2>2, <2>7 DEF Told, IInv, TypeOK
        <3> QED BY <2>3, <2>7, <3>1 DEF Contract!vars, Told, Result
    <2> QED BY <2>1, <2>5, <2>6, <2>7
<1>7. CASE Shutdown
    <2>1. Kept /\ Result = "open" /\ Result' \in {"closed", "failed"}
        BY <1>7 DEF Shutdown, futures, Result, Kept
    <2>2. CASE raising
        <3>1. Result' = "failed"
            BY <1>7, <2>2 DEF Shutdown, Result
        <3>2. Contract!EndBadly
            BY <2>1, <3>1 DEF Contract!EndBadly, Kept, Result
        <3> QED BY <3>2 DEF Contract!Next
    <2>3. CASE ~raising
        <3>1. Result' = "closed"
            BY <1>7, <2>3 DEF Shutdown, Result
        <3>2. /\ outputs = {} /\ pending = {} /\ error = None
              /\ reserved = UNION {content[j] : j \in Jobs}
            BY <1>7, <2>3 DEF Shutdown, IInv, NothingIsDropped, JobsArePending
        <3>3. \A j \in Jobs : state[j] = "new" \/ (state[j] = "written" /\ j \in reported)
            BY <2>3, <3>2 DEF IInv, TypeOK, JobsArePending
        <3>4. \A j \in Jobs : state[j] = "new" => content[j] = {}
            BY DEF IInv, JobsAreAccepted
        <3>5. reported \subseteq Jobs /\ \A j \in reported : state[j] = "written"
            BY DEF IInv, TypeOK, JobsAreAccepted
        <3>6. Told = reserved
            BY <3>2, <3>3, <3>4, <3>5 DEF Told
        <3>7. durable = reserved
            BY <3>2, <3>3, <3>4 DEF IInv, JobsAreAccepted
        <3>8. Contract!EndWell
            BY <2>1, <3>1, <3>6, <3>7 DEF Contract!EndWell, Kept, Told, Result
        <3> QED BY <3>8 DEF Contract!Next
    <2> QED BY <2>2, <2>3
<1>8. CASE Aborted
    <2>1. Kept /\ Result = "open" /\ Result' = "failed"
        BY <1>8 DEF Aborted, futures, Result, Kept
    <2>2. Contract!EndBadly
        BY <2>1 DEF Contract!EndBadly, Kept, Result
    <2> QED BY <2>2 DEF Contract!Next
<1>9. ASSUME NEW j \in Jobs, Complete(j) PROVE [Contract!Next]_(Contract!vars)
    <2>1. UNCHANGED <<reserved, durable, content>> /\ Result = "open" /\ Result' = "open"
        BY <1>9 DEF Complete, Takes, RaiseCall, futures, Result, IInv, CallIsPlaced
    <2>2. CASE reported' = reported
        BY <2>1, <2>2, <1>1 DEF Kept
    <2>3. CASE reported' = reported \cup {j} /\ state[j] = "written"
        <3>1. Told' = Told \cup (content[j] \ Told)
            BY <2>1, <2>3 DEF Told
        <3>2. content[j] \subseteq durable
            BY <2>3 DEF IInv, JobsAreAccepted
        <3>3. Contract!Report
            BY <2>1, <3>1, <3>2 DEF Contract!Report, Told, Result
        <3> QED BY <3>3 DEF Contract!Next
    <2> QED BY <1>9, <2>2, <2>3 DEF Complete
<1>10. ASSUME NEW j \in Jobs, Written(j) PROVE [Contract!Next]_(Contract!vars)
    <2>1. /\ durable' = durable \cup content[j]
          /\ UNCHANGED <<reserved, content, reported, pc>>
          /\ state[j] = "running"
        BY <1>10 DEF Written
    <2>2. Result = "open"
        BY <2>1 DEF Result, IInv, QuietAfterEnd, Unfinished
    <2>3. \A k \in Jobs : state[k] = "written" => content[k] \cap content[j] = {}
        BY <2>1 DEF IInv, EachOnce
    <2>4. content[j] \subseteq reserved \ durable
        BY <2>3 DEF IInv, JobsAreAccepted
    <2>5. Contract!Store
        BY <2>1, <2>2, <2>4 DEF Contract!Store, Result
    <2> QED BY <2>5 DEF Contract!Next
<1>11. ASSUME NEW j \in Jobs, StartJob(j) \/ WriteFails(j) PROVE UNCHANGED Contract!vars
    BY <1>11, <1>1 DEF StartJob, WriteFails, Kept, Result
<1>12. CASE UNCHANGED vars
    BY <1>12, <1>1 DEF vars, Kept, Result
<1> QED BY <1>2, <1>3, <1>4, <1>5, <1>6, <1>7, <1>8, <1>9, <1>10, <1>11, <1>12
        DEF Next, Step, Pool

\* A `with` block over FragmentOutputSink keeps its promise: it ends without an
\* exception only when all it accepted is durable and reported.
THEOREM DurableSetImplemented == Spec => ImplementsDurableSet
<1>1. Init => Contract!Init
    BY ContractInit
<1>2. IInv /\ IInv' /\ [Next]_vars => [Contract!Next]_(Contract!vars)
    BY ContractStep
<1> QED BY <1>1, <1>2, WriteSinkInvariant, PTL DEF Spec, ImplementsDurableSet, Contract!Spec

-----------------------------------------------------------------------------
(* Servers that share a path.                                              *)

\* Everything a state of the service is made of.
CallStates == {"idle", "starting", "waiting", "pinging", "cleaning", "joining",
               "unlinking", "closing"}
ServerStates == {"off", "opening", "loading", "binding", "accepting", "busy",
                 "ending", "leaving", "left"}
ProbeStates == {"off", "look", "asking", "stale", "done", "raised"}
Places == (Owners \X Nat) \cup {NoPath}
Conns == [state : {"none", "queued", "answered", "broken", "gone"},
          cmd : {"none", "probe", "ping", "close", "call"}, to : Places]

ServiceTypeOK ==
    /\ path \in Places
    /\ at \in [Owners -> CallStates]
    /\ handle \in [Owners -> BOOLEAN]
    /\ starts \in [Owners -> Nat]
    /\ server \in [Owners -> ServerStates]
    /\ queue \in [Owners -> Seq(Requesters)]
    /\ conn \in [Requesters -> Conns]
    /\ probe \in [Probers -> ProbeStates]
    /\ use \in Uses

\* A process is busy with the first request of its queue, which is a client's.
CallInv ==
    /\ \A p \in Probers : conn[p].cmd # "call"
    /\ \A o \in Owners : server[o] = "busy" =>
        queue[o] # <<>> /\ \E c \in Clients : Head(queue[o]) = Client(c)

\* An owner without a process has none running, and probes the path only before it
\* starts one and after it has ended; a process, when it opens and when it has left.
HandleInv(o) ==
    /\ at[o] = "starting" => ~handle[o]
    /\ at[o] \notin {"idle", "starting"} => handle[o]
    /\ ~handle[o] \/ at[o] = "unlinking" => server[o] = "off"
    /\ probe[Owner(o)] # "off" => at[o] \in {"starting", "unlinking"}
    /\ probe[Server(o)] # "off" => server[o] \in {"opening", "left"}

\* One owner at a time has a process, and one is in a call.
AloneInv ==
    \A o, q \in Owners : o # q =>
        /\ ~handle[o] \/ ~handle[q]
        /\ at[o] = "idle" \/ at[q] = "idle"
        /\ use.discipline = "turns" /\ at[o] = "starting" => ~handle[q]

\* What is at the path is the socket of the last start of the owner that has the
\* process; it is there from the bind until the process leaves.
PathInv ==
    /\ path # NoPath => \E o \in Owners : handle[o] /\ path = Listener(o)
    /\ \A o \in Owners :
        /\ server[o] \in {"opening", "loading", "binding", "left"} => path = NoPath
        /\ server[o] \in {"accepting", "busy", "ending", "leaving"} => path = Listener(o)

\* So a process finds nothing to unlink; an owner that starts finds nothing or a
\* server that answers, and one that has ended its own process at most the socket
\* of that.
StartProbe(o) ==
    at[o] = "starting" =>
        /\ probe[Owner(o)] \in {"look", "asking", "done", "raised"}
        /\ probe[Owner(o)] = "done" => \A q \in Owners : ~handle[q]
        /\ probe[Owner(o)] = "asking" => conn[Owner(o)].state # "broken"

EndProbe(o) ==
    at[o] = "unlinking" =>
        /\ probe[Owner(o)] \in {"look", "stale", "done"}
        /\ probe[Owner(o)] = "done" => path = NoPath

ProbeInv(o) ==
    /\ probe[Server(o)] \in {"off", "look", "done"}
    /\ StartProbe(o) /\ EndProbe(o)

\* The ping of a start went to the process of this start.
PingInv(o) == at[o] = "pinging" \/ Up(o) => conn[Owner(o)].to = Listener(o)

\* Guarded, only a stop asks a server to close, and waits for the answer: before it
\* the server serves.
OnlyStopsClose ==
    \A r \in Requesters :
        conn[r].cmd = "close" => \E o \in Owners : r = Owner(o) /\ at[o] = "closing"

Serves(o) ==
    /\ at[o] = "pinging" \/ Up(o) => server[o] \in {"accepting", "busy"}
    /\ at[o] = "waiting" => server[o] \notin {"ending", "leaving", "left"}

GuardedInv == OnlyStopsClose /\ \A o \in Owners : Serves(o)

OneServerInv ==
    /\ AloneInv /\ PathInv
    /\ \A o \in Owners : ProbeInv(o) /\ PingInv(o)
    /\ use.discipline = "guarded" => GuardedInv

ServiceInv ==
    /\ ServiceTypeOK /\ CallInv
    /\ \A o \in Owners : HandleInv(o)
    /\ use.discipline # "any" => OneServerInv

-----------------------------------------------------------------------------
(* Names, connections and what is at the path.                             *)

LEMMA Names ==
    /\ \A o \in Owners : /\ Owner(o) \in Probers /\ Owner(o) \in Requesters
                         /\ Server(o) \in Probers /\ Server(o) \in Requesters
    /\ \A c \in Clients : Client(c) \in Requesters
    /\ \A o, q : /\ Owner(o) # Server(q) /\ Owner(o) # Client(q) /\ Server(o) # Client(q)
                 /\ Owner(o) = Owner(q) => o = q
                 /\ Server(o) = Server(q) => o = q
    /\ Probers \subseteq Requesters
BY DEF Owner, Server, Client, Probers, Requesters

LEMMA ConnTypes ==
    /\ NoConn \in Conns /\ NoConn.state = "none" /\ NoConn.cmd = "none"
    /\ \A c \in Conns, s \in {"answered", "broken", "gone"} :
        /\ Turned(c, s) \in Conns /\ Turned(c, s).state = s
        /\ Turned(c, s).cmd = c.cmd /\ Turned(c, s).to = c.to
    /\ \A cmd \in {"none", "call", "close"} :
        /\ [NoConn EXCEPT !.state = "broken", !.cmd = cmd] \in Conns
        /\ [NoConn EXCEPT !.state = "broken", !.cmd = cmd].cmd = cmd
BY DEF NoConn, Conns, Places, Turned

\* A connect reaches the process whose socket is at the path.
LEMMA ConnectReaches ==
    ASSUME ServiceTypeOK, NEW r \in Requesters,
           NEW cmd \in {"probe", "ping", "close", "call"}, Connect(r, cmd)
    PROVE  /\ \E o \in Owners : path = Listener(o) /\ Listens(o)
           /\ queue' \in [Owners -> Seq(Requesters)]
           /\ conn' \in [Requesters -> Conns]
           /\ conn'[r].state = "queued" /\ conn'[r].cmd = cmd /\ conn'[r].to = path
           /\ \A q \in Requesters : q # r => conn'[q] = conn[q]
           /\ \A q \in Owners :
                queue[q] # <<>> => queue'[q] # <<>> /\ Head(queue'[q]) = Head(queue[q])
<1>1. PICK o \in Owners, n \in Nat : path = <<o, n>> /\ path[1] = o
    <2>1. path \in Owners \X Nat
        BY DEF ServiceTypeOK, Places, Connect, Reachable
    <2> QED BY <2>1
<1>2. path = Listener(o) /\ Listens(o)
    BY <1>1 DEF Connect, Reachable
<1>3. queue' = [queue EXCEPT ![o] = Append(queue[o], r)]
    BY <1>1 DEF Connect
<1>4. queue' \in [Owners -> Seq(Requesters)]
    <2>1. Append(queue[o], r) \in Seq(Requesters)
        BY AppendProperties DEF ServiceTypeOK
    <2> QED BY <1>3, <2>1 DEF ServiceTypeOK
<1>5. conn' = [conn EXCEPT ![r] = [state |-> "queued", cmd |-> cmd, to |-> path]]
    BY DEF Connect
<1>6. [state |-> "queued", cmd |-> cmd, to |-> path] \in Conns
    BY DEF Conns, ServiceTypeOK
<1>7. ASSUME NEW q \in Owners, queue[q] # <<>>
      PROVE  queue'[q] # <<>> /\ Head(queue'[q]) = Head(queue[q])
    <2>1. CASE q # o
        BY <1>3, <1>7, <2>1 DEF ServiceTypeOK
    <2>2. CASE q = o
        <3>1. PICK s \in Seq(Requesters), t \in Seq(Requesters) :
                s = queue[q] /\ t = Append(s, r) /\ t = queue'[q]
            <4>1. queue[q] \in Seq(Requesters) /\ queue'[q] = Append(queue[q], r)
                BY <1>3, <2>2 DEF ServiceTypeOK
            <4> QED BY <4>1, AppendProperties
        <3>2. Len(s) \in Nat \ {0} /\ Head(s) = s[1]
            BY <1>7, <3>1, EmptySeq, LenProperties, HeadTailProperties
        <3>3. Len(t) = Len(s) + 1 /\ t[1] = s[1]
            <4>1. /\ Len(Append(s, r)) = Len(s) + 1
                  /\ \A i \in 1 .. Len(s) : Append(s, r)[i] = s[i]
                BY AppendProperties
            <4>2. 1 \in 1 .. Len(s)
                BY <3>2
            <4> QED BY <3>1, <4>1, <4>2
        <3>4. t # <<>> /\ Head(t) = t[1]
            <4>1. Len(t) # 0
                BY <3>2, <3>3
            <4>2. t # <<>>
                BY <4>1, EmptySeq
            <4> QED BY <4>2, HeadTailProperties
        <3> QED BY <3>1, <3>2, <3>3, <3>4
    <2> QED BY <2>1, <2>2
<1> QED BY <1>2, <1>4, <1>5, <1>6, <1>7 DEF ServiceTypeOK

LEMMA WithoutType ==
    ASSUME NEW s \in Seq(Requesters), NEW r
    PROVE  Without(s, r) \in Seq(Requesters)
<1>1. CASE r \notin ToSet(s)
    BY <1>1 DEF Without
<1>2. CASE r \in ToSet(s)
    <2>0. Len(s) \in Nat /\ DOMAIN s = 1 .. Len(s)
        BY LenProperties
    <2>1. \E k \in DOMAIN s : s[k] = r
        BY <1>2, <2>0 DEF ToSet
    <2>2. PICK k \in 1 .. Len(s) : k = CHOOSE j \in DOMAIN s : s[j] = r
        BY <2>0, <2>1
    <2>3. PICK a, b \in Seq(Requesters) :
            a = SubSeq(s, 1, k - 1) /\ b = SubSeq(s, k + 1, Len(s))
        <3>1. SubSeq(s, 1, k - 1) \in Seq(Requesters)
            BY <2>0, SubSeqProperties
        <3>2. SubSeq(s, k + 1, Len(s)) \in Seq(Requesters)
            BY <2>0, SubSeqProperties
        <3> QED BY <3>1, <3>2
    <2>4. a \o b \in Seq(Requesters)
        BY ConcatProperties
    <2> QED BY <1>2, <2>2, <2>3, <2>4 DEF Without, RemoveAt
<1> QED BY <1>1, <1>2

\* The first of a queue stays when another connection is taken out.
LEMMA WithoutHead ==
    ASSUME NEW s \in Seq(Requesters), s # <<>>, NEW r, Head(s) # r
    PROVE  Without(s, r) # <<>> /\ Head(Without(s, r)) = Head(s)
<1>0. Len(s) \in Nat \ {0} /\ DOMAIN s = 1 .. Len(s) /\ Head(s) = s[1]
    BY LenProperties, EmptySeq, HeadTailProperties
<1>1. CASE r \notin ToSet(s)
    BY <1>1 DEF Without
<1>2. CASE r \in ToSet(s)
    <2>1. \E k \in DOMAIN s : s[k] = r
        BY <1>2, <1>0 DEF ToSet
    <2>2. PICK k \in 1 .. Len(s) : k = (CHOOSE j \in DOMAIN s : s[j] = r) /\ s[k] = r
        BY <1>0, <2>1
    <2>3. k >= 2
        BY <1>0, <2>2
    <2>4. PICK a \in Seq(Requesters) : a = SubSeq(s, 1, k - 1) /\ Len(a) = k - 1 /\ a[1] = s[1]
        <3>1. PICK m \in 1 .. Len(s) : m = k - 1
            BY <1>0, <2>3
        <3>2. /\ SubSeq(s, 1, m) \in Seq(Requesters)
              /\ Len(SubSeq(s, 1, m)) = IF 1 <= m THEN m - 1 + 1 ELSE 0
              /\ \A j \in 1 .. m - 1 + 1 : SubSeq(s, 1, m)[j] = s[1 + j - 1]
            BY <1>0, SubSeqProperties
        <3>3. Len(SubSeq(s, 1, m)) = m /\ SubSeq(s, 1, m)[1] = s[1]
            BY <3>1, <3>2
        <3> QED BY <3>1, <3>2, <3>3
    <2>5. PICK b \in Seq(Requesters) : b = SubSeq(s, k + 1, Len(s))
        <3>1. SubSeq(s, k + 1, Len(s)) \in Seq(Requesters)
            BY <1>0, SubSeqProperties
        <3> QED BY <3>1
    <2>6. PICK u \in Seq(Requesters) : u = a \o b /\ Len(u) = Len(a) + Len(b) /\ u[1] = a[1]
        <3>1. /\ a \o b \in Seq(Requesters) /\ Len(a \o b) = Len(a) + Len(b)
              /\ \A j \in 1 .. Len(a) + Len(b) :
                    (a \o b)[j] = IF j <= Len(a) THEN a[j] ELSE b[j - Len(a)]
            BY ConcatProperties
        <3>2. Len(b) \in Nat /\ 1 \in 1 .. Len(a) + Len(b) /\ 1 <= Len(a)
            BY <2>3, <2>4, LenProperties
        <3> QED BY <3>1, <3>2
    <2>7. u # <<>>
        <3>1. Len(b) \in Nat
            BY LenProperties
        <3>2. Len(u) # 0
            BY <2>3, <2>4, <2>6, <3>1
        <3> QED BY <3>2, EmptySeq
    <2>8. Head(u) = u[1]
        BY <2>6, <2>7, HeadTailProperties
    <2>9. Without(s, r) = u
        BY <1>2, <2>2, <2>4, <2>5, <2>6 DEF Without, RemoveAt
    <2> QED BY <1>0, <2>4, <2>6, <2>7, <2>8, <2>9
<1> QED BY <1>1, <1>2

\* The end of a process breaks connections, and changes nothing else of them.
LEMMA Breaks ==
    ASSUME ServiceTypeOK, NEW o \in Owners, Dies(o)
    PROVE  /\ server' = [server EXCEPT ![o] = "off"] /\ path' = path
           /\ probe' = [probe EXCEPT ![Server(o)] = "off"]
           /\ queue' \in [Owners -> Seq(Requesters)]
           /\ conn' \in [Requesters -> Conns]
           /\ \A r \in Requesters :
                /\ conn'[r] = conn[r] \/ conn'[r] = NoConn
                   \/ (r \in ToSet(queue[o]) /\ conn'[r] = Turned(conn[r], "broken"))
                /\ r # Server(o) => conn'[r].to = conn[r].to /\ conn'[r].cmd = conn[r].cmd
           /\ \A q \in Owners : q # o /\ queue[q] # <<>> /\ Head(queue[q]) # Server(o)
                => queue'[q] # <<>> /\ Head(queue'[q]) = Head(queue[q])
<1>1. /\ server' = [server EXCEPT ![o] = "off"] /\ path' = path
      /\ probe' = [probe EXCEPT ![Server(o)] = "off"]
    BY DEF Dies
<1>2. queue' \in [Owners -> Seq(Requesters)]
    <2>1. \A q \in Owners : queue[q] \in Seq(Requesters)
        BY DEF ServiceTypeOK
    <2>2. \A q \in Owners : Without(queue[q], Server(o)) \in Seq(Requesters)
        BY <2>1, WithoutType
    <2>3. <<>> \in Seq(Requesters)
        BY EmptySeq
    <2> QED BY <2>2, <2>3 DEF Dies
<1>3. \A r \in Requesters :
        conn'[r] = IF r = Server(o) THEN NoConn
                   ELSE IF r \in ToSet(queue[o]) THEN Turned(conn[r], "broken")
                   ELSE conn[r]
    BY DEF Dies
<1>4. \A r \in Requesters : conn[r] \in Conns
    BY DEF ServiceTypeOK
<1>5. \A r \in Requesters : conn'[r] \in Conns
    BY <1>3, <1>4, ConnTypes
<1>6. conn' \in [Requesters -> Conns]
    BY <1>5 DEF Dies
<1>7. \A r \in Requesters : r # Server(o) => conn'[r].to = conn[r].to /\ conn'[r].cmd = conn[r].cmd
    BY <1>3, <1>4, ConnTypes
<1>8. ASSUME NEW q \in Owners, q # o, queue[q] # <<>>, Head(queue[q]) # Server(o)
      PROVE  queue'[q] # <<>> /\ Head(queue'[q]) = Head(queue[q])
    <2>1. queue[q] \in Seq(Requesters)
        BY DEF ServiceTypeOK
    <2>2. queue'[q] = Without(queue[q], Server(o))
        BY <1>8 DEF Dies
    <2> QED BY <1>8, <2>1, <2>2, WithoutHead
<1> QED BY <1>1, <1>2, <1>3, <1>6, <1>7, <1>8

\* An answer changes the state of one connection.
LEMMA Replies ==
    ASSUME ServiceTypeOK, NEW o \in Owners, queue[o] # <<>>, Reply(o, Head(queue[o]))
    PROVE  /\ Head(queue[o]) \in Requesters
           /\ queue' \in [Owners -> Seq(Requesters)]
           /\ conn' \in [Requesters -> Conns]
           /\ \A r \in Requesters :
                /\ conn'[r].to = conn[r].to /\ conn'[r].cmd = conn[r].cmd
                /\ conn'[r].state = "broken" => conn[r].state = "broken"
<1>1. queue[o] \in Seq(Requesters)
    BY DEF ServiceTypeOK
<1>2. Head(queue[o]) \in Requesters /\ Tail(queue[o]) \in Seq(Requesters)
    BY <1>1, HeadTailProperties
<1>3. queue' \in [Owners -> Seq(Requesters)]
    BY <1>2 DEF Reply, ServiceTypeOK
<1>4. PICK r \in Requesters : r = Head(queue[o])
    BY <1>2
<1>5. \A q \in Requesters : conn[q] \in Conns
    BY DEF ServiceTypeOK
<1>6. CASE conn' = conn
    BY <1>2, <1>3, <1>6 DEF ServiceTypeOK
<1>7. CASE conn' = [conn EXCEPT ![r] = Turned(conn[r], "answered")]
    <2>1. \A q \in Requesters : conn'[q] = IF q = r THEN Turned(conn[r], "answered") ELSE conn[q]
        BY <1>7 DEF ServiceTypeOK
    <2>2. Turned(conn[r], "answered") \in Conns
        BY <1>5, ConnTypes
    <2>3. conn' \in [Requesters -> Conns]
        BY <1>7, <2>2 DEF ServiceTypeOK
    <2> QED BY <1>2, <1>3, <1>5, <2>1, <2>3, ConnTypes
<1> QED BY <1>4, <1>6, <1>7 DEF Reply

LEMMA SocketCloses ==
    ASSUME ServiceTypeOK, NEW o \in Owners, CloseSocket(o)
    PROVE  /\ queue' \in [Owners -> Seq(Requesters)]
           /\ conn' \in [Requesters -> Conns]
           /\ \A r \in Requesters :
                /\ conn'[r].to = conn[r].to /\ conn'[r].cmd = conn[r].cmd
<1>1. queue' \in [Owners -> Seq(Requesters)]
    <2>1. <<>> \in Seq(Requesters)
        BY EmptySeq
    <2> QED BY <2>1 DEF CloseSocket, ServiceTypeOK
<1>2. \A r \in Requesters :
        conn'[r] = IF r \in ToSet(queue[o]) THEN Turned(conn[r], "broken") ELSE conn[r]
    BY DEF CloseSocket
<1>3. \A r \in Requesters : conn[r] \in Conns
    BY DEF ServiceTypeOK
<1>4. \A r \in Requesters : conn'[r] \in Conns
    BY <1>2, <1>3, ConnTypes
<1>5. conn' \in [Requesters -> Conns]
    BY <1>4 DEF CloseSocket
<1> QED BY <1>1, <1>2, <1>3, <1>5, ConnTypes

-----------------------------------------------------------------------------
(* Types.                                                                  *)

LEMMA TypesInit == PInit => ServiceTypeOK
<1> SUFFICES ASSUME PInit PROVE ServiceTypeOK
    OBVIOUS
<1>1. <<>> \in Seq(Requesters)
    BY EmptySeq
<1>2. conn \in [Requesters -> Conns]
    BY ConnTypes DEF PInit
<1>3. queue \in [Owners -> Seq(Requesters)]
    BY <1>1 DEF PInit
<1> QED BY <1>2, <1>3 DEF PInit, ServiceTypeOK, Places, CallStates, ServerStates, ProbeStates

LEMMA ProbeTypes ==
    ASSUME ServiceTypeOK, NEW p \in Probers, ProbeStep(p)
    PROVE  ServiceTypeOK'
<1>0. p \in Requesters
    BY Names
<1>1. CASE LookAtPath(p)
    <2>1. probe' \in [Probers -> ProbeStates]
        BY <1>1 DEF LookAtPath, ServiceTypeOK, ProbeStates
    <2>2. queue' \in [Owners -> Seq(Requesters)] /\ conn' \in [Requesters -> Conns]
        BY <1>0, <1>1, ConnectReaches DEF LookAtPath, ServiceTypeOK
    <2> QED BY <1>1, <2>1, <2>2 DEF LookAtPath, ServiceTypeOK
<1>2. CASE Probed(p)
    <2>1. probe' \in [Probers -> ProbeStates]
        BY <1>2 DEF Probed, ServiceTypeOK, ProbeStates
    <2>2. conn' \in [Requesters -> Conns]
        BY <1>2, ConnTypes DEF Probed, ServiceTypeOK
    <2> QED BY <1>2, <2>1, <2>2 DEF Probed, ServiceTypeOK
<1>3. CASE RemovePath(p)
    BY <1>3 DEF RemovePath, ServiceTypeOK, ProbeStates, Places
<1> QED BY <1>1, <1>2, <1>3 DEF ProbeStep

LEMMA DyingTypes ==
    ASSUME ServiceTypeOK, NEW o \in Owners, Dies(o)
    PROVE  /\ server' \in [Owners -> ServerStates]
           /\ probe' \in [Probers -> ProbeStates]
           /\ queue' \in [Owners -> Seq(Requesters)]
           /\ conn' \in [Requesters -> Conns]
           /\ path' \in Places
<1>1. server' \in [Owners -> ServerStates]
    BY Breaks DEF ServiceTypeOK, ServerStates
<1>2. probe' \in [Probers -> ProbeStates]
    BY Breaks DEF ServiceTypeOK, ProbeStates
<1> QED BY <1>1, <1>2, Breaks DEF ServiceTypeOK

LEMMA ServerTypes ==
    ASSUME ServiceTypeOK, CallInv, NEW o \in Owners,
           \/ Opened(o) \/ Load(o) \/ Bind(o) \/ Serve(o) \/ CallEnds(o)
           \/ CloseSocket(o) \/ UnlinkListener(o) \/ Left(o) \/ Killed(o)
    PROVE  ServiceTypeOK'
<1>0. UNCHANGED <<at, handle, starts, use>>
    BY DEF Opened, Load, Bind, Serve, CallEnds, CloseSocket, UnlinkListener, Left, Killed
<1>1. CASE Dies(o)
    BY <1>0, <1>1, DyingTypes DEF ServiceTypeOK
<1>2. CASE Opened(o) /\ ~Dies(o)
    BY <1>0, <1>2 DEF Opened, ServiceTypeOK, ServerStates, ProbeStates
<1>3. CASE Load(o) /\ ~Dies(o)
    BY <1>0, <1>3 DEF Load, ServiceTypeOK, ServerStates
<1>4. CASE Bind(o) /\ ~Dies(o)
    <2>1. <<o, starts[o]>> \in Owners \X Nat
        BY DEF ServiceTypeOK
    <2>2. path' = <<o, starts[o]>> /\ UNCHANGED <<queue, conn, probe>>
        BY <1>4 DEF Bind, Listener
    <2>3. server' \in [Owners -> ServerStates]
        BY <1>4 DEF Bind, ServiceTypeOK, ServerStates
    <2> QED BY <1>0, <2>1, <2>2, <2>3 DEF ServiceTypeOK, Places
<1>5. CASE Serve(o)
    <2>1. server' \in [Owners -> ServerStates]
        BY <1>5 DEF Serve, ServiceTypeOK, ServerStates
    <2>2. queue' \in [Owners -> Seq(Requesters)] /\ conn' \in [Requesters -> Conns]
        BY <1>5, Replies DEF Serve, ServiceTypeOK
    <2> QED BY <1>5, <2>1, <2>2 DEF Serve, ServiceTypeOK
<1>6. CASE CallEnds(o)
    <2>1. server' \in [Owners -> ServerStates]
        BY <1>6 DEF CallEnds, ServiceTypeOK, ServerStates
    <2>2. queue[o] # <<>>
        BY <1>6 DEF CallEnds, CallInv
    <2> QED BY <1>6, <2>1, <2>2, Replies DEF CallEnds, ServiceTypeOK
<1>7. CASE CloseSocket(o)
    <2>1. server' \in [Owners -> ServerStates]
        BY <1>7 DEF CloseSocket, ServiceTypeOK, ServerStates
    <2> QED BY <1>7, <2>1, SocketCloses DEF CloseSocket, ServiceTypeOK
<1>8. CASE UnlinkListener(o) /\ ~Dies(o)
    BY <1>0, <1>8 DEF UnlinkListener, ServiceTypeOK, ServerStates, ProbeStates, Places
<1> QED BY <1>1, <1>2, <1>3, <1>4, <1>5, <1>6, <1>7, <1>8 DEF Left, Killed

LEMMA OwnerTypes ==
    ASSUME ServiceTypeOK, NEW o \in Owners,
           \/ BeginStart(o) \/ Spawn(o) \/ Ping(o) \/ Pong(o) \/ StartFails(o)
           \/ EndProcess(o) \/ Unlinked(o) \/ BeginStop(o) \/ Closed(o)
    PROVE  ServiceTypeOK'
<1>0. Owner(o) \in Requesters /\ Owner(o) \in Probers /\ use' = use
    BY Names DEF BeginStart, Spawn, Ping, Pong, StartFails, EndProcess, Unlinked, BeginStop, Closed
<1>1. at' \in [Owners -> CallStates]
    BY DEF BeginStart, Spawn, Ping, Pong, StartFails, EndProcess, Unlinked, BeginStop, Closed,
           SetCall, ServiceTypeOK, CallStates
<1>2. handle' \in [Owners -> BOOLEAN]
    BY DEF BeginStart, Spawn, Ping, Pong, StartFails, EndProcess, Unlinked, BeginStop, Closed,
           ServiceTypeOK
<1>3. starts' \in [Owners -> Nat]
    BY DEF BeginStart, Spawn, Ping, Pong, StartFails, EndProcess, Unlinked, BeginStop, Closed,
           ServiceTypeOK
<1>4. server' \in [Owners -> ServerStates] /\ probe' \in [Probers -> ProbeStates]
    <2>1. CASE Dies(o)
        BY <2>1, DyingTypes
    <2>2. CASE ~Dies(o)
        BY <2>2 DEF BeginStart, Spawn, Ping, Pong, StartFails, EndProcess, Unlinked, BeginStop,
                    Closed, ServiceTypeOK, ServerStates, ProbeStates
    <2> QED BY <2>1, <2>2
<1>5. path' = path
    BY Breaks DEF BeginStart, Spawn, Ping, Pong, StartFails, EndProcess, Unlinked, BeginStop, Closed
<1>6. queue' \in [Owners -> Seq(Requesters)] /\ conn' \in [Requesters -> Conns]
    <2>1. CASE \E cmd \in {"ping", "close"} : Connect(Owner(o), cmd)
        BY <1>0, <2>1, ConnectReaches
    <2>2. CASE Dies(o)
        BY <2>2, DyingTypes
    <2>3. CASE ~Dies(o) /\ ~\E cmd \in {"ping", "close"} : Connect(Owner(o), cmd)
        <3>1. queue' = queue
            BY <2>3 DEF BeginStart, Spawn, Ping, Pong, StartFails, EndProcess, Unlinked, BeginStop,
                        Closed
        <3>2. conn' = conn \/ conn' = [conn EXCEPT ![Owner(o)] = NoConn]
            BY <2>3 DEF BeginStart, Spawn, Ping, Pong, StartFails, EndProcess, Unlinked, BeginStop,
                        Closed
        <3> QED BY <3>1, <3>2, ConnTypes DEF ServiceTypeOK
    <2> QED BY <2>1, <2>2, <2>3
<1> QED BY <1>0, <1>1, <1>2, <1>3, <1>4, <1>5, <1>6 DEF ServiceTypeOK

LEMMA ClientTypes ==
    ASSUME ServiceTypeOK, NEW c \in Clients,
           GiveUp(c) \/ \E cmd \in {"call", "close"} : Send(c, cmd)
    PROVE  ServiceTypeOK'
<1>0. Client(c) \in Requesters
    BY Names
<1>1. CASE GiveUp(c)
    <2>1. conn[Client(c)] \in Conns
        BY <1>0 DEF ServiceTypeOK
    <2>2. Turned(conn[Client(c)], "gone") \in Conns
        BY <2>1, ConnTypes
    <2> QED BY <1>1, <2>2 DEF GiveUp, ServiceTypeOK
<1>2. ASSUME NEW cmd \in {"call", "close"}, Send(c, cmd) PROVE ServiceTypeOK'
    <2>1. CASE Connect(Client(c), cmd)
        BY <1>0, <1>2, <2>1, ConnectReaches DEF Send, ServiceTypeOK
    <2>2. CASE ~Connect(Client(c), cmd)
        <3>1. [NoConn EXCEPT !.state = "broken", !.cmd = cmd] \in Conns
            BY ConnTypes
        <3> QED BY <1>2, <2>2, <3>1 DEF Send, ServiceTypeOK
    <2> QED BY <2>1, <2>2
<1> QED BY <1>1, <1>2

LEMMA StepCases ==
    ASSUME PNext
    PROVE  \/ \E o \in Owners :
                \/ ProbeStep(Server(o)) \/ ProbeStep(Owner(o))
                \/ Opened(o) \/ Load(o) \/ Bind(o) \/ Serve(o) \/ CallEnds(o)
                \/ CloseSocket(o) \/ UnlinkListener(o) \/ Left(o) \/ Killed(o)
                \/ BeginStart(o) \/ Spawn(o) \/ Ping(o) \/ Pong(o) \/ StartFails(o)
                \/ EndProcess(o) \/ Unlinked(o) \/ BeginStop(o) \/ Closed(o)
           \/ \E c \in Clients : GiveUp(c) \/ \E cmd \in {"call", "close"} : Send(c, cmd)
BY DEF PNext, ServerStep, OwnerStep

LEMMA TypesStep ==
    ASSUME ServiceTypeOK, CallInv, [PNext]_pvars
    PROVE  ServiceTypeOK'
<1>1. CASE UNCHANGED pvars
    BY <1>1 DEF pvars, ServiceTypeOK
<1>2. CASE PNext
    BY <1>2, StepCases, Names, ProbeTypes, ServerTypes, OwnerTypes, ClientTypes
<1> QED BY <1>1, <1>2

-----------------------------------------------------------------------------
(* The request a process is busy with.                                     *)

CallOf(o) == queue[o] # <<>> /\ \E c \in Clients : Head(queue[o]) = Client(c)

\* Connections made, and processes that end, leave the request where it is.
LEMMA CallStays ==
    ASSUME ServiceTypeOK, CallInv,
           \/ \E r \in Requesters, cmd \in {"probe", "ping", "close", "call"} :
                /\ Connect(r, cmd) /\ server' = server
                /\ r \in Probers => cmd # "call"
           \/ \E o \in Owners : Dies(o)
    PROVE  CallInv'
<1>1. ASSUME NEW r \in Requesters, NEW cmd \in {"probe", "ping", "close", "call"},
             Connect(r, cmd), server' = server, r \in Probers => cmd # "call"
      PROVE  CallInv'
    <2>1. \A p \in Probers : conn'[p].cmd # "call"
        BY <1>1, ConnectReaches, Names DEF CallInv
    <2>2. \A q \in Owners :
            queue[q] # <<>> => queue'[q] # <<>> /\ Head(queue'[q]) = Head(queue[q])
        BY <1>1, ConnectReaches
    <2> QED BY <1>1, <2>1, <2>2 DEF CallInv
<1>2. ASSUME NEW o \in Owners, Dies(o) PROVE CallInv'
    <2>1. \A p \in Probers : conn'[p].cmd # "call"
        <3> SUFFICES ASSUME NEW p \in Probers PROVE conn'[p].cmd # "call"
            OBVIOUS
        <3>1. p \in Requesters /\ conn[p].cmd # "call"
            BY Names DEF CallInv
        <3>2. CASE p = Server(o)
            BY <1>2, <3>1, <3>2, ConnTypes, Names DEF Dies
        <3>3. CASE p # Server(o)
            BY <1>2, <3>1, <3>3, Breaks
        <3> QED BY <3>2, <3>3
    <2>2. ASSUME NEW q \in Owners, server'[q] = "busy"
          PROVE  queue'[q] # <<>> /\ \E c \in Clients : Head(queue'[q]) = Client(c)
        <3>1. q # o /\ server[q] = "busy"
            BY <1>2, <2>2, Breaks DEF ServiceTypeOK
        <3>2. PICK c \in Clients : queue[q] # <<>> /\ Head(queue[q]) = Client(c)
            BY <3>1 DEF CallInv
        <3>3. Head(queue[q]) # Server(o)
            BY <3>2, Names
        <3> QED BY <1>2, <3>1, <3>2, <3>3, Breaks
    <2> QED BY <2>1, <2>2 DEF CallInv
<1> QED BY <1>1, <1>2

LEMMA CallStep ==
    ASSUME ServiceTypeOK, CallInv, [PNext]_pvars
    PROVE  CallInv'
<1>1. CASE UNCHANGED pvars
    BY <1>1 DEF pvars, CallInv
<1>2. CASE \E o \in Owners : Dies(o)
    BY <1>2, CallStays
\* Nothing is taken from a queue, and no process becomes busy.
<1>3. CASE /\ queue' = queue
           /\ \A o \in Owners : server'[o] = "busy" => server[o] = "busy"
           /\ \A p \in Probers : conn'[p].cmd = "call" => conn[p].cmd = "call"
    BY <1>3 DEF CallInv
<1>4. ASSUME NEW p \in Probers, ProbeStep(p) PROVE CallInv'
    <2>1. server' = server /\ p \in Requesters
        BY <1>4, Names DEF ProbeStep, LookAtPath, Probed, RemovePath
    <2>2. CASE Connect(p, "probe")
        BY <2>1, <2>2, CallStays
    <2>3. CASE ~Connect(p, "probe")
        <3>1. queue' = queue
            BY <1>4, <2>3 DEF ProbeStep, LookAtPath, Probed, RemovePath
        <3>2. conn' = conn \/ conn' = [conn EXCEPT ![p] = NoConn]
            BY <1>4, <2>3 DEF ProbeStep, LookAtPath, Probed, RemovePath
        <3>3. \A q \in Probers : conn'[q].cmd = "call" => conn[q].cmd = "call"
            BY <3>2, <2>1, Names, ConnTypes DEF ServiceTypeOK
        <3> QED BY <1>3, <2>1, <3>1, <3>3
    <2> QED BY <2>2, <2>3
<1>5. ASSUME NEW o \in Owners, Serve(o) PROVE CallInv'
    <2>1. queue[o] # <<>> /\ \A q \in Owners : q # o => server'[q] = server[q]
        BY <1>5 DEF Serve, ServiceTypeOK
    <2>2. PICK r \in Requesters : r = Head(queue[o])
        BY <2>1, HeadTailProperties DEF ServiceTypeOK
    <2>3. CASE conn[r].cmd = "call" /\ UNCHANGED <<queue, conn>>
        <3>1. \E c \in Clients : r = Client(c)
            BY <2>3, <2>2 DEF CallInv, Requesters
        <3> QED BY <2>1, <2>2, <2>3, <3>1 DEF CallInv
    <2>4. CASE Reply(o, r) /\ server'[o] # "busy"
        <3>1. \A p \in Probers : conn'[p].cmd # "call"
            BY <2>1, <2>2, <2>4, Replies, Names DEF CallInv
        <3>2. \A q \in Owners : q # o => queue'[q] = queue[q]
            BY <2>4 DEF Reply, ServiceTypeOK
        <3> QED BY <2>1, <2>4, <3>1, <3>2 DEF CallInv
    <2>5. \/ conn[r].cmd = "call" /\ UNCHANGED <<queue, conn>>
          \/ Reply(o, r) /\ server'[o] # "busy"
        BY <1>5, <2>2 DEF Serve, ServiceTypeOK
    <2> QED BY <2>3, <2>4, <2>5
<1>6. ASSUME NEW o \in Owners, CallEnds(o) PROVE CallInv'
    <2>1. queue[o] # <<>> /\ server' = [server EXCEPT ![o] = "accepting"]
        BY <1>6 DEF CallEnds, CallInv
    <2>2. \A p \in Probers : conn'[p].cmd # "call"
        BY <1>6, <2>1, Replies, Names DEF CallInv, CallEnds
    <2>3. \A q \in Owners : q # o => queue'[q] = queue[q]
        BY <1>6 DEF CallEnds, Reply, ServiceTypeOK
    <2> QED BY <2>1, <2>2, <2>3 DEF CallInv, ServiceTypeOK
<1>7. ASSUME NEW o \in Owners, CloseSocket(o) PROVE CallInv'
    <2>1. server' = [server EXCEPT ![o] = "leaving"]
        BY <1>7 DEF CloseSocket
    <2>2. \A p \in Probers : conn'[p].cmd # "call"
        BY <1>7, SocketCloses, Names DEF CallInv
    <2>3. \A q \in Owners : q # o => queue'[q] = queue[q]
        BY <1>7 DEF CloseSocket, ServiceTypeOK
    <2> QED BY <2>1, <2>2, <2>3 DEF CallInv, ServiceTypeOK
<1>8. ASSUME NEW o \in Owners, ~Dies(o),
             Opened(o) \/ Load(o) \/ Bind(o) \/ UnlinkListener(o) \/ Left(o) \/ Killed(o)
      PROVE  CallInv'
    <2>1. UNCHANGED <<queue, conn>>
        BY <1>8 DEF Opened, Load, Bind, UnlinkListener, Left, Killed
    <2>2. \A q \in Owners : server'[q] = "busy" => server[q] = "busy"
        BY <1>8 DEF Opened, Load, Bind, UnlinkListener, Left, Killed, ServiceTypeOK
    <2> QED BY <1>3, <2>1, <2>2
<1>9. ASSUME NEW o \in Owners, ~Dies(o),
             \/ BeginStart(o) \/ Spawn(o) \/ Ping(o) \/ Pong(o) \/ StartFails(o)
             \/ EndProcess(o) \/ Unlinked(o) \/ BeginStop(o) \/ Closed(o)
      PROVE  CallInv'
    <2>0. Owner(o) \in Requesters
        BY Names
    <2>1. CASE \E cmd \in {"ping", "close"} : Connect(Owner(o), cmd) /\ server' = server
        BY <2>0, <2>1, CallStays
    <2>2. CASE ~\E cmd \in {"ping", "close"} : Connect(Owner(o), cmd) /\ server' = server
        <3>1. queue' = queue
            BY <1>9, <2>2 DEF BeginStart, Spawn, Ping, Pong, StartFails, EndProcess, Unlinked,
                              BeginStop, Closed
        <3>2. conn' = conn \/ conn' = [conn EXCEPT ![Owner(o)] = NoConn]
            BY <1>9, <2>2 DEF BeginStart, Spawn, Ping, Pong, StartFails, EndProcess, Unlinked,
                              BeginStop, Closed
        <3>3. \A q \in Probers : conn'[q].cmd = "call" => conn[q].cmd = "call"
            BY <2>0, <3>2, Names, ConnTypes DEF ServiceTypeOK
        <3>4. \A q \in Owners : server'[q] = "busy" => server[q] = "busy"
            BY <1>9 DEF BeginStart, Spawn, Ping, Pong, StartFails, EndProcess, Unlinked,
                        BeginStop, Closed, ServiceTypeOK
        <3> QED BY <1>3, <3>1, <3>3, <3>4
    <2> QED BY <2>1, <2>2
<1>10. ASSUME NEW c \in Clients, GiveUp(c) PROVE CallInv'
    <2>1. UNCHANGED <<queue, server>> /\ \A q \in Probers : conn'[q] = conn[q]
        BY <1>10, Names DEF GiveUp, ServiceTypeOK, Probers, Owner, Server, Client
    <2> QED BY <1>3, <2>1
<1>11. ASSUME NEW c \in Clients, NEW cmd \in {"call", "close"}, Send(c, cmd) PROVE CallInv'
    <2>0. Client(c) \in Requesters /\ Client(c) \notin Probers /\ server' = server
        BY <1>11 DEF Send, Requesters, Probers, Owner, Server, Client
    <2>1. CASE Connect(Client(c), cmd)
        BY <2>0, <2>1, CallStays
    <2>2. CASE ~Connect(Client(c), cmd)
        <3>1. queue' = queue /\ \A q \in Probers : conn'[q] = conn[q]
            BY <1>11, <2>0, <2>2, Names DEF Send, ServiceTypeOK
        <3> QED BY <1>3, <2>0, <3>1
    <2> QED BY <2>1, <2>2
<1> QED BY <1>1, <1>2, <1>4, <1>5, <1>6, <1>7, <1>8, <1>9, <1>10, <1>11, StepCases, Names

-----------------------------------------------------------------------------
(* Owners and their processes, however they are used.                      *)

\* What a step of a process, or its end from outside, leaves alone.
LEMMA ProcessSteps ==
    ASSUME ServiceTypeOK, NEW o \in Owners,
           \/ Opened(o) \/ Load(o) \/ Bind(o) \/ Serve(o) \/ CallEnds(o)
           \/ CloseSocket(o) \/ UnlinkListener(o) \/ Left(o) \/ Killed(o)
    PROVE  /\ UNCHANGED <<at, handle, starts, use>> /\ server[o] # "off"
           /\ \A q \in Owners : q # o => server'[q] = server[q]
           /\ \A p \in Probers : p # Server(o) => probe'[p] = probe[p]
<1>1. UNCHANGED <<at, handle, starts, use>>
    BY DEF Opened, Load, Bind, Serve, CallEnds, CloseSocket, UnlinkListener, Left, Killed
<1>2. server[o] # "off"
    BY DEF Opened, Load, Bind, Serve, CallEnds, CloseSocket, UnlinkListener, Left, Killed
<1>3. /\ server' = [server EXCEPT ![o] = server'[o]]
      /\ probe' = [probe EXCEPT ![Server(o)] = probe'[Server(o)]]
    <2>1. CASE Dies(o)
        BY <2>1, Breaks, Names DEF ServiceTypeOK
    <2>2. CASE ~Dies(o)
        BY <2>2, Names DEF Opened, Load, Bind, Serve, CallEnds, CloseSocket, UnlinkListener, Left,
                           Killed, ServiceTypeOK
    <2> QED BY <2>1, <2>2
<1> QED BY <1>1, <1>2, <1>3, Names DEF ServiceTypeOK

LEMMA ProbeSteps ==
    ASSUME ServiceTypeOK, NEW p \in Probers, ProbeStep(p)
    PROVE  /\ UNCHANGED <<at, handle, starts, server, use>> /\ probe[p] \in {"look", "asking", "stale"}
           /\ \A q \in Probers : q # p => probe'[q] = probe[q]
<1>1. UNCHANGED <<at, handle, starts, server, use>>
    BY DEF ProbeStep, LookAtPath, Probed, RemovePath
<1>2. probe[p] \in {"look", "asking", "stale"}
    BY DEF ProbeStep, LookAtPath, Probed, RemovePath
<1>3. probe' = [probe EXCEPT ![p] = probe'[p]]
    BY DEF ProbeStep, LookAtPath, Probed, RemovePath, ServiceTypeOK
<1> QED BY <1>1, <1>2, <1>3 DEF ServiceTypeOK

\* What a step of an owner leaves alone.
LEMMA OwnerSteps ==
    ASSUME ServiceTypeOK, NEW o \in Owners,
           \/ BeginStart(o) \/ Spawn(o) \/ Ping(o) \/ Pong(o) \/ StartFails(o)
           \/ EndProcess(o) \/ Unlinked(o) \/ BeginStop(o) \/ Closed(o)
    PROVE  /\ UNCHANGED use /\ UNCHANGED path
           /\ \A q \in Owners : q # o =>
                /\ at'[q] = at[q] /\ handle'[q] = handle[q] /\ starts'[q] = starts[q]
                /\ server'[q] = server[q]
           /\ \A p \in Probers : p # Owner(o) /\ p # Server(o) => probe'[p] = probe[p]
<1>1. UNCHANGED use
    BY DEF BeginStart, Spawn, Ping, Pong, StartFails, EndProcess, Unlinked, BeginStop, Closed
<1>2. UNCHANGED path
    BY DEF BeginStart, Spawn, Ping, Pong, StartFails, EndProcess, Unlinked, BeginStop, Closed, Dies
<1>3. /\ at' = [at EXCEPT ![o] = at'[o]]
      /\ handle' = [handle EXCEPT ![o] = handle'[o]]
      /\ starts' = [starts EXCEPT ![o] = starts'[o]]
    BY DEF BeginStart, Spawn, Ping, Pong, StartFails, EndProcess, Unlinked, BeginStop, Closed,
           SetCall, ServiceTypeOK
<1>4. \A q \in Owners : q # o => server'[q] = server[q]
    <2>1. CASE Dies(o)
        BY <2>1, Breaks DEF ServiceTypeOK
    <2>2. CASE ~Dies(o)
        BY <2>2 DEF BeginStart, Spawn, Ping, Pong, StartFails, EndProcess, Unlinked, BeginStop,
                    Closed, ServiceTypeOK
    <2> QED BY <2>1, <2>2
<1>5. \A p \in Probers : p # Owner(o) /\ p # Server(o) => probe'[p] = probe[p]
    <2>1. CASE Dies(o)
        BY <2>1, Breaks DEF ServiceTypeOK
    <2>2. CASE ~Dies(o)
        BY <2>2 DEF BeginStart, Spawn, Ping, Pong, StartFails, EndProcess, Unlinked, BeginStop,
                    Closed, ServiceTypeOK
    <2> QED BY <2>1, <2>2
<1> QED BY <1>1, <1>2, <1>3, <1>4, <1>5 DEF ServiceTypeOK

LEMMA HandleStep ==
    ASSUME ServiceTypeOK, \A q \in Owners : HandleInv(q), [PNext]_pvars
    PROVE  \A q \in Owners : HandleInv(q)'
<1>1. CASE UNCHANGED pvars
    BY <1>1 DEF pvars, HandleInv
\* The owner and its call stay, the process does not come to life, no probe of it begins.
<1>2. ASSUME NEW q \in Owners, at'[q] = at[q], handle'[q] = handle[q],
             server[q] = "off" => server'[q] = "off",
             probe[Owner(q)] = "off" => probe'[Owner(q)] = "off",
             \/ probe'[Server(q)] = "off"
             \/ server'[q] = server[q] /\ probe[Server(q)] # "off"
      PROVE  HandleInv(q)'
    BY <1>2 DEF HandleInv
<1>3. ASSUME NEW p \in Probers, ProbeStep(p), NEW q \in Owners PROVE HandleInv(q)'
    <2>1. probe[Owner(q)] = "off" => probe'[Owner(q)] = "off"
        BY <1>3, ProbeSteps, Names
    <2>2. probe'[Server(q)] = "off" \/ probe[Server(q)] # "off"
        BY <1>3, ProbeSteps, Names
    <2> QED BY <1>2, <1>3, <2>1, <2>2, ProbeSteps
<1>4. ASSUME NEW o \in Owners,
             \/ Opened(o) \/ Load(o) \/ Bind(o) \/ Serve(o) \/ CallEnds(o)
             \/ CloseSocket(o) \/ UnlinkListener(o) \/ Left(o) \/ Killed(o),
             NEW q \in Owners
      PROVE  HandleInv(q)'
    <2>1. probe'[Owner(q)] = probe[Owner(q)]
        BY <1>4, ProcessSteps, Names
    <2>2. at' = at /\ handle' = handle /\ (server[q] = "off" => server'[q] = "off")
        BY <1>4, ProcessSteps
    <2>3. CASE q # o
        <3>1. server'[q] = server[q] /\ probe'[Server(q)] = probe[Server(q)]
            BY <1>4, <2>3, ProcessSteps, Names
        <3> QED BY <1>2, <2>1, <2>2, <3>1
    <2>4. CASE q = o /\ Dies(o)
        <3>1. probe'[Server(q)] = "off"
            BY <2>4, Breaks, Names DEF ServiceTypeOK
        <3> QED BY <1>2, <2>1, <2>2, <3>1
    <2>5. CASE q = o /\ ~Dies(o) /\ UnlinkListener(o)
        <3>1. server'[o] = "left"
            BY <2>5 DEF UnlinkListener, ServiceTypeOK
        <3> QED BY <2>1, <2>2, <2>5, <3>1 DEF HandleInv, UnlinkListener
    <2>6. CASE q = o /\ ~Dies(o) /\ ~UnlinkListener(o)
        <3>1. \/ probe'[Server(o)] = "off"
              \/ probe'[Server(o)] = probe[Server(o)] /\ server[o] \notin {"opening", "left"}
            BY <1>4, <2>6, Names DEF Opened, Load, Bind, Serve, CallEnds, CloseSocket, Left, Killed,
                                     ServiceTypeOK
        <3>2. probe'[Server(o)] = "off"
            BY <3>1 DEF HandleInv
        <3> QED BY <1>2, <2>1, <2>2, <2>6, <3>2
    <2> QED BY <2>3, <2>4, <2>5, <2>6
<1>5. ASSUME NEW o \in Owners,
             \/ BeginStart(o) \/ Spawn(o) \/ Ping(o) \/ Pong(o) \/ StartFails(o)
             \/ EndProcess(o) \/ Unlinked(o) \/ BeginStop(o) \/ Closed(o),
             NEW q \in Owners
      PROVE  HandleInv(q)'
    <2>0. Owner(o) \in Probers /\ Server(o) \in Probers /\ Owner(o) # Server(o)
        BY Names
    <2>1. CASE q # o
        <3>1. probe'[Owner(q)] = probe[Owner(q)]
            BY <1>5, <2>1, OwnerSteps, Names
        <3>2. at'[q] = at[q] /\ handle'[q] = handle[q] /\ server'[q] = server[q]
            BY <1>5, <2>1, OwnerSteps
        <3>3. probe'[Server(q)] = probe[Server(q)]
            BY <1>5, <2>1, OwnerSteps, Names
        <3> QED BY <1>2, <3>1, <3>2, <3>3
    <2>2. CASE BeginStart(o) /\ q = o
        BY <2>0, <2>2 DEF BeginStart, SetCall, HandleInv, ServiceTypeOK
    <2>3. CASE Spawn(o) /\ q = o
        BY <2>0, <2>3 DEF Spawn, SetCall, HandleInv, ServiceTypeOK
    <2>4. CASE (Ping(o) \/ Pong(o) \/ StartFails(o) \/ BeginStop(o) \/ Closed(o)) /\ q = o
        BY <2>0, <2>4 DEF Ping, Pong, StartFails, BeginStop, Closed, SetCall, HandleInv, ServiceTypeOK
    <2>5. CASE EndProcess(o) /\ q = o
        <3>1. CASE Dies(o) /\ at' = at /\ handle' = handle
            BY <2>0, <2>5, <3>1, Breaks DEF HandleInv, ServiceTypeOK
        <3>2. CASE ~(Dies(o) /\ at' = at)
            BY <2>0, <2>5, <3>2 DEF EndProcess, SetCall, HandleInv, ServiceTypeOK
        <3> QED BY <2>5, <3>1, <3>2 DEF EndProcess
    <2>6. CASE Unlinked(o) /\ q = o
        <3>1. /\ at[o] = "unlinking" /\ at'[o] = "idle" /\ server'[o] = server[o]
              /\ probe'[Owner(o)] = "off" /\ probe'[Server(o)] = probe[Server(o)]
            BY <2>0, <2>6 DEF Unlinked, SetCall, ServiceTypeOK
        <3> QED BY <2>6, <3>1 DEF HandleInv
    <2> QED BY <1>5, <2>1, <2>2, <2>3, <2>4, <2>5, <2>6
<1>6. ASSUME NEW c \in Clients, NEW q \in Owners,
             GiveUp(c) \/ \E cmd \in {"call", "close"} : Send(c, cmd)
      PROVE  HandleInv(q)'
    <2>1. UNCHANGED <<at, handle, server, probe>>
        BY <1>6 DEF GiveUp, Send
    <2> QED BY <1>2, <2>1
<1> QED BY <1>1, <1>3, <1>4, <1>5, <1>6, StepCases, Names

-----------------------------------------------------------------------------
(* As long as the calls of owners do not overlap.                          *)

LEMMA OneProcess ==
    ASSUME ServiceInv, use.discipline # "any"
    PROVE  /\ \A o \in Owners : Listener(o) # NoPath
           /\ \A o, q \in Owners : Listener(o) = Listener(q) => o = q
           /\ \A o, q \in Owners : handle[o] /\ handle[q] => o = q
           /\ \A o, q \in Owners : at[o] # "idle" /\ at[q] # "idle" => o = q
           /\ \A o \in Owners : server[o] # "off" => handle[o] /\ at[o] # "unlinking"
           /\ \A o \in Owners : at[o] \notin {"idle", "starting"} => handle[o]
           /\ Reachable => \E o \in Owners : path = Listener(o) /\ Listens(o) /\ handle[o]
           /\ \A o \in Owners : server[o] \in {"accepting", "busy"} => Reachable
<1>1. \A o \in Owners : Listener(o) # NoPath
    <2> SUFFICES ASSUME NEW o \in Owners PROVE Listener(o) # NoPath
        OBVIOUS
    <2>1. <<o, starts[o]>> \in Owners \X Nat
        BY DEF ServiceInv, ServiceTypeOK
    <2> QED BY <2>1, ServiceAssumption DEF Listener
<1>2. \A o, q \in Owners : Listener(o) = Listener(q) => o = q
    BY DEF Listener
<1>3. \A o \in Owners : server[o] # "off" => handle[o] /\ at[o] # "unlinking"
    BY DEF ServiceInv, HandleInv
<1>4. \A o \in Owners : at[o] \notin {"idle", "starting"} => handle[o]
    BY DEF ServiceInv, HandleInv
<1>5. Reachable => \E o \in Owners : path = Listener(o) /\ Listens(o) /\ handle[o]
    <2> SUFFICES ASSUME Reachable PROVE \E o \in Owners : path = Listener(o) /\ Listens(o) /\ handle[o]
        OBVIOUS
    <2>1. path \in Owners \X Nat
        BY DEF Reachable, ServiceInv, ServiceTypeOK, Places
    <2>2. PICK o \in Owners, n \in Nat : path = <<o, n>> /\ path[1] = o
        BY <2>1
    <2>3. path = Listener(o) /\ Listens(o)
        BY <2>2 DEF Reachable
    <2> QED BY <1>3, <2>3 DEF Listens
<1>6. \A o, q \in Owners : handle[o] /\ handle[q] => o = q
    BY DEF ServiceInv, OneServerInv, AloneInv
<1>7. \A o, q \in Owners : at[o] # "idle" /\ at[q] # "idle" => o = q
    BY DEF ServiceInv, OneServerInv, AloneInv
<1>8. ASSUME NEW o \in Owners, server[o] \in {"accepting", "busy"} PROVE Reachable
    <2>1. path = Listener(o) /\ Listens(o)
        BY <1>8 DEF ServiceInv, OneServerInv, PathInv, Listens
    <2>2. path[1] = o
        BY <2>1 DEF Listener
    <2> QED BY <1>1, <2>1, <2>2 DEF Reachable
<1> QED BY <1>1, <1>2, <1>3, <1>4, <1>5, <1>6, <1>7, <1>8

\* While one owner starts, another has a process only if uses are guarded, and then
\* its server serves.
LEMMA StartsMeet ==
    ASSUME ServiceInv, use.discipline # "any",
           NEW o \in Owners, at[o] = "starting", NEW q \in Owners, handle[q]
    PROVE  /\ o # q /\ use.discipline = "guarded" /\ at[q] = "idle"
           /\ server[q] \in {"accepting", "busy"} /\ path = Listener(q) /\ Reachable
<1>1. o # q
    BY DEF ServiceInv, HandleInv
<1>2. at[q] = "idle"
    BY <1>1, OneProcess
<1>3. use.discipline = "guarded"
    <2>1. use.discipline \in {"turns", "guarded", "any"}
        BY ServiceAssumption DEF ServiceInv, ServiceTypeOK
    <2>2. use.discipline # "turns"
        BY <1>1 DEF ServiceInv, OneServerInv, AloneInv
    <2> QED BY <2>1, <2>2
<1>4. server[q] \in {"accepting", "busy"}
    BY <1>2, <1>3 DEF ServiceInv, OneServerInv, GuardedInv, Up, OnlyStopsClose, Serves
<1>5. path = Listener(q)
    BY <1>4 DEF ServiceInv, OneServerInv, PathInv
<1> QED BY <1>1, <1>2, <1>3, <1>4, <1>5, OneProcess

\* A guarded server that another owner meets, or that a start waits for, goes on.
LEMMA Served ==
    ASSUME ServiceInv, use.discipline = "guarded", NEW o \in Owners, at[o] # "closing", Serve(o)
    PROVE  server'[o] \in {"accepting", "busy"}
<1>1. queue[o] # <<>> /\ server[o] = "accepting" /\ handle[o]
    BY OneProcess DEF Serve
<1>2. PICK r \in Requesters : r = Head(queue[o])
    BY <1>1, HeadTailProperties DEF ServiceInv, ServiceTypeOK
<1>3. conn[r].cmd # "close"
    <2> SUFFICES ASSUME conn[r].cmd = "close" PROVE FALSE
        OBVIOUS
    <2>1. PICK q \in Owners : at[q] = "closing"
        BY DEF ServiceInv, OneServerInv, GuardedInv, OnlyStopsClose, Serves
    <2>2. q = o
        BY <1>1, <2>1, OneProcess
    <2> QED BY <2>1, <2>2
<1> QED BY <1>1, <1>2, <1>3 DEF Serve, ServiceInv, ServiceTypeOK

LEMMA AloneStep ==
    ASSUME ServiceInv, use.discipline # "any", PNext
    PROVE  AloneInv'
<1>0. AloneInv /\ ServiceTypeOK
    BY DEF ServiceInv, OneServerInv
<1>1. CASE UNCHANGED <<at, handle, use>>
    BY <1>0, <1>1 DEF AloneInv
<1>2. ASSUME NEW p \in Probers, ProbeStep(p) PROVE AloneInv'
    BY <1>0, <1>1, <1>2, ProbeSteps
<1>3. ASSUME NEW o \in Owners,
             \/ Opened(o) \/ Load(o) \/ Bind(o) \/ Serve(o) \/ CallEnds(o)
             \/ CloseSocket(o) \/ UnlinkListener(o) \/ Left(o) \/ Killed(o)
      PROVE  AloneInv'
    BY <1>0, <1>1, <1>3, ProcessSteps
<1>4. ASSUME NEW c \in Clients, GiveUp(c) \/ \E cmd \in {"call", "close"} : Send(c, cmd)
      PROVE  AloneInv'
    BY <1>1, <1>4 DEF GiveUp, Send
<1>5. ASSUME NEW o \in Owners, BeginStart(o) PROVE AloneInv'
    <2>1. /\ at' = [at EXCEPT ![o] = "starting"] /\ handle' = handle /\ use' = use
          /\ \A q \in Owners : q # o => at[q] = "idle" /\ (use.discipline = "turns" => ~handle[q])
        BY <1>5 DEF BeginStart, SetCall, MayBegin
    <2> QED BY <1>0, <2>1 DEF AloneInv, ServiceTypeOK
<1>6. ASSUME NEW o \in Owners, BeginStop(o) PROVE AloneInv'
    <2>1. /\ handle' = handle /\ use' = use /\ at'[o] # "starting"
          /\ \A q \in Owners : q # o => at[q] = "idle" /\ at'[q] = "idle"
        BY <1>0, <1>6 DEF BeginStop, SetCall, MayBegin, ServiceTypeOK
    <2> QED BY <1>0, <2>1 DEF AloneInv
<1>7. ASSUME NEW o \in Owners, Spawn(o) PROVE AloneInv'
    <2>1. /\ \A q \in Owners : q # o => at[q] = "idle" /\ at'[q] = "idle" /\ handle'[q] = handle[q]
          /\ at'[o] # "starting" /\ use' = use
        BY <1>0, <1>7, OneProcess, OwnerSteps DEF Spawn, SetCall, ServiceTypeOK
    <2>2. handle'[o] => handle[o] \/ \A q \in Owners : ~handle[q]
        BY <1>0, <1>7 DEF Spawn, ServiceInv, OneServerInv, ProbeInv, StartProbe, EndProbe
    <2> QED BY <1>0, <2>1, <2>2 DEF AloneInv
<1>8. ASSUME NEW o \in Owners,
             Ping(o) \/ Pong(o) \/ StartFails(o) \/ EndProcess(o) \/ Unlinked(o) \/ Closed(o)
      PROVE  AloneInv'
    <2>1. at[o] \notin {"idle", "starting"} /\ at'[o] # "starting"
        BY <1>0, <1>8 DEF Ping, Pong, StartFails, EndProcess, Unlinked, Closed, SetCall, ServiceTypeOK
    <2>2. /\ \A q \in Owners : q # o => at[q] = "idle" /\ at'[q] = "idle" /\ handle'[q] = handle[q]
          /\ use' = use
        BY <1>0, <1>8, <2>1, OneProcess, OwnerSteps
    <2>3. handle[o] /\ \A q \in Owners : q # o => ~handle[q]
        BY <2>1, OneProcess
    <2> QED BY <1>0, <2>1, <2>2, <2>3 DEF AloneInv
<1> QED BY <1>2, <1>3, <1>4, <1>5, <1>6, <1>7, <1>8, StepCases, Names

LEMMA PathStep ==
    ASSUME ServiceInv, use.discipline # "any", PNext
    PROVE  PathInv'
<1>0. PathInv /\ ServiceTypeOK
    BY DEF ServiceInv, OneServerInv
\* The owner of the process stays, and the path as the process left it.
<1>1. ASSUME UNCHANGED <<path, starts>>,
             \A o \in Owners : handle[o] => handle'[o],
             \A o \in Owners :
                /\ server'[o] \in {"opening", "loading", "binding", "left"}
                    => server[o] \in {"opening", "loading", "binding", "left"}
                /\ server'[o] \in {"accepting", "busy", "ending", "leaving"}
                    => server[o] \in {"accepting", "busy", "ending", "leaving"}
      PROVE  PathInv'
    <2>1. \A o \in Owners : Listener(o)' = Listener(o)
        BY <1>1 DEF Listener
    <2> QED BY <1>0, <1>1, <2>1 DEF PathInv
\* Only this process may run.
<1>2. ASSUME NEW o \in Owners, handle[o] PROVE \A q \in Owners : q # o => server[q] = "off"
    BY <1>2, OneProcess
<1>3. ASSUME NEW p \in Probers, ProbeStep(p) PROVE PathInv'
    <2>1. UNCHANGED <<handle, starts, server>>
        BY <1>0, <1>3, ProbeSteps
    <2>2. CASE path' = path
        BY <1>1, <2>1, <2>2
    <2>3. CASE RemovePath(p)
        <3>1. PICK o \in Owners : p = Owner(o) \/ p = Server(o)
            BY DEF Probers
        <3>2. p # Server(o) /\ p = Owner(o) /\ at[o] = "unlinking"
            BY <2>3, <3>1 DEF RemovePath, ServiceInv, HandleInv, OneServerInv, ProbeInv,
                                 StartProbe, EndProbe
        <3>3. server[o] = "off" /\ handle[o]
            BY <3>2, OneProcess
        <3>4. \A q \in Owners : server[q] = "off"
            BY <1>2, <3>3
        <3> QED BY <2>1, <2>3, <3>4 DEF RemovePath, PathInv
    <2> QED BY <1>3, <2>2, <2>3 DEF ProbeStep, LookAtPath, Probed
<1>4. ASSUME NEW o \in Owners, Bind(o) PROVE PathInv'
    <2>1. CASE ~Dies(o)
        <3>1. /\ server[o] = "binding" /\ handle' = handle /\ starts' = starts
              /\ path' = Listener(o) /\ server' = [server EXCEPT ![o] = "accepting"]
            BY <1>4, <2>1 DEF Bind
        <3>2. handle[o] /\ Listener(o)' = Listener(o)
            BY <3>1, OneProcess DEF Listener
        <3> QED BY <1>0, <1>2, <3>1, <3>2 DEF PathInv, ServiceTypeOK
    <2>2. CASE Dies(o)
        <3>1. UNCHANGED <<path, starts, handle>> /\ server' = [server EXCEPT ![o] = "off"]
            BY <1>0, <1>4, <2>2, Breaks DEF Bind
        <3> QED BY <1>0, <1>1, <3>1 DEF ServiceTypeOK
    <2> QED BY <2>1, <2>2
<1>5. ASSUME NEW o \in Owners, UnlinkListener(o) PROVE PathInv'
    <2>1. CASE ~Dies(o)
        <3>1. /\ server[o] = "leaving" /\ handle' = handle /\ starts' = starts
              /\ path' = NoPath /\ server' = [server EXCEPT ![o] = "left"]
            BY <1>5, <2>1 DEF UnlinkListener
        <3>2. handle[o]
            BY <3>1, OneProcess
        <3> QED BY <1>0, <1>2, <3>1, <3>2 DEF PathInv, ServiceTypeOK
    <2>2. CASE Dies(o)
        <3>1. UNCHANGED <<path, starts, handle>> /\ server' = [server EXCEPT ![o] = "off"]
            BY <1>0, <1>5, <2>2, Breaks DEF UnlinkListener
        <3> QED BY <1>0, <1>1, <3>1 DEF ServiceTypeOK
    <2> QED BY <2>1, <2>2
<1>6. ASSUME NEW o \in Owners,
             Opened(o) \/ Load(o) \/ Serve(o) \/ CallEnds(o) \/ CloseSocket(o) \/ Left(o) \/ Killed(o)
      PROVE  PathInv'
    <2>1. UNCHANGED <<path, handle, starts>>
        BY <1>6 DEF Opened, Load, Serve, CallEnds, CloseSocket, Left, Killed, Dies
    <2>2. \/ server'[o] = "off"
          \/ server[o] = "opening" /\ server'[o] = "loading"
          \/ server[o] = "loading" /\ server'[o] = "binding"
          \/ /\ server[o] \in {"accepting", "busy", "ending"}
             /\ server'[o] \in {"accepting", "busy", "ending", "leaving"}
        <3>1. CASE Dies(o)
            BY <1>0, <3>1, Breaks DEF ServiceTypeOK
        <3>2. CASE ~Dies(o)
            BY <1>0, <1>6, <3>2 DEF Opened, Load, Serve, CallEnds, CloseSocket, Left, Killed,
                                    ServiceTypeOK
        <3> QED BY <3>1, <3>2
    <2>3. \A q \in Owners : q # o => server'[q] = server[q]
        BY <1>0, <1>6, ProcessSteps
    <2> QED BY <1>1, <2>1, <2>2, <2>3
<1>7. ASSUME NEW o \in Owners, Spawn(o) PROVE PathInv'
    <2>1. CASE probe[Owner(o)] = "done"
        <3>1. /\ \A q \in Owners : ~handle[q] /\ server[q] = "off"
              /\ path' = path /\ server' = [server EXCEPT ![o] = "opening"]
            BY <1>7, <2>1, OneProcess
               DEF Spawn, ServiceInv, OneServerInv, ProbeInv, StartProbe, EndProbe
        <3>2. path = NoPath
            BY <1>0, <3>1 DEF PathInv
        <3> QED BY <1>0, <3>1, <3>2 DEF PathInv, ServiceTypeOK
    <2>2. CASE probe[Owner(o)] # "done"
        BY <1>1, <1>7, <2>2 DEF Spawn
    <2> QED BY <2>1, <2>2
<1>8. ASSUME NEW o \in Owners, Unlinked(o) PROVE PathInv'
    <2>1. probe[Owner(o)] = "done" /\ path = NoPath /\ path' = path /\ server' = server
        BY <1>8 DEF Unlinked, ServiceInv, OneServerInv, ProbeInv, StartProbe, EndProbe
    <2>2. at[o] = "unlinking" /\ handle[o] /\ server[o] = "off"
        BY <1>8, OneProcess DEF Unlinked
    <2>3. \A q \in Owners : server[q] = "off"
        BY <1>2, <2>2
    <2> QED BY <2>1, <2>3 DEF PathInv
<1>9. ASSUME NEW o \in Owners,
             \/ BeginStart(o) \/ BeginStop(o) \/ Ping(o) \/ Pong(o) \/ StartFails(o)
             \/ EndProcess(o) \/ Closed(o)
      PROVE  PathInv'
    <2>1. UNCHANGED <<path, handle, starts>>
        BY <1>9 DEF BeginStart, BeginStop, Ping, Pong, StartFails, EndProcess, Closed, Dies
    <2>2. server' = server \/ server' = [server EXCEPT ![o] = "off"]
        BY <1>9 DEF BeginStart, BeginStop, Ping, Pong, StartFails, EndProcess, Closed, Dies
    <2> QED BY <1>0, <1>1, <2>1, <2>2 DEF ServiceTypeOK
<1>10. ASSUME NEW c \in Clients, GiveUp(c) \/ \E cmd \in {"call", "close"} : Send(c, cmd)
      PROVE  PathInv'
    BY <1>1, <1>10 DEF GiveUp, Send
<1> QED BY <1>3, <1>4, <1>5, <1>6, <1>7, <1>8, <1>9, <1>10, StepCases, Names

\* A connection of an owner that asks or pings is left alone by the others.
LEMMA OtherConns ==
    ASSUME ServiceInv, PNext, NEW q \in Owners
    PROVE  \/ ProbeStep(Owner(q)) \/ Ping(q) \/ Pong(q) \/ BeginStop(q) \/ Closed(q)
           \/ conn'[Owner(q)].to = conn[Owner(q)].to
<1>0. ServiceTypeOK /\ CallInv /\ Owner(q) \in Requesters /\ Owner(q) \in Probers
    BY Names DEF ServiceInv
<1>1. ASSUME NEW p \in Probers, ProbeStep(p), p # Owner(q)
      PROVE  conn'[Owner(q)] = conn[Owner(q)]
    <2>1. p \in Requesters
        BY Names
    <2>2. CASE Connect(p, "probe")
        BY <1>0, <1>1, <2>1, <2>2, ConnectReaches
    <2>3. CASE ~Connect(p, "probe")
        BY <1>0, <1>1, <2>3 DEF ProbeStep, LookAtPath, Probed, RemovePath, ServiceTypeOK
    <2> QED BY <2>2, <2>3
<1>2. ASSUME NEW o \in Owners,
             \/ Opened(o) \/ Load(o) \/ Bind(o) \/ Serve(o) \/ CallEnds(o)
             \/ CloseSocket(o) \/ UnlinkListener(o) \/ Left(o) \/ Killed(o)
      PROVE  conn'[Owner(q)].to = conn[Owner(q)].to
    <2>1. CASE Dies(o)
        <3>1. Owner(q) # Server(o)
            BY Names
        <3> QED BY <1>0, <2>1, <3>1, Breaks
    <2>2. CASE Serve(o)
        <3>1. conn' = conn \/ (queue[o] # <<>> /\ Reply(o, Head(queue[o])))
            BY <2>2 DEF Serve
        <3> QED BY <1>0, <3>1, Replies
    <2>3. CASE CallEnds(o)
        <3>1. queue[o] # <<>> /\ Reply(o, Head(queue[o]))
            BY <1>0, <2>3 DEF CallEnds, CallInv
        <3> QED BY <1>0, <3>1, Replies
    <2>4. CASE CloseSocket(o)
        BY <1>0, <2>4, SocketCloses
    <2>5. CASE ~Dies(o) /\ ~Serve(o) /\ ~CallEnds(o) /\ ~CloseSocket(o)
        <3>1. conn' = conn
            BY <1>2, <2>5 DEF Opened, Load, Bind, UnlinkListener, Left, Killed
        <3> QED BY <3>1
    <2> QED BY <2>1, <2>2, <2>3, <2>4, <2>5
<1>3. ASSUME NEW o \in Owners,
             \/ BeginStart(o) \/ Spawn(o) \/ StartFails(o) \/ EndProcess(o) \/ Unlinked(o)
      PROVE  conn'[Owner(q)].to = conn[Owner(q)].to
    <2>1. CASE Dies(o)
        <3>1. Owner(q) # Server(o)
            BY Names
        <3> QED BY <1>0, <2>1, <3>1, Breaks
    <2>2. CASE ~Dies(o)
        <3>1. conn' = conn
            BY <1>3, <2>2 DEF BeginStart, Spawn, StartFails, EndProcess, Unlinked
        <3> QED BY <3>1
    <2> QED BY <2>1, <2>2
<1>4. ASSUME NEW o \in Owners, o # q, Ping(o) \/ Pong(o) \/ BeginStop(o) \/ Closed(o)
      PROVE  conn'[Owner(q)].to = conn[Owner(q)].to
    <2>0. Owner(o) # Owner(q) /\ Owner(o) \in Requesters
        BY <1>4, Names
    <2>1. CASE \E cmd \in {"ping", "close"} : Connect(Owner(o), cmd)
        BY <1>0, <2>0, <2>1, ConnectReaches
    <2>2. CASE ~\E cmd \in {"ping", "close"} : Connect(Owner(o), cmd)
        <3>1. conn' = conn \/ conn' = [conn EXCEPT ![Owner(o)] = NoConn]
            BY <1>4, <2>2 DEF Ping, Pong, BeginStop, Closed
        <3> QED BY <1>0, <2>0, <3>1 DEF ServiceTypeOK
    <2> QED BY <2>1, <2>2
<1>5. ASSUME NEW c \in Clients, GiveUp(c) \/ \E cmd \in {"call", "close"} : Send(c, cmd)
      PROVE  conn'[Owner(q)].to = conn[Owner(q)].to
    <2>0. Client(c) # Owner(q) /\ Client(c) \in Requesters
        BY Names
    <2>1. CASE GiveUp(c)
        BY <1>0, <2>0, <2>1 DEF GiveUp, ServiceTypeOK
    <2>2. ASSUME NEW cmd \in {"call", "close"}, Send(c, cmd)
          PROVE  conn'[Owner(q)].to = conn[Owner(q)].to
        <3>1. CASE Connect(Client(c), cmd)
            BY <1>0, <2>0, <3>1, ConnectReaches
        <3>2. CASE ~Connect(Client(c), cmd)
            BY <1>0, <2>0, <2>2, <3>2 DEF Send, ServiceTypeOK
        <3> QED BY <3>1, <3>2
    <2> QED BY <1>5, <2>1, <2>2
<1> QED BY <1>1, <1>2, <1>3, <1>4, <1>5, StepCases, Names

LEMMA PingStep ==
    ASSUME ServiceInv, use.discipline # "any", PNext, NEW q \in Owners
    PROVE  PingInv(q)'
<1>0. ServiceTypeOK /\ PingInv(q) /\ Owner(q) \in Requesters /\ Owner(q) \in Probers
    BY Names DEF ServiceInv, OneServerInv
<1>1. CASE Ping(q)
    <2>1. handle[q] /\ Connect(Owner(q), "ping") /\ starts' = starts
        BY <1>1, OneProcess DEF Ping
    <2>2. path = Listener(q)
        BY <2>1, OneProcess DEF Connect
    <2>3. conn'[Owner(q)].to = Listener(q)
        BY <1>0, <2>1, <2>2, ConnectReaches
    <2> QED BY <2>1, <2>3 DEF PingInv, Listener
<1>2. CASE Pong(q)
    <2>1. starts' = starts /\ (conn' = conn \/ at'[q] \in {"waiting", "cleaning"})
        BY <1>0, <1>2 DEF Pong, SetCall, ServiceTypeOK
    <2> QED BY <1>0, <1>2, <2>1 DEF PingInv, Up, Pong, Listener
<1>3. CASE BeginStop(q) \/ Closed(q)
    <2>1. at'[q] \in {"closing", "joining"}
        BY <1>0, <1>3 DEF BeginStop, Closed, SetCall, ServiceTypeOK
    <2> QED BY <2>1 DEF PingInv, Up
<1>4. CASE ProbeStep(Owner(q))
    <2>1. at' = at /\ probe[Owner(q)] # "off"
        BY <1>0, <1>4, ProbeSteps
    <2>2. at[q] \in {"starting", "unlinking"}
        BY <2>1 DEF ServiceInv, HandleInv
    <2> QED BY <2>1, <2>2 DEF PingInv, Up
<1>5. CASE conn'[Owner(q)].to = conn[Owner(q)].to /\ ~Ping(q) /\ ~Pong(q)
    <2>1. CASE at'[q] = at[q] /\ handle'[q] = handle[q] /\ starts'[q] = starts[q]
        BY <1>0, <1>5, <2>1 DEF PingInv, Up, Listener
    <2>2. CASE BeginStart(q) \/ StartFails(q) \/ EndProcess(q)
        <3>1. \/ at'[q] = at[q] /\ handle'[q] = handle[q] /\ starts'[q] = starts[q]
              \/ at'[q] \in {"starting", "cleaning", "unlinking"}
            BY <1>0, <2>2 DEF BeginStart, StartFails, EndProcess, SetCall, ServiceTypeOK
        <3> QED BY <2>1, <3>1 DEF PingInv, Up
    <2>3. CASE Spawn(q)
        <3>1. at'[q] = "waiting" \/ (at'[q] = "idle" /\ handle'[q] = handle[q] /\ at[q] = "starting")
            BY <1>0, <2>3 DEF Spawn, SetCall, ServiceTypeOK
        <3>2. at[q] = "starting" => ~handle[q]
            BY DEF ServiceInv, HandleInv
        <3> QED BY <3>1, <3>2 DEF PingInv, Up
    <2>4. CASE Unlinked(q)
        <3>1. probe[Owner(q)] = "done"
            BY <2>4 DEF Unlinked, ServiceInv, OneServerInv, ProbeInv, StartProbe, EndProbe
        <3>2. at'[q] = "idle" /\ ~handle'[q]
            BY <1>0, <2>4, <3>1 DEF Unlinked, SetCall, ServiceTypeOK
        <3> QED BY <3>2 DEF PingInv, Up
    <2>5. CASE BeginStop(q) \/ Closed(q)
        BY <1>3, <2>5
    <2>6. ASSUME NEW p \in Probers, ProbeStep(p) PROVE UNCHANGED <<at, handle, starts>>
        BY <1>0, <2>6, ProbeSteps
    <2>7. ASSUME NEW o \in Owners,
                 \/ Opened(o) \/ Load(o) \/ Bind(o) \/ Serve(o) \/ CallEnds(o)
                 \/ CloseSocket(o) \/ UnlinkListener(o) \/ Left(o) \/ Killed(o)
          PROVE  UNCHANGED <<at, handle, starts>>
        BY <1>0, <2>7, ProcessSteps
    <2>8. ASSUME NEW c \in Clients, GiveUp(c) \/ \E cmd \in {"call", "close"} : Send(c, cmd)
          PROVE  UNCHANGED <<at, handle, starts>>
        BY <2>8 DEF GiveUp, Send
    <2>9. ASSUME NEW o \in Owners, o # q,
                 \/ BeginStart(o) \/ Spawn(o) \/ Ping(o) \/ Pong(o) \/ StartFails(o)
                 \/ EndProcess(o) \/ Unlinked(o) \/ BeginStop(o) \/ Closed(o)
          PROVE  at'[q] = at[q] /\ handle'[q] = handle[q] /\ starts'[q] = starts[q]
        BY <1>0, <2>9, OwnerSteps
    <2> QED BY <1>5, <2>1, <2>2, <2>3, <2>4, <2>5, <2>6, <2>7, <2>8, <2>9, StepCases, Names
<1> QED BY <1>1, <1>2, <1>3, <1>4, <1>5, OtherConns

\* A process finds nothing at the path when it opens and when it has left.
LEMMA OwnProbeStep ==
    ASSUME ServiceInv, use.discipline # "any", PNext, NEW q \in Owners
    PROVE  probe'[Server(q)] \in {"off", "look", "done"}
<1>0. ServiceTypeOK /\ Server(q) \in Probers /\ probe[Server(q)] \in {"off", "look", "done"}
    BY Names DEF ServiceInv, OneServerInv, ProbeInv, StartProbe, EndProbe
<1>1. CASE probe'[Server(q)] = probe[Server(q)]
    BY <1>0, <1>1
<1>2. ASSUME NEW p \in Probers, ProbeStep(p) PROVE probe'[Server(q)] \in {"off", "look", "done"}
    <2>1. CASE p = Server(q)
        <3>1. probe[p] # "off" /\ probe[p] = "look"
            BY <1>0, <1>2, <2>1, ProbeSteps
        <3>2. server[q] \in {"opening", "left"}
            BY <2>1, <3>1 DEF ServiceInv, HandleInv
        <3>3. path = NoPath
            BY <3>2 DEF ServiceInv, OneServerInv, PathInv
        <3> QED BY <1>0, <1>2, <2>1, <3>1, <3>3
                DEF ProbeStep, LookAtPath, Probed, RemovePath, Connect, Reachable, ServiceTypeOK
    <2>2. CASE p # Server(q)
        BY <1>0, <1>1, <1>2, <2>2, ProbeSteps
    <2> QED BY <2>1, <2>2
<1>3. ASSUME NEW o \in Owners,
             \/ Opened(o) \/ Load(o) \/ Bind(o) \/ Serve(o) \/ CallEnds(o)
             \/ CloseSocket(o) \/ UnlinkListener(o) \/ Left(o) \/ Killed(o)
      PROVE  probe'[Server(q)] \in {"off", "look", "done"}
    <2>1. CASE o # q
        <3>1. Server(q) # Server(o)
            BY <2>1, Names
        <3> QED BY <1>0, <1>1, <1>3, <3>1, ProcessSteps
    <2>2. CASE o = q /\ Dies(o)
        BY <1>0, <2>2, Breaks DEF ServiceTypeOK
    <2>3. CASE o = q /\ ~Dies(o)
        BY <1>0, <1>1, <1>3, <2>3 DEF Opened, Load, Bind, Serve, CallEnds, CloseSocket,
                                      UnlinkListener, Left, Killed, ServiceTypeOK
    <2> QED BY <2>1, <2>2, <2>3
<1>4. ASSUME NEW o \in Owners,
             \/ BeginStart(o) \/ Spawn(o) \/ Ping(o) \/ Pong(o) \/ StartFails(o)
             \/ EndProcess(o) \/ Unlinked(o) \/ BeginStop(o) \/ Closed(o)
      PROVE  probe'[Server(q)] \in {"off", "look", "done"}
    <2>0. Server(q) # Owner(o) /\ (o # q => Server(q) # Server(o)) /\ Owner(o) \in Probers
        BY Names
    <2>1. CASE o # q
        BY <1>0, <1>1, <1>4, <2>0, <2>1, OwnerSteps
    <2>2. CASE o = q /\ Dies(o)
        BY <1>0, <2>2, Breaks DEF ServiceTypeOK
    <2>3. CASE o = q /\ ~Dies(o)
        BY <1>0, <1>1, <1>4, <2>0, <2>3 DEF BeginStart, Spawn, Ping, Pong, StartFails, EndProcess,
                                            Unlinked, BeginStop, Closed, ServiceTypeOK
    <2> QED BY <2>1, <2>2, <2>3
<1>5. ASSUME NEW c \in Clients, GiveUp(c) \/ \E cmd \in {"call", "close"} : Send(c, cmd)
      PROVE  probe'[Server(q)] \in {"off", "look", "done"}
    BY <1>1, <1>5 DEF GiveUp, Send
<1> QED BY <1>2, <1>3, <1>4, <1>5, StepCases, Names

\* What an owner that starts finds at the path.
LEMMA StartProbeStep ==
    ASSUME ServiceInv, use.discipline # "any", PNext, NEW q \in Owners
    PROVE  StartProbe(q)'
<1>0. /\ ServiceTypeOK /\ CallInv /\ StartProbe(q)
      /\ Owner(q) \in Requesters /\ Owner(q) \in Probers
    BY Names DEF ServiceInv, OneServerInv, ProbeInv, StartProbe, EndProbe
<1>1. CASE BeginStart(q)
    BY <1>0, <1>1 DEF BeginStart, StartProbe, ServiceTypeOK
<1>2. CASE ProbeStep(Owner(q)) /\ at[q] = "starting"
    <2>0. UNCHANGED <<at, handle>>
        BY <1>0, <1>2, ProbeSteps
    <2>1. CASE LookAtPath(Owner(q))
        <3>1. CASE path = NoPath /\ probe'[Owner(q)] = "done"
            <4>1. \A o \in Owners : ~handle[o]
                BY <1>2, <3>1, StartsMeet, OneProcess
            <4> QED BY <2>0, <3>1, <4>1 DEF StartProbe
        <3>2. CASE Connect(Owner(q), "probe") /\ probe'[Owner(q)] = "asking"
            <4>1. conn'[Owner(q)].state = "queued"
                BY <1>0, <3>2, ConnectReaches
            <4> QED BY <3>2, <4>1 DEF StartProbe
        <3>3. CASE path # NoPath /\ ~Reachable
            <4>1. \E o \in Owners : handle[o]
                BY <3>3 DEF ServiceInv, OneServerInv, PathInv
            <4> QED BY <1>2, <3>3, <4>1, StartsMeet
        <3> QED BY <1>0, <2>1, <3>1, <3>2, <3>3 DEF LookAtPath, ServiceTypeOK
    <2>2. CASE Probed(Owner(q))
        <3>1. ~Broken(Owner(q))
            BY <1>0, <1>2, <2>2 DEF Probed, StartProbe, Broken
        <3>2. probe'[Owner(q)] = "raised"
            BY <1>0, <2>2, <3>1 DEF Probed, ServiceTypeOK
        <3> QED BY <3>2 DEF StartProbe
    <2>3. CASE RemovePath(Owner(q))
        BY <1>0, <1>2, <2>3 DEF RemovePath, StartProbe
    <2> QED BY <1>2, <2>1, <2>2, <2>3 DEF ProbeStep
\* Of the others' steps none starts or breaks a process, or gets in the way.
<1>3. ASSUME at'[q] = at[q], probe'[Owner(q)] = probe[Owner(q)],
             \A o \in Owners : handle'[o] => handle[o],
             conn'[Owner(q)].state = "broken" => conn[Owner(q)].state = "broken"
      PROVE  StartProbe(q)'
    BY <1>0, <1>3 DEF StartProbe
<1>4. ASSUME at[q] = "starting", NEW p \in Probers, ProbeStep(p), p # Owner(q)
      PROVE  StartProbe(q)'
    <2>1. p \in Requesters
        BY Names
    <2>2. conn'[Owner(q)] = conn[Owner(q)]
        <3>1. CASE Connect(p, "probe")
            BY <1>0, <1>4, <2>1, <3>1, ConnectReaches
        <3>2. CASE ~Connect(p, "probe")
            BY <1>0, <1>4, <3>2 DEF ProbeStep, LookAtPath, Probed, RemovePath, ServiceTypeOK
        <3> QED BY <3>1, <3>2
    <2>3. UNCHANGED <<at, handle>> /\ probe'[Owner(q)] = probe[Owner(q)]
        BY <1>0, <1>4, ProbeSteps
    <2> QED BY <1>3, <2>2, <2>3
<1>5. ASSUME at[q] = "starting", NEW o \in Owners,
             \/ Opened(o) \/ Load(o) \/ Bind(o) \/ Serve(o) \/ CallEnds(o)
             \/ CloseSocket(o) \/ UnlinkListener(o) \/ Left(o) \/ Killed(o)
      PROVE  StartProbe(q)'
    <2>1. handle[o]
        BY <1>0, <1>5, ProcessSteps, OneProcess
    <2>2. server[o] \in {"accepting", "busy"} /\ use.discipline = "guarded"
        BY <1>5, <2>1, StartsMeet
    <2>3. Serve(o) \/ CallEnds(o)
        BY <1>5, <2>2 DEF Opened, Load, Bind, CloseSocket, UnlinkListener, Left, Killed
    <2>4. conn' = conn \/ (queue[o] # <<>> /\ Reply(o, Head(queue[o])))
        BY <1>0, <2>3 DEF Serve, CallEnds, CallInv
    <2>5. conn'[Owner(q)].state = "broken" => conn[Owner(q)].state = "broken"
        BY <1>0, <2>4, Replies
    <2>6. UNCHANGED <<at, handle, probe>>
        BY <2>3 DEF Serve, CallEnds
    <2> QED BY <1>3, <2>5, <2>6
<1>6. ASSUME at[q] = "starting", NEW c \in Clients,
             GiveUp(c) \/ \E cmd \in {"call", "close"} : Send(c, cmd)
      PROVE  StartProbe(q)'
    <2>0. Client(c) # Owner(q) /\ Client(c) \in Requesters
        BY Names
    <2>1. conn'[Owner(q)] = conn[Owner(q)]
        <3>1. CASE GiveUp(c)
            BY <1>0, <2>0, <3>1 DEF GiveUp, ServiceTypeOK
        <3>2. ASSUME NEW cmd \in {"call", "close"}, Send(c, cmd)
              PROVE  conn'[Owner(q)] = conn[Owner(q)]
            <4>1. CASE Connect(Client(c), cmd)
                BY <1>0, <2>0, <4>1, ConnectReaches
            <4>2. CASE ~Connect(Client(c), cmd)
                BY <1>0, <2>0, <3>2, <4>2 DEF Send, ServiceTypeOK
            <4> QED BY <4>1, <4>2
        <3> QED BY <1>6, <3>1, <3>2
    <2>2. UNCHANGED <<at, handle, probe>>
        BY <1>6 DEF GiveUp, Send
    <2> QED BY <1>3, <2>1, <2>2
<1>7. ASSUME NEW o \in Owners,
             \/ BeginStart(o) \/ Spawn(o) \/ Ping(o) \/ Pong(o) \/ StartFails(o)
             \/ EndProcess(o) \/ Unlinked(o) \/ BeginStop(o) \/ Closed(o)
      PROVE  BeginStart(q) \/ at'[q] # "starting"
    <2>1. CASE o = q
        BY <1>0, <1>7, <2>1 DEF Spawn, Ping, Pong, StartFails, EndProcess, Unlinked, BeginStop,
                                Closed, SetCall, ServiceTypeOK
    <2>2. CASE o # q
        <3>1. at[q] # "starting"
            <4>1. CASE BeginStart(o) \/ BeginStop(o)
                BY <2>2, <4>1 DEF BeginStart, BeginStop, MayBegin
            <4>2. CASE at[o] # "idle"
                BY <2>2, <4>2, OneProcess
            <4> QED BY <1>7, <4>1, <4>2 DEF Spawn, Ping, Pong, StartFails, EndProcess, Unlinked, Closed
        <3>2. at'[q] = at[q]
            BY <1>0, <1>7, <2>2, OwnerSteps
        <3> QED BY <3>1, <3>2
    <2> QED BY <2>1, <2>2
<1>8. CASE at'[q] # "starting"
    BY <1>8 DEF StartProbe
<1>9. ASSUME NEW p \in Probers, ProbeStep(p) PROVE at' = at
    BY <1>0, <1>9, ProbeSteps
<1>10. ASSUME NEW o \in Owners,
             \/ Opened(o) \/ Load(o) \/ Bind(o) \/ Serve(o) \/ CallEnds(o)
             \/ CloseSocket(o) \/ UnlinkListener(o) \/ Left(o) \/ Killed(o)
      PROVE  at' = at
    BY <1>0, <1>10, ProcessSteps
<1>11. ASSUME NEW c \in Clients, GiveUp(c) \/ \E cmd \in {"call", "close"} : Send(c, cmd)
      PROVE  at' = at
    BY <1>11 DEF GiveUp, Send
<1> QED BY <1>1, <1>2, <1>4, <1>5, <1>6, <1>7, <1>8, <1>9, <1>10, <1>11, StepCases, Names

\* What an owner that has ended its process finds at the path.
LEMMA EndProbeStep ==
    ASSUME ServiceInv, use.discipline # "any", PNext, NEW q \in Owners
    PROVE  EndProbe(q)'
<1>0. /\ ServiceTypeOK /\ CallInv /\ EndProbe(q)
      /\ Owner(q) \in Requesters /\ Owner(q) \in Probers
    BY Names DEF ServiceInv, OneServerInv, ProbeInv, EndProbe, StartProbe
<1>1. CASE at'[q] # "unlinking"
    BY <1>1 DEF EndProbe
<1>2. CASE at'[q] = at[q] /\ probe'[Owner(q)] = probe[Owner(q)] /\ path' \in {path, NoPath}
    BY <1>0, <1>2 DEF EndProbe
<1>3. ASSUME NEW p \in Probers, ProbeStep(p) PROVE EndProbe(q)'
    <2>0. at' = at
        BY <1>0, <1>3, ProbeSteps
    <2>1. CASE p # Owner(q)
        <3>1. probe'[Owner(q)] = probe[Owner(q)]
            BY <1>0, <1>3, <2>1, ProbeSteps
        <3>2. path' \in {path, NoPath}
            BY <1>3 DEF ProbeStep, LookAtPath, Probed, RemovePath
        <3> QED BY <1>2, <2>0, <3>1, <3>2
    <2>2. CASE p = Owner(q) /\ at[q] = "unlinking"
        <3>1. ~Reachable
            <4>1. handle[q] /\ server[q] = "off"
                BY <2>2, OneProcess
            <4> QED BY <4>1, OneProcess DEF Listens
        <3>2. CASE LookAtPath(p)
            <4>1. \/ path = NoPath /\ path' = NoPath /\ probe'[p] = "done"
                  \/ probe'[p] = "stale"
                BY <1>0, <2>2, <3>1, <3>2 DEF LookAtPath, Connect, ServiceTypeOK
            <4> QED BY <2>2, <4>1 DEF EndProbe
        <3>3. CASE Probed(p)
            BY <1>0, <2>2, <3>3 DEF Probed, EndProbe
        <3>4. CASE RemovePath(p)
            BY <1>0, <2>2, <3>4 DEF RemovePath, EndProbe, ServiceTypeOK
        <3> QED BY <1>3, <3>2, <3>3, <3>4 DEF ProbeStep
    <2> QED BY <1>1, <2>0, <2>1, <2>2
<1>4. ASSUME NEW o \in Owners,
             \/ Opened(o) \/ Load(o) \/ Bind(o) \/ Serve(o) \/ CallEnds(o)
             \/ CloseSocket(o) \/ UnlinkListener(o) \/ Left(o) \/ Killed(o)
      PROVE  EndProbe(q)'
    <2>1. at' = at /\ probe'[Owner(q)] = probe[Owner(q)] /\ server[o] # "off"
        BY <1>0, <1>4, ProcessSteps, Names
    <2>2. CASE at[q] = "unlinking"
        <3>1. handle[o] /\ handle[q] /\ server[q] = "off"
            BY <2>1, <2>2, OneProcess
        <3> QED BY <2>1, <3>1, OneProcess
    <2> QED BY <1>1, <2>1, <2>2
<1>5. ASSUME NEW o \in Owners,
             \/ BeginStart(o) \/ Spawn(o) \/ Ping(o) \/ Pong(o) \/ StartFails(o)
             \/ EndProcess(o) \/ Unlinked(o) \/ BeginStop(o) \/ Closed(o)
      PROVE  EndProbe(q)'
    <2>1. CASE o # q
        <3>1. at'[q] = at[q] /\ path' = path
            BY <1>0, <1>5, <2>1, OwnerSteps
        <3>2. probe'[Owner(q)] = probe[Owner(q)]
            BY <1>0, <1>5, <2>1, OwnerSteps, Names
        <3> QED BY <1>2, <3>1, <3>2
    <2>2. CASE o = q /\ EndProcess(q)
        <3>1. CASE at' = at
            <4>1. at[q] # "unlinking"
                BY <2>2 DEF EndProcess
            <4> QED BY <1>1, <3>1, <4>1
        <3>2. CASE at' # at
            <4>1. probe'[Owner(q)] = "look"
                BY <1>0, <2>2, <3>2 DEF EndProcess, ServiceTypeOK
            <4> QED BY <4>1 DEF EndProbe
        <3> QED BY <3>1, <3>2
    <2>3. CASE o = q /\ ~EndProcess(q)
        <3>1. at'[q] # "unlinking"
            BY <1>0, <1>5, <2>3 DEF BeginStart, Spawn, Ping, Pong, StartFails, Unlinked, BeginStop,
                                    Closed, SetCall, ServiceTypeOK
        <3> QED BY <1>1, <3>1
    <2> QED BY <2>1, <2>2, <2>3
<1>6. ASSUME NEW c \in Clients, GiveUp(c) \/ \E cmd \in {"call", "close"} : Send(c, cmd)
      PROVE  EndProbe(q)'
    BY <1>2, <1>6 DEF GiveUp, Send
<1> QED BY <1>3, <1>4, <1>5, <1>6, StepCases, Names

LEMMA ClosesStep ==
    ASSUME ServiceInv, use.discipline = "guarded", PNext
    PROVE  OnlyStopsClose'
<1>0. ServiceTypeOK /\ CallInv /\ OnlyStopsClose
    BY DEF ServiceInv, OneServerInv, GuardedInv, OnlyStopsClose, Serves
<1>1. ASSUME \A r \in Requesters : conn'[r].cmd = "close" => conn[r].cmd = "close",
             \A o \in Owners : at[o] = "closing" => at'[o] = "closing"
      PROVE  OnlyStopsClose'
    BY <1>0, <1>1 DEF OnlyStopsClose
\* A connection that is made anew.
<1>2. ASSUME NEW r \in Requesters, NEW cmd \in {"probe", "ping", "close", "call"}, Connect(r, cmd),
             cmd = "close" => \E o \in Owners : r = Owner(o) /\ at'[o] = "closing",
             \A o \in Owners : at[o] = "closing" => at'[o] = "closing"
      PROVE  OnlyStopsClose'
    <2>1. conn'[r].cmd = cmd /\ \A q \in Requesters : q # r => conn'[q] = conn[q]
        BY <1>0, <1>2, ConnectReaches
    <2> QED BY <1>0, <1>2, <2>1 DEF OnlyStopsClose
<1>3. ASSUME NEW r \in Requesters, conn' = conn \/ conn' = [conn EXCEPT ![r] = NoConn]
      PROVE  \A q \in Requesters : conn'[q].cmd = "close" => conn[q].cmd = "close"
    BY <1>0, <1>3, ConnTypes DEF ServiceTypeOK
<1>4. ASSUME NEW p \in Probers, ProbeStep(p) PROVE OnlyStopsClose'
    <2>1. at' = at /\ p \in Requesters
        BY <1>0, <1>4, ProbeSteps, Names
    <2>2. CASE Connect(p, "probe")
        BY <1>2, <2>1, <2>2
    <2>3. CASE ~Connect(p, "probe")
        <3>1. conn' = conn \/ conn' = [conn EXCEPT ![p] = NoConn]
            BY <1>4, <2>3 DEF ProbeStep, LookAtPath, Probed, RemovePath
        <3> QED BY <1>1, <1>3, <2>1, <3>1
    <2> QED BY <2>2, <2>3
\* The end of a process makes no request.
<1>5. ASSUME NEW o \in Owners, Dies(o)
      PROVE  \A r \in Requesters : conn'[r].cmd = "close" => conn[r].cmd = "close"
    <2> SUFFICES ASSUME NEW r \in Requesters, conn'[r].cmd = "close" PROVE conn[r].cmd = "close"
        OBVIOUS
    <2>1. CASE r = Server(o)
        BY <1>5, <2>1, ConnTypes DEF Dies
    <2>2. CASE r # Server(o)
        BY <1>0, <1>5, <2>2, Breaks
    <2> QED BY <2>1, <2>2
<1>6. ASSUME NEW o \in Owners,
             \/ Opened(o) \/ Load(o) \/ Bind(o) \/ Serve(o) \/ CallEnds(o)
             \/ CloseSocket(o) \/ UnlinkListener(o) \/ Left(o) \/ Killed(o)
      PROVE  OnlyStopsClose'
    <2>1. at' = at
        BY <1>0, <1>6, ProcessSteps
    <2>2. CASE Dies(o)
        BY <1>1, <1>5, <2>1, <2>2
    <2>3. CASE Serve(o) \/ CallEnds(o)
        <3>1. conn' = conn \/ (queue[o] # <<>> /\ Reply(o, Head(queue[o])))
            BY <1>0, <2>3 DEF Serve, CallEnds, CallInv
        <3> QED BY <1>0, <1>1, <2>1, <3>1, Replies
    <2>4. CASE CloseSocket(o)
        BY <1>0, <1>1, <2>1, <2>4, SocketCloses
    <2>5. CASE ~Dies(o) /\ ~Serve(o) /\ ~CallEnds(o) /\ ~CloseSocket(o)
        <3>1. conn' = conn
            BY <1>6, <2>5 DEF Opened, Load, Bind, UnlinkListener, Left, Killed
        <3> QED BY <1>1, <2>1, <3>1
    <2> QED BY <2>2, <2>3, <2>4, <2>5
<1>7. ASSUME NEW o \in Owners,
             BeginStart(o) \/ Spawn(o) \/ Ping(o) \/ Pong(o) \/ StartFails(o) \/ Unlinked(o) \/ BeginStop(o)
      PROVE  OnlyStopsClose'
    <2>0. Owner(o) \in Requesters
        BY Names
    <2>1. \A q \in Owners : at[q] = "closing" => at'[q] = "closing"
        BY <1>0, <1>7 DEF BeginStart, Spawn, Ping, Pong, StartFails, Unlinked, BeginStop, SetCall,
                          ServiceTypeOK
    <2>2. CASE Ping(o)
        BY <1>2, <2>0, <2>1, <2>2 DEF Ping
    <2>3. CASE BeginStop(o) /\ Connect(Owner(o), "close")
        <3>1. at'[o] = "closing"
            BY <1>0, <2>3 DEF BeginStop, SetCall, Connect, ServiceTypeOK
        <3> QED BY <1>2, <2>0, <2>1, <2>3, <3>1
    <2>4. CASE ~Ping(o) /\ ~(BeginStop(o) /\ Connect(Owner(o), "close"))
        <3>1. conn' = conn \/ conn' = [conn EXCEPT ![Owner(o)] = NoConn]
            BY <1>7, <2>4 DEF BeginStart, Spawn, Pong, StartFails, Unlinked, BeginStop
        <3> QED BY <1>1, <1>3, <2>0, <2>1, <3>1
    <2> QED BY <2>2, <2>3, <2>4
<1>8. ASSUME NEW o \in Owners, EndProcess(o) PROVE OnlyStopsClose'
    <2>1. at[o] # "closing" /\ \A q \in Owners : q # o => at'[q] = at[q]
        BY <1>0, <1>8, OwnerSteps DEF EndProcess
    <2>2. CASE Dies(o)
        BY <1>1, <1>5, <2>1, <2>2
    <2>3. CASE ~Dies(o)
        BY <1>1, <1>8, <2>1, <2>3 DEF EndProcess
    <2> QED BY <2>2, <2>3
<1>9. ASSUME NEW o \in Owners, Closed(o) PROVE OnlyStopsClose'
    <2>0. Owner(o) \in Requesters
        BY Names
    <2>1. /\ conn'[Owner(o)].cmd # "close"
          /\ \A r \in Requesters : r # Owner(o) => conn'[r] = conn[r]
        BY <1>0, <1>9, <2>0, ConnTypes DEF Closed, ServiceTypeOK
    <2>2. \A q \in Owners : q # o => at'[q] = at[q]
        BY <1>0, <1>9, OwnerSteps
    <2> QED BY <1>0, <2>1, <2>2 DEF OnlyStopsClose
<1>10. ASSUME NEW c \in Clients, GiveUp(c) PROVE OnlyStopsClose'
    <2>0. Client(c) \in Requesters
        BY Names
    <2>1. at' = at /\ conn' = [conn EXCEPT ![Client(c)] = Turned(conn[Client(c)], "gone")]
        BY <1>10 DEF GiveUp
    <2>2. Turned(conn[Client(c)], "gone").cmd = conn[Client(c)].cmd
        BY <1>0, <2>0, ConnTypes DEF ServiceTypeOK
    <2> QED BY <1>0, <1>1, <2>0, <2>1, <2>2 DEF ServiceTypeOK
<1>11. ASSUME NEW c \in Clients, NEW cmd \in {"call", "close"}, Send(c, cmd) PROVE OnlyStopsClose'
    <2>0. Client(c) \in Requesters /\ cmd = "call" /\ at' = at
        BY <1>11, Names DEF Send
    <2>1. CASE Connect(Client(c), cmd)
        BY <1>2, <2>0, <2>1
    <2>2. CASE ~Connect(Client(c), cmd)
        <3>1. conn' = [conn EXCEPT ![Client(c)] = [NoConn EXCEPT !.state = "broken", !.cmd = cmd]]
            BY <1>11, <2>2 DEF Send
        <3>2. \A r \in Requesters : conn'[r].cmd = "close" => conn[r].cmd = "close"
            BY <1>0, <2>0, <3>1, ConnTypes DEF ServiceTypeOK
        <3> QED BY <1>1, <2>0, <3>2
    <2> QED BY <2>1, <2>2
<1> QED BY <1>4, <1>6, <1>7, <1>8, <1>9, <1>10, <1>11, StepCases, Names

LEMMA ServesStep ==
    ASSUME ServiceInv, use.discipline = "guarded", PNext, NEW q \in Owners
    PROVE  Serves(q)'
<1>0. ServiceTypeOK /\ Serves(q)
    BY DEF ServiceInv, OneServerInv, GuardedInv, Serves, OnlyStopsClose
<1>1. CASE at'[q] = at[q] /\ handle'[q] = handle[q] /\ server'[q] = server[q]
    BY <1>0, <1>1 DEF Serves, Up
<1>2. ASSUME NEW p \in Probers, ProbeStep(p) PROVE Serves(q)'
    BY <1>0, <1>1, <1>2, ProbeSteps
<1>3. ASSUME NEW o \in Owners,
             \/ Opened(o) \/ Load(o) \/ Bind(o) \/ Serve(o) \/ CallEnds(o)
             \/ CloseSocket(o) \/ UnlinkListener(o) \/ Left(o) \/ Killed(o)
      PROVE  Serves(q)'
    <2>1. UNCHANGED <<at, handle>> /\ (o # q => server'[q] = server[q])
        BY <1>0, <1>3, ProcessSteps
    <2>2. CASE o = q /\ Serve(q) /\ at[q] # "closing"
        <3>1. server'[q] \in {"accepting", "busy"}
            BY <2>2, Served
        <3> QED BY <3>1 DEF Serves
    <2>3. CASE o = q /\ CallEnds(q)
        <3>1. server'[q] = "accepting"
            BY <1>0, <2>3 DEF CallEnds, ServiceTypeOK
        <3> QED BY <3>1 DEF Serves
    <2>4. CASE o = q /\ (CloseSocket(q) \/ UnlinkListener(q) \/ Left(q))
        <3>1. server[q] \in {"ending", "leaving", "left"}
            BY <2>4 DEF CloseSocket, UnlinkListener, Left
        <3>2. at[q] \notin {"pinging", "waiting"} /\ ~Up(q)
            BY <1>0, <3>1 DEF Serves
        <3> QED BY <2>1, <3>2 DEF Serves, Up
    <2>5. CASE o = q /\ (Opened(q) \/ Load(q) \/ Bind(q))
        <3>1. server[q] \in {"opening", "loading", "binding"}
            BY <2>5 DEF Opened, Load, Bind
        <3>2. at[q] # "pinging" /\ ~Up(q)
            BY <1>0, <3>1 DEF Serves
        <3>3. server'[q] \in {"loading", "binding", "accepting", "off"}
            <4>1. CASE Dies(q)
                BY <1>0, <4>1, Breaks DEF ServiceTypeOK
            <4>2. CASE ~Dies(q)
                BY <1>0, <2>5, <4>2 DEF Opened, Load, Bind, ServiceTypeOK
            <4> QED BY <4>1, <4>2
        <3> QED BY <2>1, <3>2, <3>3 DEF Serves, Up
    <2>6. ~Killed(o)
        BY DEF Killed
    <2>7. CASE at[q] = "closing"
        BY <2>1, <2>7 DEF Serves, Up
    <2> QED BY <1>1, <1>3, <2>1, <2>2, <2>3, <2>4, <2>5, <2>6, <2>7
<1>4. ASSUME NEW o \in Owners, o # q,
             \/ BeginStart(o) \/ Spawn(o) \/ Ping(o) \/ Pong(o) \/ StartFails(o)
             \/ EndProcess(o) \/ Unlinked(o) \/ BeginStop(o) \/ Closed(o)
      PROVE  Serves(q)'
    BY <1>0, <1>1, <1>4, OwnerSteps
<1>5. CASE Ping(q)
    <2>1. handle[q] /\ Reachable /\ at[q] = "waiting" /\ at'[q] = "pinging" /\ server' = server
        BY <1>0, <1>5, OneProcess DEF Ping, SetCall, Connect, ServiceTypeOK
    <2>2. Listens(q)
        BY <2>1, OneProcess
    <2> QED BY <1>0, <2>1, <2>2 DEF Serves, Listens
<1>6. CASE Pong(q)
    <2>1. /\ server[q] \in {"accepting", "busy"} /\ server' = server
        BY <1>0, <1>6 DEF Pong, Serves
    <2> QED BY <2>1 DEF Serves
<1>7. CASE BeginStart(q) \/ StartFails(q) \/ EndProcess(q) \/ BeginStop(q) \/ Closed(q)
    <2>1. at'[q] \in {"starting", "cleaning", "joining", "unlinking", "closing"}
        BY <1>0, <1>7 DEF BeginStart, StartFails, EndProcess, BeginStop, Closed, SetCall, ServiceTypeOK
    <2> QED BY <2>1 DEF Serves, Up
<1>8. CASE Spawn(q)
    <2>1. ~handle[q]
        BY <1>8 DEF Spawn, ServiceInv, HandleInv
    <2>2. \/ at'[q] = "waiting" /\ server'[q] = "opening"
          \/ at'[q] = "idle" /\ ~handle'[q]
        BY <1>0, <1>8, <2>1 DEF Spawn, SetCall, ServiceTypeOK
    <2> QED BY <2>2 DEF Serves, Up
<1>9. CASE Unlinked(q)
    <2>1. probe[Owner(q)] = "done"
        BY <1>9 DEF Unlinked, ServiceInv, OneServerInv, ProbeInv, StartProbe, EndProbe
    <2>2. at'[q] = "idle" /\ ~handle'[q]
        BY <1>0, <1>9, <2>1 DEF Unlinked, SetCall, ServiceTypeOK
    <2> QED BY <2>2 DEF Serves, Up
<1>10. ASSUME NEW c \in Clients, GiveUp(c) \/ \E cmd \in {"call", "close"} : Send(c, cmd)
      PROVE  Serves(q)'
    BY <1>1, <1>10 DEF GiveUp, Send
<1> QED BY <1>2, <1>3, <1>4, <1>5, <1>6, <1>7, <1>8, <1>9, <1>10, StepCases, Names

-----------------------------------------------------------------------------
(* The theorems.                                                           *)

LEMMA ServiceInit == PInit => ServiceInv
<1> SUFFICES ASSUME PInit PROVE ServiceInv
    OBVIOUS
<1>1. ServiceTypeOK
    BY TypesInit
<1>2. \A r \in Requesters : conn[r].cmd = "none"
    BY ConnTypes DEF PInit
<1>3. CallInv
    BY <1>2, Names DEF PInit, CallInv
<1>4. \A o \in Owners : HandleInv(o)
    BY Names DEF PInit, HandleInv
<1>5. AloneInv /\ PathInv
    BY DEF PInit, AloneInv, PathInv
<1>6. \A o \in Owners : ProbeInv(o) /\ PingInv(o)
    BY Names DEF PInit, ProbeInv, PingInv, Up, StartProbe, EndProbe
<1>7. GuardedInv
    BY <1>2 DEF PInit, GuardedInv, Up, OnlyStopsClose, Serves
<1> QED BY <1>1, <1>3, <1>4, <1>5, <1>6, <1>7 DEF ServiceInv, OneServerInv

LEMMA OneServerStep ==
    ASSUME ServiceInv, use.discipline # "any", PNext
    PROVE  OneServerInv'
<1>1. AloneInv' /\ PathInv'
    BY AloneStep, PathStep
<1>2. ASSUME NEW o \in Owners PROVE ProbeInv(o)' /\ PingInv(o)'
    <2>1. StartProbe(o)' /\ EndProbe(o)' /\ PingInv(o)'
        BY StartProbeStep, EndProbeStep, PingStep
    <2>2. probe'[Server(o)] \in {"off", "look", "done"}
        BY OwnProbeStep
    <2>3. ProbeInv(o)'
        BY <2>1, <2>2 DEF ProbeInv, StartProbe, EndProbe
    <2> QED BY <2>1, <2>3
<1>3. use' = use
    BY DEF PNext, ServerStep, OwnerStep, ProbeStep, LookAtPath, Probed, RemovePath, Opened, Load,
           Bind, Serve, CallEnds, CloseSocket, UnlinkListener, Left, Killed, BeginStart, Spawn, Ping,
           Pong, StartFails, EndProcess, Unlinked, BeginStop, Closed, GiveUp, Send
<1>4. use'.discipline = "guarded" => GuardedInv'
    <2> SUFFICES ASSUME use.discipline = "guarded" PROVE GuardedInv'
        BY <1>3
    <2>1. OnlyStopsClose' /\ \A o \in Owners : Serves(o)'
        BY ClosesStep, ServesStep
    <2> QED BY <2>1 DEF GuardedInv, OnlyStopsClose, Serves
<1> QED BY <1>1, <1>2, <1>4 DEF OneServerInv

LEMMA InvStep ==
    ASSUME ServiceInv, [PNext]_pvars
    PROVE  ServiceInv'
<1>1. CASE UNCHANGED pvars
    BY <1>1 DEF pvars, ServiceInv, ServiceTypeOK, CallInv, HandleInv, OneServerInv, AloneInv, PathInv,
                ProbeInv, PingInv, GuardedInv, Up, Listener, StartProbe, EndProbe, OnlyStopsClose,
                Serves
<1>2. CASE PNext
    <2>1. ServiceTypeOK' /\ CallInv' /\ \A o \in Owners : HandleInv(o)'
        BY <1>2, TypesStep, CallStep, HandleStep DEF ServiceInv
    <2>2. use' = use
        BY <1>2 DEF PNext, ServerStep, OwnerStep, ProbeStep, LookAtPath, Probed, RemovePath, Opened,
                    Load, Bind, Serve, CallEnds, CloseSocket, UnlinkListener, Left, Killed, BeginStart,
                    Spawn, Ping, Pong, StartFails, EndProcess, Unlinked, BeginStop, Closed, GiveUp, Send
    <2>3. use.discipline # "any" => OneServerInv'
        BY <1>2, OneServerStep
    <2> QED BY <2>1, <2>2, <2>3 DEF ServiceInv
<1> QED BY <1>1, <1>2

\* In every behaviour of the owners, their processes and the clients the invariant
\* of provider/service.py and _server.py holds.
THEOREM ServiceSafe == PSpec => []ServiceInv
<1>1. PInit => ServiceInv
    BY ServiceInit
<1>2. ServiceInv /\ [PNext]_pvars => ServiceInv'
    BY InvStep
<1> QED BY <1>1, <1>2, PTL DEF PSpec

\* A start that failed and a stop that returned leave no process behind; and as long
\* as the calls of owners of a path do not overlap, a start that returned was answered
\* by its own process, which keeps the path, and the last stop leaves the path free.
THEOREM ServersSafe == PSpec => []ServersHold
<1>1. ServiceInv => ServersHold
    <2> SUFFICES ASSUME ServiceInv PROVE ServersHold
        OBVIOUS
    <2>1. \A o \in Owners : ~handle[o] => server[o] = "off"
        BY DEF ServiceInv, HandleInv
    <2>2. ASSUME use.discipline # "any", NEW o \in Owners, Up(o)
          PROVE  /\ conn[Owner(o)].to = Listener(o)
                 /\ server[o] \in {"accepting", "busy"} => path = Listener(o)
                 /\ \A q \in Owners \ {o} : ~handle[q]
        <3>1. conn[Owner(o)].to = Listener(o)
            BY <2>2 DEF ServiceInv, OneServerInv, PingInv
        <3>2. server[o] \in {"accepting", "busy"} => path = Listener(o)
            BY <2>2 DEF ServiceInv, OneServerInv, PathInv
        <3>3. \A q \in Owners \ {o} : ~handle[q]
            BY <2>2, OneProcess DEF Up
        <3> QED BY <3>1, <3>2, <3>3
    <2>3. ASSUME use.discipline # "any", \A o \in Owners : at[o] = "idle" /\ ~handle[o]
          PROVE  path = NoPath
        BY <2>3 DEF ServiceInv, OneServerInv, PathInv
    <2> QED BY <2>1, <2>2, <2>3 DEF ServersHold
<1> QED BY <1>1, ServiceSafe, PTL
=============================================================================
