------------------------ MODULE ParallelForEachProofs ------------------------
(***************************************************************************)
(* Proofs about parallelForEach for every number of items and every        *)
(* capacity of the semaphore. IInv of ParallelForEach is inductive; each   *)
(* of its parts is preserved for a reason of its own, so each has its own  *)
(* lemma, and the theorems at the end follow from their conjunction.       *)
(***************************************************************************)
EXTENDS ParallelForEach, FiniteSetTheorems, TLAPS

(* The sets that sem and wg count are finite, and no larger than Items.    *)
LEMMA CountedSetsFinite ==
    /\ IsFiniteSet(Holding) /\ Cardinality(Holding) \in Nat
    /\ IsFiniteSet(Live) /\ Cardinality(Live) \in 0..NumItems
<1>1. IsFiniteSet(Items) /\ Cardinality(Items) = NumItems
  BY FS_Interval, NumItemsAssumption DEF Items
<1>2. Holding \in SUBSET Items /\ Live \in SUBSET Items
  BY DEF Holding, Live
<1>3. IsFiniteSet(Holding) /\ IsFiniteSet(Live)
      /\ Cardinality(Live) <= Cardinality(Items)
  BY <1>1, <1>2, FS_Subset
<1> QED
  BY <1>1, <1>3, FS_CardinalityType, NumItemsAssumption

LEMMA InitIInv == Init => IInv
<1> SUFFICES ASSUME Init PROVE IInv
  OBVIOUS
<1>1. TypeOK
  <2>1. next \in 1..(NumItems + 1) /\ sem \in 0..MaxParallel
        /\ wg \in 0..NumItems
    BY NumItemsAssumption, MaxParallelAssumption DEF Init
  <2>2. worker \in [Items -> WorkerStates] /\ outcome \in [Items -> Outcomes]
    BY DEF Init, WorkerStates, Outcomes
  <2> QED
    BY <2>1, <2>2 DEF Init, TypeOK, MainStates, Results
<1>2. Holding = {} /\ Live = {}
  BY DEF Init, Holding, Live, LiveStates, HoldingStates
<1>3. CountInv
  BY <1>2, FS_EmptySet DEF Init, CountInv
<1>4. LaunchInv /\ OutcomeInv /\ ErrInv
  BY NumItemsAssumption
  DEF Init, LaunchInv, OutcomeInv, ErrInv, Items, NoItem
<1>5. LateInv /\ NoStragglers /\ NilMeansAllDone
  BY DEF Init, LateInv, NoStragglers, NilMeansAllDone
<1> QED
  BY <1>1, <1>3, <1>4, <1>5 DEF IInv

-----------------------------------------------------------------------------
(* The counters. Launch adds one goroutine to both sets, Release takes one *)
(* out of Holding, Done one out of Live, and no other step moves a         *)
(* goroutine across either border.                                         *)
LEMMA CountStep == IInv /\ [Next]_vars => CountInv'
<1> SUFFICES ASSUME IInv, [Next]_vars PROVE CountInv'
  OBVIOUS
<1> USE DEF IInv
<1>t. /\ worker \in [Items -> WorkerStates]
      /\ next \in Nat /\ sem \in Nat /\ wg \in Nat
      /\ sem = Cardinality(Holding) /\ wg = Cardinality(Live)
  BY NumItemsAssumption, MaxParallelAssumption DEF TypeOK, CountInv
<1>1. CASE Launch
  <2>1. next \in Items /\ worker[next] = "idle"
    BY <1>1, NumItemsAssumption DEF Launch, LaunchInv, TypeOK, Items,
    Spawn
  <2>2. Holding' = Holding \cup {next} /\ Live' = Live \cup {next}
    BY <1>1, <1>t, <2>1 DEF Launch, Holding, Live, LiveStates, HoldingStates,
    Spawn
  <2>3. next \notin Holding /\ next \notin Live
    BY <2>1 DEF Holding, Live, LiveStates, HoldingStates
  <2> QED
    BY <1>1, <1>t, <2>2, <2>3, CountedSetsFinite, FS_AddElement
    DEF Launch, CountInv,
    Spawn
<1>2. ASSUME NEW i \in Items, Release(i) PROVE CountInv'
  <2>1. Holding' = Holding \ {i} /\ Live' = Live /\ i \in Holding
    BY <1>2, <1>t DEF Release, Holding, Live, LiveStates, HoldingStates
  <2> QED
    BY <1>2, <1>t, <2>1, CountedSetsFinite, FS_RemoveElement
    DEF Release, CountInv
<1>3. ASSUME NEW i \in Items, Done(i) PROVE CountInv'
  <2>1. Live' = Live \ {i} /\ Holding' = Holding /\ i \in Live
    BY <1>3, <1>t DEF Done, Holding, Live, LiveStates, HoldingStates
  <2> QED
    BY <1>3, <1>t, <2>1, CountedSetsFinite, FS_RemoveElement
    DEF Done, CountInv
<1>4. ASSUME NEW i \in Items,
             \/ StartFn(i) \/ FnReturn(i) \/ Lock(i) \/ Record(i) \/ Cancel(i)
      PROVE  CountInv'
  <2>1. PICK s \in HoldingStates : worker' = [worker EXCEPT ![i] = s]
    BY <1>4 DEF StartFn, FnReturn, Lock, Record, Cancel, HoldingStates,
    Goto, FnEnds
  <2>2. worker[i] \in HoldingStates
    BY <1>4 DEF StartFn, FnReturn, Lock, Record, Cancel, HoldingStates,
    Goto, FnEnds
  <2>3. Holding' = Holding /\ Live' = Live
    BY <1>t, <2>1, <2>2 DEF Holding, Live, LiveStates
  <2> QED
    BY <1>4, <1>t, <2>3
    DEF StartFn, FnReturn, Lock, Record, Cancel, CountInv,
    Goto, FnEnds
<1>5. CASE \/ Call \/ LoopCheck \/ Return \/ ParentCancel \/ Terminated
           \/ UNCHANGED vars
  BY <1>5, <1>t DEF Call, LoopCheck, Return, ParentCancel, Terminated, vars,
                    CountInv, Holding, Live, Finish, ReturnValue
<1> QED
  BY <1>1, <1>2, <1>3, <1>4, <1>5 DEF Next, Main, Worker

(* Types. Release and Done stay above zero because the goroutine that runs *)
(* them is counted, and Launch stays within Items because Live does.       *)
LEMMA TypeStep == IInv /\ [Next]_vars => TypeOK'
<1> SUFFICES ASSUME IInv, [Next]_vars PROVE TypeOK'
  OBVIOUS
<1> USE NumItemsAssumption, MaxParallelAssumption
<1>1. TypeOK /\ LaunchInv
  BY DEF IInv
<1>c. (Cardinality(Live) \in 0..NumItems)'
  BY CountedSetsFinite, PTL
<1>2. wg' \in 0..NumItems
  BY <1>c, CountStep DEF CountInv
<1>3. CASE Launch
  BY <1>1, <1>2, <1>3
  DEF Launch, TypeOK, LaunchInv, Items, MainStates, WorkerStates, LiveStates,
      HoldingStates,
    Spawn
<1>4. ASSUME NEW i \in Items, Release(i) PROVE TypeOK'
  <2>1. i \in Holding
    BY <1>4 DEF Release, Holding, HoldingStates
  <2>2. sem > 0
    BY <1>1, <2>1, CountedSetsFinite, FS_EmptySet DEF IInv, CountInv, TypeOK
  <2> QED
    BY <1>1, <1>4, <2>2
    DEF Release, TypeOK, WorkerStates, LiveStates, HoldingStates
<1>5. ASSUME NEW i \in Items, Worker(i), ~Release(i) PROVE TypeOK'
  BY <1>1, <1>2, <1>5
  DEF Worker, StartFn, FnReturn, Lock, Record, Cancel, Done, TypeOK,
      WorkerStates, LiveStates, HoldingStates, Outcomes, NoItem,
    Goto, FnEnds
<1>6. CASE \/ Call \/ LoopCheck \/ Return \/ ParentCancel \/ Terminated
           \/ UNCHANGED vars
  BY <1>1, <1>6
  DEF Call, LoopCheck, Return, ParentCancel, Terminated, vars, TypeOK,
      MainStates, Results, Finish, ReturnValue
<1> QED
  BY <1>3, <1>4, <1>5, <1>6 DEF Next, Main

-----------------------------------------------------------------------------
(* The launch loop. Only Launch moves an item out of "idle", and it is the *)
(* item that next leaves behind; a context that is done stays done.        *)
LEMMA LaunchStep == IInv /\ [Next]_vars => LaunchInv'
<1> SUFFICES ASSUME IInv, [Next]_vars PROVE LaunchInv'
  OBVIOUS
<1>1. TypeOK /\ LaunchInv /\ NoStragglers
  BY DEF IInv
<1> USE NumItemsAssumption
<1>2. CASE Main
  BY <1>1, <1>2
  DEF Main, Call, LoopCheck, Launch, Return, TypeOK, LaunchInv, CtxErr, Items,
    Spawn, Finish, ReturnValue
<1>3. ASSUME NEW i \in Items, Worker(i) PROVE LaunchInv'
  BY <1>1, <1>3
  DEF Worker, StartFn, FnReturn, Lock, Record, Cancel, Release, Done, TypeOK,
      LaunchInv, CtxErr,
    Goto, FnEnds
<1>4. CASE ParentCancel \/ Terminated \/ UNCHANGED vars
  BY <1>1, <1>4 DEF ParentCancel, Terminated, vars, LaunchInv, CtxErr
<1> QED
  BY <1>2, <1>3, <1>4 DEF Next

(* Outcomes. A goroutine that ends without having run fn has seen a done   *)
(* context, and one that ends with an error has seen firstErr set.         *)
LEMMA OutcomeStep == IInv /\ [Next]_vars => OutcomeInv'
<1> SUFFICES ASSUME IInv, [Next]_vars PROVE OutcomeInv'
  OBVIOUS
<1>1. TypeOK /\ OutcomeInv /\ LaunchInv
  BY DEF IInv
<1>2. CASE Launch
  <2>1. next \in Items /\ worker[next] = "idle"
    BY <1>1, <1>2, NumItemsAssumption DEF Launch, LaunchInv, TypeOK, Items,
    Spawn
  <2> QED
    BY <1>1, <1>2, <2>1 DEF Launch, TypeOK, OutcomeInv, CtxErr,
    Spawn
<1>3. CASE Call \/ LoopCheck \/ Return
  BY <1>1, <1>3 DEF Call, LoopCheck, Return, OutcomeInv, CtxErr,
     Finish, ReturnValue
<1>4. ASSUME NEW i \in Items, Worker(i) PROVE OutcomeInv'
  <2>1. CASE StartFn(i) \/ Lock(i) \/ Release(i) \/ Done(i)
    BY <1>1, <2>1
    DEF StartFn, Lock, Release, Done, TypeOK, OutcomeInv, CtxErr,
    Goto
  <2>2. CASE FnReturn(i)
    BY <1>1, <2>2 DEF FnReturn, TypeOK, OutcomeInv, CtxErr,
    FnEnds
  <2>3. CASE Record(i)
    <3>1. firstErr' # NoItem
      BY <2>3, NumItemsAssumption DEF Record, Items, NoItem
    <3> QED
      BY <1>1, <2>3, <3>1 DEF Record, TypeOK, OutcomeInv, CtxErr
  <2>4. CASE Cancel(i)
    BY <1>1, <2>4 DEF Cancel, TypeOK, OutcomeInv, CtxErr
  <2> QED
    BY <1>4, <2>1, <2>2, <2>3, <2>4 DEF Worker
<1>5. CASE ParentCancel \/ Terminated \/ UNCHANGED vars
  BY <1>1, <1>5 DEF ParentCancel, Terminated, vars, OutcomeInv, CtxErr
<1> QED
  BY <1>2, <1>3, <1>4, <1>5 DEF Next, Main

(* Causes. The first error recorded cannot be an echo of cancel(): before  *)
(* it is recorded nothing but the caller can have made the context done.   *)
LEMMA ErrStep == IInv /\ [Next]_vars => ErrInv'
<1> SUFFICES ASSUME IInv, [Next]_vars PROVE ErrInv'
  OBVIOUS
<1>1. TypeOK /\ OutcomeInv /\ ErrInv /\ LaunchInv /\ NoStragglers
  BY DEF IInv
<1>2. CASE Main
  BY <1>1, <1>2
  DEF Main, Call, LoopCheck, Launch, Return, TypeOK, LaunchInv, ErrInv, CtxErr,
    Spawn, Finish, ReturnValue
<1>3. ASSUME NEW i \in Items, Worker(i) PROVE ErrInv'
  <2>0. worker[i] \notin {"idle", "done"} /\ result = "pending"
    BY <1>1, <1>3
    DEF Worker, StartFn, FnReturn, Lock, Record, Cancel, Release, Done,
        NoStragglers,
    Goto, FnEnds
  <2>1. CASE FnReturn(i)
    BY <1>1, <2>0, <2>1
    DEF FnReturn, TypeOK, OutcomeInv, ErrInv, CtxErr,
    FnEnds
  <2>2. CASE Record(i)
    BY <1>1, <2>2 DEF Record, TypeOK, OutcomeInv, ErrInv, CtxErr, Items, NoItem
  <2>3. CASE Cancel(i)
    BY <1>1, <2>3 DEF Cancel, TypeOK, OutcomeInv, ErrInv
  <2>4. CASE StartFn(i) \/ Lock(i) \/ Release(i) \/ Done(i)
    BY <1>1, <2>4 DEF StartFn, Lock, Release, Done, ErrInv,
    Goto
  <2> QED
    BY <1>3, <2>1, <2>2, <2>3, <2>4 DEF Worker
<1>4. CASE ParentCancel \/ Terminated \/ UNCHANGED vars
  BY <1>1, <1>4 DEF ParentCancel, Terminated, vars, ErrInv
<1> QED
  BY <1>2, <1>3, <1>4 DEF Next

(* Late launches. The loop tests the context before it blocks on sem, so   *)
(* it can be overtaken there only once, and the worker's own test then     *)
(* keeps it from calling fn.                                               *)
LEMMA LateStep == IInv /\ [Next]_vars => LateInv'
<1> SUFFICES ASSUME IInv, [Next]_vars PROVE LateInv'
  OBVIOUS
<1>1. TypeOK /\ OutcomeInv /\ LateInv /\ LaunchInv
  BY DEF IInv
<1>2. CASE Launch
  <2>1. next \in Items /\ worker[next] = "idle" /\ outcome[next] = "none"
    BY <1>1, <1>2, NumItemsAssumption
    DEF Launch, LaunchInv, OutcomeInv, TypeOK, Items,
    Spawn
  <2> QED
    BY <1>1, <1>2, <2>1 DEF Launch, TypeOK, LateInv, CtxErr,
    Spawn
<1>3. CASE Call \/ LoopCheck \/ Return
  BY <1>1, <1>3 DEF Call, LoopCheck, Return, LateInv, CtxErr,
     Finish, ReturnValue
<1>4. ASSUME NEW i \in Items, Worker(i) PROVE LateInv'
  BY <1>1, <1>4
  DEF Worker, StartFn, FnReturn, Lock, Record, Cancel, Release, Done, TypeOK,
      LateInv, CtxErr,
    Goto, FnEnds
<1>5. CASE ParentCancel \/ Terminated \/ UNCHANGED vars
  BY <1>1, <1>5 DEF ParentCancel, Terminated, vars, LateInv, CtxErr
<1> QED
  BY <1>2, <1>3, <1>4, <1>5 DEF Next, Main

(* When wg.Wait() lets the caller go, every goroutine is over.             *)
LEMMA AllOverAtReturn ==
    ASSUME IInv, Return
    PROVE  \A i \in Items : worker[i] \in {"idle", "done"}
<1>1. Live = {}
  BY CountedSetsFinite, FS_EmptySet DEF IInv, CountInv, Return,
     Finish, ReturnValue
<1> QED
  BY <1>1 DEF IInv, TypeOK, Live, WorkerStates

(* The result. Once it is set no goroutine is left to move; and it is nil  *)
(* only if every item was launched and none ended in another way than ok.  *)
LEMMA ResultStep ==
    IInv /\ [Next]_vars => NoStragglers' /\ NilMeansAllDone'
<1> SUFFICES ASSUME IInv, [Next]_vars
             PROVE  NoStragglers' /\ NilMeansAllDone'
  OBVIOUS
<1>1. TypeOK /\ LaunchInv /\ OutcomeInv /\ NoStragglers /\ NilMeansAllDone
  BY DEF IInv
<1>2. CASE Return
  <2>1. \A i \in Items : worker[i] \in {"idle", "done"}
    BY <1>2, AllOverAtReturn
  <2>2. ASSUME result' = "nil" PROVE \A i \in Items : outcome[i] = "ok"
    <3>1. firstErr = NoItem /\ ~CtxErr /\ next > NumItems
      BY <1>1, <1>2, <2>2 DEF Return, LaunchInv, Finish, ReturnValue
    <3>2. \A i \in Items : worker[i] = "done"
      BY <1>1, <2>1, <3>1, NumItemsAssumption DEF LaunchInv, TypeOK, Items
    <3> QED
      BY <1>1, <3>1, <3>2 DEF OutcomeInv
  <2> QED
    BY <1>2, <2>1, <2>2 DEF Return, NoStragglers, NilMeansAllDone,
       Finish, ReturnValue
<1>3. CASE Call
  BY <1>1, <1>3 DEF Call, NoStragglers, NilMeansAllDone, LaunchInv, Items
<1>4. CASE LoopCheck \/ Launch
  BY <1>1, <1>4
  DEF LoopCheck, Launch, NoStragglers, NilMeansAllDone, LaunchInv,
    Spawn
<1>5. ASSUME NEW i \in Items, Worker(i)
      PROVE  NoStragglers' /\ NilMeansAllDone'
  <2>1. result = "pending" /\ result' = "pending"
    BY <1>1, <1>5
    DEF Worker, StartFn, FnReturn, Lock, Record, Cancel, Release, Done,
        NoStragglers,
    Goto, FnEnds
  <2> QED
    BY <2>1 DEF NoStragglers, NilMeansAllDone
<1>6. CASE ParentCancel \/ Terminated \/ UNCHANGED vars
  BY <1>1, <1>6
  DEF ParentCancel, Terminated, vars, NoStragglers, NilMeansAllDone
<1> QED
  BY <1>2, <1>3, <1>4, <1>5, <1>6 DEF Next, Main

-----------------------------------------------------------------------------
(* IInv holds in every reachable state of parallelForEach.                 *)
THEOREM Invariance == Spec => []IInv
<1>1. IInv /\ [Next]_vars => IInv'
  BY TypeStep, CountStep, LaunchStep, OutcomeStep, ErrStep, LateStep,
     ResultStep
  DEF IInv
<1> QED
  BY <1>1, InitIInv, PTL DEF Spec

(* Every variable of the pool keeps its type; in particular sem and wg     *)
(* never leave the range of the channel and of the WaitGroup.              *)
THEOREM TypeCorrect == Spec => []TypeOK
<1>1. IInv => TypeOK
  BY DEF IInv
<1> QED
  BY <1>1, Invariance, PTL

(* For every number of items and workers: a nil error means that fn        *)
(* succeeded for every item.                                               *)
THEOREM NilIsTruthful == Spec => []NilMeansAllDone
<1>1. IInv => NilMeansAllDone
  BY DEF IInv
<1> QED
  BY <1>1, Invariance, PTL

(* The error returned is never an echo of the pool's own cancel().         *)
THEOREM ErrorIsTruthful == Spec => []ErrorIsRootCause
<1>1. IInv => ErrorIsRootCause
  BY DEF IInv, ErrInv, ErrorIsRootCause
<1> QED
  BY <1>1, Invariance, PTL

(* No more than MaxParallel goroutines hold a slot of sem.                 *)
THEOREM FanOutIsBounded == Spec => []BoundedFanOut
<1>1. IInv => BoundedFanOut
  BY MaxParallelAssumption DEF IInv, CountInv, TypeOK, BoundedFanOut
<1> QED
  BY <1>1, Invariance, PTL

(* No goroutine of the pool outlives the call.                             *)
THEOREM NoGoroutineLeaks == Spec => []NoStragglers
<1>1. IInv => NoStragglers
  BY DEF IInv
<1> QED
  BY <1>1, Invariance, PTL

(* Once the context is done at most one more goroutine starts, and it      *)
(* never calls fn.                                                         *)
THEOREM FailsFast == Spec => []FailFast
<1>1. IInv => FailFast
  BY DEF IInv, LateInv, FailFast
<1> QED
  BY <1>1, Invariance, PTL

-----------------------------------------------------------------------------
(* The pool implements TransferBatch: FnReturn(i) is its Run(i), Return    *)
(* and the early return of Call are its Return, the caller's cancellation  *)
(* is its own, and every other step leaves outcome, parentCanceled and     *)
(* result alone.                                                           *)
THEOREM ImplementsBatch == Spec => RefinesBatch
<1>1. Init => Batch!Init
  BY DEF Init, Batch!Init, Items, Batch!Items
<1>2. IInv /\ [Next]_vars => [Batch!Next]_(Batch!vars)
  <2> SUFFICES ASSUME IInv, [Next]_vars PROVE [Batch!Next]_(Batch!vars)
    OBVIOUS
  <2>0. TypeOK /\ OutcomeInv /\ ErrInv /\ LaunchInv /\ NoStragglers
        /\ NilMeansAllDone' /\ ErrInv'
    BY ResultStep, ErrStep DEF IInv
  <2>1. CASE Call
    <3>1. CASE NumItems = 0
      BY <2>0, <2>1, <3>1
      DEF Call, LaunchInv, Batch!Next, Batch!Return, Batch!ReturnNil,
          Batch!Items, Finish, ReturnValue
    <3>2. CASE NumItems # 0
      BY <2>1, <3>2 DEF Call, Batch!vars
    <3> QED
      BY <3>1, <3>2
  <2>2. CASE Return
    <3>0. /\ result = "pending" /\ UNCHANGED <<outcome, parentCanceled>>
          /\ \A i \in Items : worker[i] \in {"idle", "done"}
      BY <2>0, <2>2, AllOverAtReturn DEF Return, LaunchInv,
         Finish, ReturnValue
    <3>1. CASE result' = "nil"
      BY <2>0, <3>0, <3>1
      DEF NilMeansAllDone, Batch!Next, Batch!Return, Batch!ReturnNil,
          Batch!Items, Items, Finish, ReturnValue
    <3>2. CASE result' = "firstErr"
      <4>1. firstErr \in Items
        BY <2>0, <2>2, <3>2 DEF Return, TypeOK, Finish, ReturnValue
      <4> QED
        BY <2>0, <3>0, <3>2, <4>1, <2>2
        DEF Return, ErrInv, Batch!Next, Batch!Return, Batch!ReturnFirstErr,
            Batch!Items, Items, Finish, ReturnValue
    <3>3. CASE result' = "ctxErr"
      <4>1. firstErr = NoItem /\ parentCanceled
        BY <2>0, <2>2, <3>0, <3>3 DEF Return, ErrInv, CtxErr,
           Finish, ReturnValue
      <4>2. \A i \in Items : outcome[i] \in {"none", "ok"}
        BY <2>0, <3>0, <4>1 DEF OutcomeInv
      <4> QED
        BY <3>0, <3>3, <4>1, <4>2
        DEF Batch!Next, Batch!Return, Batch!ReturnCtxErr, Batch!Items, Items,
            Finish, ReturnValue
    <3> QED
      BY <2>2, <3>1, <3>2, <3>3 DEF Return, Finish, ReturnValue
  <2>3. ASSUME NEW i \in Items, FnReturn(i) PROVE Batch!Next
    <3>1. result = "pending" /\ outcome[i] = "none"
      BY <2>0, <2>3 DEF FnReturn, NoStragglers, OutcomeInv,
    FnEnds
    <3>2. CtxErr => Batch!MayBeCanceled
      BY <2>0, <3>1
      DEF CtxErr, ErrInv, TypeOK, Batch!MayBeCanceled, Batch!Items, Items
    <3> QED
      BY <2>3, <3>1, <3>2
      DEF FnReturn, Batch!Next, Batch!Run, Batch!Items, Items,
    FnEnds
  <2>4. ASSUME NEW i \in Items, Worker(i), ~FnReturn(i)
        PROVE  UNCHANGED Batch!vars
    BY <2>4
    DEF Worker, StartFn, Lock, Record, Cancel, Release, Done, Batch!vars,
    Goto
  <2>5. CASE ParentCancel
    BY <2>5 DEF ParentCancel, Batch!Next, Batch!ParentCancel
  <2>6. CASE LoopCheck \/ Launch \/ Terminated \/ UNCHANGED vars
    BY <2>6 DEF LoopCheck, Launch, Terminated, vars, Batch!vars,
    Spawn
  <2> QED
    BY <2>1, <2>2, <2>3, <2>4, <2>5, <2>6 DEF Next, Main
<1> QED
  BY <1>1, <1>2, Invariance, PTL DEF Spec, RefinesBatch, Batch!Spec

=============================================================================
