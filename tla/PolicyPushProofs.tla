-------------------------- MODULE PolicyPushProofs --------------------------
(***************************************************************************)
(* Proofs about PushRevision, for any locks, callers and groups. Artifacts *)
(* are never forgotten once they have been published (the deleted ones     *)
(* count), so what a push has uploaded behind its loop stays uploaded, and *)
(* a complete lock stays complete; a push reaches PutPolicy only past the  *)
(* end of its loop.                                                        *)
(***************************************************************************)
EXTENDS PolicyPush, TLAPS

(* What every push is called with.                                         *)
LEMMA PushType ==
    ASSUME NEW p \in Pushes
    PROVE  /\ RevisionOf[p] \in Revisions /\ GroupOf[p] \in Groups
           /\ LockList(p) \in Seq(Locks) /\ Pin(p) \in Pins
BY RevisionAssumption, PushAssumption DEF LockList, Pin, Pins

(* The lock of an uploading push is an artifact.                           *)
LEMMA ArtifactType ==
    ASSUME TypeOK, LoopInv, NEW p \in Pushes, pc[p] = "upload"
    PROVE  /\ Artifact(p) \in Artifacts /\ Artifact(p) = Lock(p)
           /\ Artifact(p).identifier # NoIdentifier
           /\ at[p] \in 1..Len(LockList(p))
<1>1. at[p] \in 1..Len(LockList(p)) /\ Lock(p).identifier # NoIdentifier
  BY PushType DEF TypeOK, LoopInv
<1>2. Lock(p) \in Locks
  BY <1>1, PushType DEF Lock
<1> QED
  BY <1>1, <1>2 DEF Locks, Artifact, Artifacts

(* What has been published stays published.                                *)
LEMMA CompleteStays ==
    ASSUME artifacts \cup deleted \subseteq artifacts' \cup deleted'
    PROVE  /\ \A lock : Uploaded(lock) => Uploaded(lock)'
           /\ \A r : Complete(r) => Complete(r)'
BY DEF Uploaded, Complete

(* The pushes other than p are where they were, and p is where the step    *)
(* put it: what is left of LoopInv is p's.                                 *)
LEMMA LoopInvOf ==
    ASSUME TypeOK, LoopInv, NEW p \in Pushes,
           artifacts \cup deleted \subseteq artifacts' \cup deleted',
           \A q \in Pushes \ {p} : pc'[q] = pc[q] /\ at'[q] = at[q],
           pc'[p] \in {"locks", "upload"} =>
               /\ RevisionOf[p] \notin Malformed
               /\ at'[p] \in 1..(Len(LockList(p)) + 1)
               /\ \A i \in 1..(at'[p] - 1) : Uploaded(LockList(p)[i])',
           pc'[p] = "upload" =>
               at'[p] <= Len(LockList(p))
               /\ LockList(p)[at'[p]].identifier # NoIdentifier,
           pc'[p] = "put" => Complete(RevisionOf[p])'
    PROVE  LoopInv'
<1>1. ASSUME NEW q \in Pushes \ {p}
      PROVE  /\ pc'[q] = pc[q] /\ at'[q] = at[q] /\ LockList(q)' = LockList(q)
             /\ Lock(q)' = Lock(q)
  BY DEF LockList, Lock
<1>2. /\ LockList(p)' = LockList(p)
      /\ Lock(p)' = LockList(p)[at'[p]]
      /\ Len(LockList(p)) \in Nat
  BY PushType DEF LockList, Lock
<1> QED
  BY <1>1, <1>2, CompleteStays DEF LoopInv

LEMMA InitIInv == Init => IInv
<1> SUFFICES ASSUME Init PROVE IInv
  OBVIOUS
<1>1. TypeOK
  BY DEF Init, TypeOK
<1>2. LoopInv /\ PinInv /\ DoneIsPinned
  BY DEF Init, LoopInv, PinInv, DoneIsPinned
<1> QED
  BY <1>1, <1>2 DEF IInv

-----------------------------------------------------------------------------
(* The steps of a push.                                                    *)

LEMMA CallStep == ASSUME IInv, NEW p \in Pushes, Call(p) PROVE IInv'
<1>0. TypeOK /\ LoopInv /\ PinInv /\ DoneIsPinned
  BY DEF IInv
<1>1. /\ \A q \in Pushes \ {p} : pc'[q] = pc[q] /\ at'[q] = at[q]
      /\ at'[p] = 1
      /\ pc'[p] = IF RevisionOf[p] \in Malformed THEN "failed" ELSE "locks"
      /\ UNCHANGED <<artifacts, active, late, deleted, pinned>>
  BY <1>0 DEF Call, Goto, TypeOK
<1>2. TypeOK'
  <2>1. pc' \in [Pushes -> {"idle", "locks", "upload", "put", "done", "failed"}]
    BY <1>0 DEF Call, Goto, TypeOK
  <2>2. at' \in [Pushes -> Nat] /\ calls' \in [Pushes -> Nat]
    <3>1. calls \in [Pushes -> Nat] /\ calls[p] + 1 \in Nat
      BY <1>0 DEF TypeOK
    <3>2. calls' = [calls EXCEPT ![p] = calls[p] + 1]
      BY DEF Call
    <3> QED
      BY <1>0, <3>1, <3>2 DEF Call, TypeOK
  <2> QED
    BY <1>0, <1>1, <2>1, <2>2 DEF TypeOK
<1>3. LoopInv'
  <2>1. Len(LockList(p)) \in Nat
    BY PushType
  <2> QED
    BY <1>0, <1>1, <2>1, LoopInvOf
<1>4. PinInv' /\ DoneIsPinned'
  BY <1>0, <1>1, CompleteStays DEF PinInv, DoneIsPinned, Pin
<1> QED
  BY <1>2, <1>3, <1>4 DEF IInv

LEMMA CheckLockStep == ASSUME IInv, NEW p \in Pushes, CheckLock(p) PROVE IInv'
<1>0. TypeOK /\ LoopInv /\ PinInv /\ DoneIsPinned
  BY DEF IInv
<1>1. /\ \A q \in Pushes \ {p} : pc'[q] = pc[q] /\ at'[q] = at[q]
      /\ at'[p] = at[p] /\ pc'[p] \in {"upload", "failed"}
      /\ pc'[p] = "upload" => Lock(p).identifier # NoIdentifier
      /\ UNCHANGED <<at, artifacts, active, late, deleted, pinned, calls>>
  BY <1>0 DEF CheckLock, Goto, TypeOK
<1>2. TypeOK'
  <2>1. pc' \in [Pushes -> {"idle", "locks", "upload", "put", "done", "failed"}]
    BY <1>0 DEF CheckLock, Goto, TypeOK
  <2> QED
    BY <1>0, <1>1, <2>1 DEF TypeOK
<1>3. LoopInv'
  <2>1. /\ pc[p] = "locks" /\ at[p] <= Len(LockList(p))
        /\ at[p] \in Nat /\ Len(LockList(p)) \in Nat
    BY <1>0, PushType DEF CheckLock, TypeOK
  <2>2. /\ RevisionOf[p] \notin Malformed /\ at[p] >= 1
        /\ \A i \in 1..(at[p] - 1) : Uploaded(LockList(p)[i])'
    BY <1>0, <1>1, <2>1, CompleteStays DEF LoopInv
  <2> QED
    BY <1>0, <1>1, <2>1, <2>2, LoopInvOf DEF Lock
<1>4. PinInv' /\ DoneIsPinned'
  BY <1>0, <1>1, CompleteStays DEF PinInv, DoneIsPinned, Pin
<1> QED
  BY <1>2, <1>3, <1>4 DEF IInv

LEMMA UploadArtifactStep ==
    ASSUME IInv, NEW p \in Pushes, UploadArtifact(p) PROVE IInv'
<1>0. TypeOK /\ LoopInv /\ PinInv /\ DoneIsPinned
  BY DEF IInv
<1>1. /\ \A q \in Pushes \ {p} : pc'[q] = pc[q] /\ at'[q] = at[q]
      /\ \/ pc'[p] = "failed" /\ at'[p] = at[p]
         \/ pc'[p] = "locks" /\ at'[p] = at[p] + 1
      /\ pc[p] = "upload"
      /\ artifacts' = artifacts \cup {Artifact(p)}
      /\ UNCHANGED <<active, late, deleted, pinned, calls>>
  BY <1>0 DEF UploadArtifact, Goto, TypeOK
<1>2. /\ Artifact(p) \in Artifacts /\ Artifact(p) = Lock(p)
      /\ Artifact(p).identifier # NoIdentifier
      /\ at[p] \in 1..Len(LockList(p))
  BY <1>0, <1>1, ArtifactType
<1>3. TypeOK'
  <2>1. pc' \in [Pushes -> {"idle", "locks", "upload", "put", "done", "failed"}]
    BY <1>0 DEF UploadArtifact, Goto, TypeOK
  <2>2. at' \in [Pushes -> Nat]
    <3>1. at[p] + 1 \in Nat
      BY <1>0 DEF TypeOK
    <3> QED
      BY <1>0, <3>1 DEF UploadArtifact, TypeOK
  <2> QED
    BY <1>0, <1>1, <1>2, <2>1, <2>2 DEF TypeOK
<1>4. LoopInv'
  <2>1. at[p] \in Nat /\ Len(LockList(p)) \in Nat
    BY <1>0, PushType DEF TypeOK
  <2>2. RevisionOf[p] \notin Malformed
        /\ \A i \in 1..(at[p] - 1) : Uploaded(LockList(p)[i])'
    BY <1>0, <1>1, CompleteStays DEF LoopInv
  <2>3. ASSUME NEW i \in 1..at[p], i = at[p]
        PROVE  Uploaded(LockList(p)[i])'
    BY <1>1, <1>2, <2>3 DEF Uploaded, Lock, LockList
  <2>4. \A i \in 1..at[p] : Uploaded(LockList(p)[i])'
    <3>1. ASSUME NEW i \in 1..at[p] PROVE i = at[p] \/ i \in 1..(at[p] - 1)
      BY <2>1
    <3> QED
      BY <2>2, <2>3, <3>1
  <2>5. pc'[p] \in {"locks", "upload"} =>
            /\ at'[p] \in 1..(Len(LockList(p)) + 1)
            /\ \A i \in 1..(at'[p] - 1) : Uploaded(LockList(p)[i])'
    <3>1. ASSUME pc'[p] = "locks"
          PROVE  at'[p] \in 1..(Len(LockList(p)) + 1) /\ at'[p] - 1 = at[p]
      BY <1>1, <1>2, <2>1, <3>1
    <3>2. ASSUME pc'[p] = "locks", NEW i \in 1..(at'[p] - 1)
          PROVE  i \in 1..at[p]
      BY <3>1, <3>2
    <3> QED
      BY <1>1, <2>4, <3>1, <3>2
  <2>6. artifacts \cup deleted \subseteq artifacts' \cup deleted'
    BY <1>1
  <2> QED
    BY <1>0, <1>1, <2>2, <2>5, <2>6, LoopInvOf
<1>5. PinInv' /\ DoneIsPinned'
  BY <1>0, <1>1, CompleteStays DEF PinInv, DoneIsPinned, Pin
<1> QED
  BY <1>3, <1>4, <1>5 DEF IInv

LEMMA AllUploadedStep ==
    ASSUME IInv, NEW p \in Pushes, AllUploaded(p) PROVE IInv'
<1>0. TypeOK /\ LoopInv /\ PinInv /\ DoneIsPinned
  BY DEF IInv
<1>1. /\ \A q \in Pushes \ {p} : pc'[q] = pc[q] /\ at'[q] = at[q]
      /\ pc[p] = "locks" /\ pc'[p] = "put" /\ at[p] > Len(LockList(p))
      /\ UNCHANGED <<at, artifacts, active, late, deleted, pinned, calls>>
  BY <1>0 DEF AllUploaded, Goto, TypeOK
<1>2. TypeOK'
  <2>1. pc' \in [Pushes -> {"idle", "locks", "upload", "put", "done", "failed"}]
    BY <1>0 DEF AllUploaded, Goto, TypeOK
  <2> QED
    BY <1>0, <1>1, <2>1 DEF TypeOK
<1>3. LoopInv'
  <2>1. at[p] - 1 = Len(LockList(p))
    <3>1. at[p] \in Nat /\ Len(LockList(p)) \in Nat
          /\ at[p] <= Len(LockList(p)) + 1
      BY <1>0, <1>1, PushType DEF TypeOK, LoopInv
    <3> QED
      BY <1>1, <3>1
  <2>2. Complete(RevisionOf[p])
    BY <1>0, <1>1, <2>1 DEF LoopInv, Complete, LockList
  <2> QED
    BY <1>0, <1>1, <2>2, LoopInvOf, CompleteStays
<1>4. PinInv' /\ DoneIsPinned'
  BY <1>0, <1>1, CompleteStays DEF PinInv, DoneIsPinned, Pin
<1> QED
  BY <1>2, <1>3, <1>4 DEF IInv

LEMMA PutPolicyStep == ASSUME IInv, NEW p \in Pushes, PutPolicy(p) PROVE IInv'
<1>0. TypeOK /\ LoopInv /\ PinInv /\ DoneIsPinned
  BY DEF IInv
<1>1. /\ \A q \in Pushes \ {p} : pc'[q] = pc[q] /\ at'[q] = at[q]
      /\ pc[p] = "put" /\ pc'[p] \in {"done", "failed"}
      /\ active' = [active EXCEPT ![GroupOf[p]] = RevisionOf[p]]
      /\ pinned' = pinned \cup {Pin(p)}
      /\ UNCHANGED <<at, artifacts, late, deleted, calls>>
  BY <1>0 DEF PutPolicy, Goto, TypeOK
<1>2. TypeOK'
  <2>1. pc' \in [Pushes -> {"idle", "locks", "upload", "put", "done", "failed"}]
    BY <1>0 DEF PutPolicy, Goto, TypeOK
  <2> QED
    BY <1>0, <1>1, <2>1, PushType DEF TypeOK
<1>3. LoopInv'
  BY <1>0, <1>1, LoopInvOf
<1>4. PinInv'
  <2>1. Complete(RevisionOf[p])'
    BY <1>0, <1>1, CompleteStays DEF LoopInv
  <2>2. /\ \A pin \in pinned : Complete(pin.revision)'
        /\ \A q \in late' : q.op = "put" => Complete(q.pin.revision)'
    BY <1>0, <1>1, CompleteStays DEF PinInv
  <2>3. ASSUME NEW g \in Groups, active'[g] # NoRevision
        PROVE  [group |-> g, revision |-> active'[g]] \in pinned'
    BY <1>0, <1>1, <2>3 DEF PinInv, Pin, TypeOK
  <2>4. \A pin \in pinned' : Complete(pin.revision)'
    BY <1>1, <2>1, <2>2 DEF Pin
  <2> QED
    BY <2>2, <2>3, <2>4 DEF PinInv
<1>5. DoneIsPinned'
  BY <1>0, <1>1 DEF DoneIsPinned, Pin
<1> QED
  BY <1>2, <1>3, <1>4, <1>5 DEF IInv

LEMMA FailStep == ASSUME IInv, NEW p \in Pushes, Fail(p) PROVE IInv'
<1>0. TypeOK /\ LoopInv /\ PinInv /\ DoneIsPinned
  BY DEF IInv
<1>1. /\ \A q \in Pushes \ {p} : pc'[q] = pc[q] /\ at'[q] = at[q]
      /\ pc[p] \in {"upload", "put"} /\ pc'[p] = "failed"
      /\ UNCHANGED <<at, artifacts, active, deleted, pinned, calls>>
  BY <1>0 DEF Fail, Goto, TypeOK
<1>2. \A q \in late' : \/ q \in late
                       \/ pc[p] = "upload"
                          /\ q = [op |-> "upload", artifact |-> Artifact(p)]
                       \/ pc[p] = "put" /\ q = [op |-> "put", pin |-> Pin(p)]
  BY DEF Fail
<1>3. TypeOK'
  <2>1. pc' \in [Pushes -> {"idle", "locks", "upload", "put", "done", "failed"}]
    BY <1>0 DEF Fail, Goto, TypeOK
  <2>2. ASSUME NEW q \in late' PROVE q \in Uploading \cup Putting
    <3>1. CASE q \in late
      BY <1>0, <3>1 DEF TypeOK
    <3>2. CASE pc[p] = "upload"
               /\ q = [op |-> "upload", artifact |-> Artifact(p)]
      BY <1>0, <3>2, ArtifactType DEF Uploading
    <3>3. CASE q = [op |-> "put", pin |-> Pin(p)]
      BY <3>3, PushType DEF Putting
    <3> QED
      BY <1>2, <3>1, <3>2, <3>3
  <2> QED
    BY <1>0, <1>1, <2>1, <2>2 DEF TypeOK
<1>4. LoopInv'
  BY <1>0, <1>1, LoopInvOf
<1>5. PinInv'
  <2>1. ASSUME NEW q \in late', q.op = "put" PROVE Complete(q.pin.revision)
    <3>1. CASE q \in late
      BY <1>0, <2>1, <3>1 DEF PinInv
    <3>2. CASE pc[p] = "put" /\ q = [op |-> "put", pin |-> Pin(p)]
      BY <1>0, <3>2 DEF LoopInv, Pin
    <3>3. CASE q = [op |-> "upload", artifact |-> Artifact(p)]
      BY <2>1, <3>3
    <3> QED
      BY <1>2, <3>1, <3>2, <3>3
  <2> QED
    BY <1>0, <1>1, <2>1, CompleteStays DEF PinInv
<1>6. DoneIsPinned'
  BY <1>0, <1>1 DEF DoneIsPinned, Pin
<1> QED
  BY <1>3, <1>4, <1>5, <1>6 DEF IInv

-----------------------------------------------------------------------------
(* What others do to the groups and the artifacts.                         *)

(* No push moves and nothing published is forgotten.                       *)
LEMMA OthersStep ==
    ASSUME IInv, TypeOK', UNCHANGED <<pc, calls, at>>, late' \subseteq late,
           artifacts \cup deleted \subseteq artifacts' \cup deleted',
           pinned \subseteq pinned',
           \A pin \in pinned' \ pinned : Complete(pin.revision),
           \A g \in Groups :
               \/ active'[g] \in {active[g], NoRevision}
               \/ [group |-> g, revision |-> active'[g]] \in pinned'
    PROVE  IInv'
<1>0. TypeOK /\ LoopInv /\ PinInv /\ DoneIsPinned
  BY DEF IInv
<1>1. LoopInv'
  <2>1. \A p \in Pushes : LockList(p)' = LockList(p) /\ Lock(p)' = Lock(p)
    BY DEF LockList, Lock
  <2> QED
    BY <1>0, <2>1, CompleteStays DEF LoopInv
<1>2. PinInv'
  BY <1>0, CompleteStays DEF PinInv
<1>3. DoneIsPinned'
  BY <1>0 DEF DoneIsPinned, Pin
<1> QED
  BY <1>1, <1>2, <1>3 DEF IInv

LEMMA UnpinStep ==
    ASSUME IInv, UNCHANGED <<pc, calls, at, artifacts, late, deleted, pinned>>,
           NEW gs \in SUBSET Groups,
           active' = [g \in Groups |->
                         IF g \in gs THEN NoRevision ELSE active[g]]
    PROVE  IInv'
<1>1. TypeOK'
  BY DEF IInv, TypeOK
<1> QED
  BY <1>1, OthersStep

LEMMA DeleteArtifactStep ==
    ASSUME IInv, NEW a \in artifacts, DeleteArtifact(a) PROVE IInv'
<1>1. TypeOK'
  BY DEF IInv, TypeOK, DeleteArtifact
<1> QED
  BY <1>1, OthersStep DEF DeleteArtifact

LEMMA ServeLateStep == ASSUME IInv, NEW q \in late, ServeLate(q) PROVE IInv'
<1>0. TypeOK /\ PinInv
  BY DEF IInv
<1>1. CASE q.op = "upload"
  <2>1. q.artifact \in Artifacts
    <3>1. q \in Uploading
      BY <1>0, <1>1 DEF TypeOK, Putting
    <3> QED
      BY <3>1 DEF Uploading
  <2>2. TypeOK'
    BY <1>0, <1>1, <2>1 DEF TypeOK, ServeLate
  <2> QED
    BY <1>1, <2>2, OthersStep DEF ServeLate
<1>2. CASE q.op = "put"
  <2>1. q.pin \in Pins
    BY <1>0, <1>2 DEF TypeOK, Uploading, Putting
  <2>2. /\ active' = [active EXCEPT ![q.pin.group] = q.pin.revision]
        /\ pinned' = pinned \cup {q.pin} /\ late' = late \ {q}
        /\ UNCHANGED <<pc, calls, at, artifacts, deleted>>
    BY <1>2 DEF ServeLate
  <2>3. q.pin = [group |-> q.pin.group, revision |-> q.pin.revision]
        /\ q.pin.group \in Groups /\ q.pin.revision \in Revisions
    BY <2>1 DEF Pins
  <2>4. TypeOK'
    BY <1>0, <2>1, <2>2, <2>3 DEF TypeOK
  <2>5. ASSUME NEW g \in Groups
        PROVE  \/ active'[g] = active[g]
               \/ [group |-> g, revision |-> active'[g]] \in pinned'
    BY <1>0, <2>2, <2>3 DEF TypeOK
  <2>6. Complete(q.pin.revision)
    BY <1>0, <1>2 DEF PinInv
  <2> QED
    BY <2>2, <2>4, <2>5, <2>6, OthersStep
<1> QED
  BY <1>1, <1>2 DEF ServeLate

-----------------------------------------------------------------------------
(* Of any number of pushes, failed, repeated and overtaken, and of         *)
(* deletions and late requests in any order.                               *)
THEOREM Invariance == Spec => []IInv
<1>1. IInv /\ [Next]_vars => IInv'
  <2> SUFFICES ASSUME IInv, [Next]_vars PROVE IInv'
    OBVIOUS
  <2>1. ASSUME NEW p \in Pushes, Call(p) \/ Step(p) PROVE IInv'
    BY <2>1, CallStep, CheckLockStep, UploadArtifactStep, AllUploadedStep,
       PutPolicyStep, FailStep DEF Step
  <2>2. ASSUME NEW g \in Groups, DeletePolicy(g) PROVE IInv'
    <3>1. active' = [h \in Groups |->
                        IF h \in {g} THEN NoRevision ELSE active[h]]
      BY <2>2 DEF DeletePolicy, IInv, TypeOK
    <3> QED
      BY <2>2, <3>1, UnpinStep DEF DeletePolicy
  <2>3. ASSUME NEW rs, DeleteRevision(rs) PROVE IInv'
    <3> DEFINE gs == {g \in Groups : active[g] \in rs}
    <3>1. active' = [g \in Groups |->
                        IF g \in gs THEN NoRevision ELSE active[g]]
      BY <2>3 DEF DeleteRevision
    <3> QED
      BY <2>3, <3>1, UnpinStep DEF DeleteRevision
  <2>4. CASE UNCHANGED vars
    <3>1. TypeOK'
      BY <2>4 DEF IInv, TypeOK, vars
    <3> QED
      BY <2>4, <3>1, OthersStep DEF vars
  <2> QED
    BY <2>1, <2>2, <2>3, <2>4, DeleteArtifactStep, ServeLateStep
    DEF Next, Terminated
<1> QED
  BY <1>1, InitIInv, PTL DEF Spec

(* The variables always have their types.                                  *)
THEOREM TypeCorrect == Spec => []TypeOK
BY Invariance, PTL DEF IInv

(* Every artifact of a lock pinned in a group is on the server, unless     *)
(* somebody deleted it.                                                    *)
THEOREM RunnablePins == Spec => []PinnedIsRunnable
<1>1. IInv => PinnedIsRunnable
  <2> SUFFICES ASSUME IInv, NEW g \in Groups, active[g] # NoRevision,
                      NEW i \in DOMAIN LocksOf[active[g]]
               PROVE  LocksOf[active[g]][i] \in artifacts \cup deleted
    BY DEF PinnedIsRunnable, Range
  <2>1. active[g] \in Revisions /\ Complete(active[g])
    BY DEF IInv, TypeOK, PinInv
  <2>2. i \in 1..Len(LocksOf[active[g]])
    BY <2>1, RevisionAssumption
  <2> QED
    BY <2>1, <2>2 DEF Complete, Uploaded
<1> QED
  BY <1>1, Invariance, PTL

(* A push that returned nil pinned its revision.                           *)
THEOREM NilMeansPinned == Spec => []DoneIsPinned
BY Invariance, PTL DEF IInv

-----------------------------------------------------------------------------
(* The refinement.                                                         *)

(* What is pinned late is the pinning of a push that was called.           *)
LateIsOurs ==
    \A q \in late : q.op = "put" =>
        \E p \in Pushes : pc[p] # "idle" /\ q.pin = Pin(p)

LEMMA LateInvariance == Spec => []LateIsOurs
<1>1. Init => LateIsOurs
  BY DEF Init, LateIsOurs
<1>2. IInv /\ LateIsOurs /\ [Next]_vars => LateIsOurs'
  <2> SUFFICES ASSUME IInv, LateIsOurs, [Next]_vars PROVE LateIsOurs'
    OBVIOUS
  <2>0. pc \in [Pushes -> {"idle", "locks", "upload", "put", "done", "failed"}]
        /\ \A p \in Pushes : Pin(p)' = Pin(p)
    BY DEF IInv, TypeOK, Pin
  <2>1. \A p \in Pushes : pc[p] # "idle" => pc'[p] # "idle"
    <3>1. ASSUME NEW q \in Pushes, NEW step, step # "idle", Goto(q, step)
          PROVE  \A p \in Pushes : pc[p] # "idle" => pc'[p] # "idle"
      BY <2>0, <3>1 DEF Goto
    <3>2. ASSUME NEW q \in Pushes, Call(q) \/ Step(q)
          PROVE  \E step : step # "idle" /\ Goto(q, step)
      <4>1. Call(q) => Goto(q, "failed") \/ Goto(q, "locks")
        BY DEF Call
      <4>2. CheckLock(q) => Goto(q, "failed") \/ Goto(q, "upload")
        BY DEF CheckLock
      <4>3. UploadArtifact(q) => Goto(q, "failed") \/ Goto(q, "locks")
        BY DEF UploadArtifact
      <4>4. AllUploaded(q) => Goto(q, "put")
        BY DEF AllUploaded
      <4>5. PutPolicy(q) => Goto(q, "failed") \/ Goto(q, "done")
        BY DEF PutPolicy
      <4>6. Fail(q) => Goto(q, "failed")
        BY DEF Fail
      <4> QED
        BY <3>2, <4>1, <4>2, <4>3, <4>4, <4>5, <4>6 DEF Step
    <3>3. \/ \E q \in Pushes : Call(q) \/ Step(q)
          \/ UNCHANGED pc
      BY DEF Next, DeletePolicy, DeleteRevision, DeleteArtifact, ServeLate,
             Terminated, vars
    <3> QED
      BY <3>1, <3>2, <3>3
  <2>2. ASSUME NEW q \in late', q.op = "put", q \notin late
        PROVE  \E p \in Pushes : pc[p] # "idle" /\ q.pin = Pin(p)
    <3>1. ASSUME NEW p \in Pushes, Fail(p)
          PROVE  pc[p] # "idle" /\ q.pin = Pin(p)
      BY <2>2, <3>1 DEF Fail
    <3>2. \/ \E p \in Pushes : Fail(p)
          \/ late' \subseteq late
      BY DEF Next, Call, Step, CheckLock, UploadArtifact, AllUploaded,
         PutPolicy, DeletePolicy, DeleteRevision, DeleteArtifact, ServeLate,
         Terminated, vars
    <3> QED
      BY <2>2, <3>1, <3>2
  <2> QED
    BY <2>0, <2>1, <2>2 DEF LateIsOurs
<1> QED
  BY <1>1, <1>2, Invariance, PTL DEF Spec

(* The abstract state.                                                     *)
Ready == {revision \in Revisions : Complete(revision)}
ReturnedAll == [p \in Pushes |-> Returned(p)]

LEMMA ReadyGrows ==
    ASSUME artifacts \cup deleted \subseteq artifacts' \cup deleted'
    PROVE  Ready \subseteq Ready'
BY CompleteStays DEF Ready

LEMMA ReadyStays ==
    ASSUME artifacts \cup deleted = artifacts' \cup deleted'
    PROVE  Ready = Ready'
BY DEF Ready, Complete, Uploaded

(* A step of p changes what p returned and nothing else of it.             *)
LEMMA ReturnsChange ==
    ASSUME IInv, NEW p \in Pushes, NEW step, Goto(p, step),
           NEW r, Returned(p)' = r
    PROVE  ReturnedAll' = [ReturnedAll EXCEPT ![p] = r]
<1>1. /\ \A q \in Pushes \ {p} : Returned(q)' = Returned(q)
  BY DEF IInv, TypeOK, Goto, Returned
<1> QED
  BY <1>1 DEF ReturnedAll

LEMMA ReturnsStay == ASSUME UNCHANGED pc PROVE ReturnedAll' = ReturnedAll
BY DEF ReturnedAll, Returned

LEMMA GotoReturns ==
    ASSUME IInv, NEW p \in Pushes, NEW step, Goto(p, step)
    PROVE  /\ pc'[p] = step
           /\ step = "done" => Returned(p)' = "nil"
           /\ step = "failed" => Returned(p)' = "error"
           /\ step \in {"locks", "upload", "put"} => Returned(p)' = "pending"
<1>1. pc'[p] = step
  BY DEF IInv, TypeOK, Goto
<1> QED
  BY <1>1 DEF Returned

(* A push that fails, whatever it did to the artifacts.                    *)
LEMMA FailedImplements ==
    ASSUME IInv, NEW p \in Pushes, pc[p] \in {"locks", "upload", "put"},
           Goto(p, "failed"), UNCHANGED active,
           artifacts \cup deleted \subseteq artifacts' \cup deleted'
    PROVE  Group!Prepare
<1>1. ReturnedAll[p] = "pending"
  BY DEF ReturnedAll, Returned
<1>2. ReturnedAll' = [ReturnedAll EXCEPT ![p] = "error"]
  BY GotoReturns, ReturnsChange
<1> QED
  BY <1>1, <1>2, ReadyGrows DEF Group!Prepare, Group!Returns, Ready, ReturnedAll

(* A push that goes on, and may have uploaded an artifact.                 *)
LEMMA PendingImplements ==
    ASSUME IInv, NEW p \in Pushes, pc[p] \in {"locks", "upload"},
           NEW step \in {"locks", "upload", "put"}, Goto(p, step),
           UNCHANGED active,
           artifacts \cup deleted \subseteq artifacts' \cup deleted'
    PROVE  Group!Prepare
<1>1. ReturnedAll[p] = "pending"
  BY DEF ReturnedAll, Returned
<1>2. ReturnedAll' = [ReturnedAll EXCEPT ![p] = "pending"]
  BY GotoReturns, ReturnsChange
<1>3. ReturnedAll' = ReturnedAll
  BY <1>1, <1>2 DEF ReturnedAll
<1> QED
  BY <1>3, ReadyGrows DEF Group!Prepare, Ready, ReturnedAll

LEMMA CallImplements ==
    ASSUME IInv, NEW p \in Pushes, Call(p) PROVE Group!Call(p)
<1>1. ReturnedAll[p] \in {"never called", "error"}
  BY DEF ReturnedAll, Returned, Call
<1>2. PICK r \in {"pending", "error"} :
          ReturnedAll' = [ReturnedAll EXCEPT ![p] = r]
  BY GotoReturns, ReturnsChange DEF Call
<1>3. Ready' = Ready /\ UNCHANGED active
  BY ReadyStays DEF Call
<1> QED
  BY <1>1, <1>2, <1>3 DEF Group!Call, Ready, ReturnedAll

LEMMA PutPolicyImplements ==
    ASSUME IInv, NEW p \in Pushes, PutPolicy(p) PROVE Group!Pin(p)
<1>1. ReturnedAll[p] = "pending"
  BY DEF ReturnedAll, Returned, PutPolicy
<1>2. PICK r \in {"nil", "error"} :
          ReturnedAll' = [ReturnedAll EXCEPT ![p] = r]
  BY GotoReturns, ReturnsChange DEF PutPolicy
<1>3. Ready' = Ready
  BY ReadyStays DEF PutPolicy
<1>4. RevisionOf[p] \in Ready
  BY PushType DEF PutPolicy, IInv, LoopInv, Ready
<1>5. active' = [active EXCEPT ![GroupOf[p]] = RevisionOf[p]]
  BY DEF PutPolicy
<1> QED
  BY <1>1, <1>2, <1>3, <1>4, <1>5
  DEF Group!Pin, Group!Returns, Ready, ReturnedAll

LEMMA UnpinImplements ==
    ASSUME NEW gs \in SUBSET Groups, UNCHANGED <<pc, artifacts, deleted>>,
           active' = [g \in Groups |->
                         IF g \in gs THEN NoRevision ELSE active[g]]
    PROVE  Group!Unpin
BY ReadyStays, ReturnsStay DEF Group!Unpin, Ready, ReturnedAll

LEMMA ServeLateImplements ==
    ASSUME IInv, LateIsOurs, NEW q \in late, ServeLate(q)
    PROVE  Group!Prepare \/ \E p \in Pushes : Group!Pin(p)
<1>1. CASE q.op = "upload"
  BY <1>1, ReadyGrows, ReturnsStay
  DEF ServeLate, Group!Prepare, Ready, ReturnedAll
<1>2. CASE q.op = "put"
  <2>1. PICK p \in Pushes : pc[p] # "idle" /\ q.pin = Pin(p)
    BY <1>2 DEF LateIsOurs
  <2>2. active' = [active EXCEPT ![GroupOf[p]] = RevisionOf[p]]
        /\ UNCHANGED <<pc, artifacts, deleted>>
    BY <1>2, <2>1 DEF ServeLate, Pin
  <2>3. RevisionOf[p] \in Ready
    BY <1>2, <2>1, PushType DEF IInv, PinInv, Pin, Ready
  <2>4. ReturnedAll[p] # "never called"
    BY <2>1 DEF IInv, TypeOK, ReturnedAll, Returned
  <2> QED
    BY <2>2, <2>3, <2>4, ReadyStays, ReturnsStay
    DEF Group!Pin, Ready, ReturnedAll
<1> QED
  BY <1>1, <1>2 DEF ServeLate

(* PushRevision implements what its callers rely on: a group only goes     *)
(* from one runnable revision to another that one of the pushes was called *)
(* with, and nil means pinned within the call.                             *)
THEOREM ImplementsGroupPolicy == Spec => RefinesGroupPolicy
<1>1. Init => Group!Init
  <2> SUFFICES ASSUME Init PROVE Group!Init
    OBVIOUS
  <2> QED
    BY DEF Init, Group!Init, Returned
<1>2. IInv /\ LateIsOurs /\ [Next]_vars => [Group!Next]_(Group!vars)
  <2> SUFFICES ASSUME IInv, LateIsOurs, [Next]_vars
               PROVE  [Group!Next]_(Group!vars)
    OBVIOUS
  <2>1. ASSUME NEW p \in Pushes, CheckLock(p) PROVE Group!Prepare
    BY <2>1, FailedImplements, PendingImplements DEF CheckLock
  <2>2. ASSUME NEW p \in Pushes, UploadArtifact(p) PROVE Group!Prepare
    BY <2>2, FailedImplements, PendingImplements DEF UploadArtifact
  <2>3. ASSUME NEW p \in Pushes, AllUploaded(p) PROVE Group!Prepare
    BY <2>3, PendingImplements DEF AllUploaded
  <2>4. ASSUME NEW p \in Pushes, Fail(p) PROVE Group!Prepare
    BY <2>4, FailedImplements DEF Fail
  <2>5. ASSUME NEW g \in Groups, DeletePolicy(g) PROVE Group!Unpin
    <3>1. active' = [h \in Groups |->
                        IF h \in {g} THEN NoRevision ELSE active[h]]
      BY <2>5 DEF DeletePolicy, IInv, TypeOK
    <3> QED
      BY <2>5, <3>1, UnpinImplements DEF DeletePolicy
  <2>6. ASSUME NEW rs, DeleteRevision(rs) PROVE Group!Unpin
    <3> DEFINE gs == {g \in Groups : active[g] \in rs}
    <3>1. active' = [g \in Groups |->
                        IF g \in gs THEN NoRevision ELSE active[g]]
      BY <2>6 DEF DeleteRevision
    <3> QED
      BY <2>6, <3>1, UnpinImplements DEF DeleteRevision
  <2>7. ASSUME UNCHANGED <<pc, active>>,
               artifacts \cup deleted = artifacts' \cup deleted'
        PROVE  UNCHANGED Group!vars
    BY <2>7, ReadyStays, ReturnsStay DEF Group!vars, Ready, ReturnedAll
  <2>8. ASSUME NEW a \in artifacts, DeleteArtifact(a) PROVE UNCHANGED Group!vars
    BY <2>7, <2>8 DEF DeleteArtifact
  <2>9. CASE UNCHANGED vars
    BY <2>7, <2>9 DEF vars
  <2> QED
    BY <2>1, <2>2, <2>3, <2>4, <2>5, <2>6, <2>8, <2>9, CallImplements,
       PutPolicyImplements, ServeLateImplements
    DEF Next, Step, Terminated, Group!Next
<1> QED
  BY <1>1, <1>2, Invariance, LateInvariance, PTL
  DEF Spec, RefinesGroupPolicy, Group!Spec
=============================================================================
