----------------------------- MODULE PolicyPush -----------------------------
(***************************************************************************)
(* Policies.PushRevision (policies.go): the artifacts of all cookbooks of  *)
(* a Policyfile lock are uploaded one after the other, then the lock is    *)
(* pinned into a policy group with PolicyGroups.PutPolicy. Several pushes, *)
(* of the same or of different revisions, run at once; a failed one may be *)
(* called again; groups, pinnings and artifacts may be deleted meanwhile.  *)
(*                                                                         *)
(* CookbookArtifacts.Upload is one step here (CookbookUpload has its       *)
(* details): it publishes the artifact and says so, or it fails, and then  *)
(* the artifact may have been published, or may be published later. So may *)
(* the pinning of a PutPolicy that failed. The server is external.         *)
(***************************************************************************)
EXTENDS Naturals, Sequences, FiniteSets

CONSTANTS
    Names,             \* names of cookbooks
    Identifiers,       \* content identifiers of cookbook artifacts
    NoIdentifier,      \* the empty string in place of an identifier
    Revisions,         \* Policyfile locks, all of the same policy
    LocksOf,           \* cookbook_locks of each, in the order of sortedKeys
    Malformed,         \* locks that are not JSON or have no name
    Groups,            \* policy groups
    NoRevision,        \* the policy is not pinned in the group
    Pushes,            \* callers of PushRevision
    RevisionOf,        \* the lock each of them pushes
    GroupOf,           \* and the group it pushes to
    Supplied,          \* and the cookbooks it supplies, by lock name
    MaxCalls,          \* how often each calls PushRevision
    MaxDeleted         \* bound on the number of artifacts deleted

Locks == [name : Names, identifier : Identifiers \cup {NoIdentifier}]

ASSUME IdentifierAssumption == NoIdentifier \notin Identifiers
ASSUME RevisionAssumption == NoRevision \notin Revisions
                             /\ LocksOf \in [Revisions -> Seq(Locks)]
                             /\ Malformed \subseteq Revisions
ASSUME PushAssumption == /\ RevisionOf \in [Pushes -> Revisions]
                         /\ GroupOf \in [Pushes -> Groups]
                         /\ Supplied \in [Pushes -> SUBSET Names]
ASSUME BoundsAssumption == MaxCalls \in [Pushes -> Nat] /\ MaxDeleted \in Nat

VARIABLES
    pc,                \* the next step of each push
    calls,             \* how often each caller has called PushRevision
    at,                \* position of the loop over the cookbook locks
    artifacts,         \* cookbook artifacts on the server
    active,            \* revision pinned in each group
    late,              \* requests given up by their call but still under way
    deleted,           \* history: artifacts that were deleted
    pinned             \* history: group and revision of every pinning

vars == <<pc, calls, at, artifacts, active, late, deleted, pinned>>

Artifacts == [name : Names, identifier : Identifiers]
Pins == [group : Groups, revision : Revisions]
Uploading == [op : {"upload"}, artifact : Artifacts]
Putting == [op : {"put"}, pin : Pins]

TypeOK ==
    /\ pc \in [Pushes -> {"idle", "locks", "upload", "put", "done", "failed"}]
    /\ calls \in [Pushes -> Nat]
    /\ at \in [Pushes -> Nat]
    /\ artifacts \subseteq Artifacts
    /\ active \in [Groups -> Revisions \cup {NoRevision}]
    /\ late \subseteq Uploading \cup Putting
    /\ deleted \subseteq Artifacts
    /\ pinned \subseteq Pins

Init ==
    /\ pc = [p \in Pushes |-> "idle"]
    /\ calls = [p \in Pushes |-> 0]
    /\ at = [p \in Pushes |-> 1]
    /\ artifacts = {}
    /\ active = [g \in Groups |-> NoRevision]
    /\ late = {} /\ deleted = {} /\ pinned = {}

Goto(p, step) == pc' = [pc EXCEPT ![p] = step]

LockList(p) == LocksOf[RevisionOf[p]]

(* The lock the loop is at, and the artifact uploaded for it. The caller   *)
(* supplies under the name of a lock a cookbook of that name.              *)
Lock(p) == LockList(p)[at[p]]
Artifact(p) == [name |-> Lock(p).name, identifier |-> Lock(p).identifier]

Pin(p) == [group |-> GroupOf[p], revision |-> RevisionOf[p]]

-----------------------------------------------------------------------------
(* The pushes.                                                             *)

(* Mutated: a lock that does not parse is pushed like one with no          *)
(* cookbooks.                                                              *)
CallUnparsed(p) ==
    /\ pc[p] \in {"idle", "failed"}
    /\ calls[p] < MaxCalls[p]
    /\ calls' = [calls EXCEPT ![p] = @ + 1]
    /\ at' = [at EXCEPT ![p] = 1]
    /\ Goto(p, IF RevisionOf[p] \in Malformed THEN "put" ELSE "locks")
    /\ UNCHANGED <<artifacts, active, late, deleted, pinned>>

(* PushRevision is called, for the first time or after a failure, and      *)
(* parses the lock.                                                        *)
Call(p) ==
    /\ pc[p] \in {"idle", "failed"}
    /\ calls[p] < MaxCalls[p]
    /\ calls' = [calls EXCEPT ![p] = @ + 1]
    /\ at' = [at EXCEPT ![p] = 1]
    /\ Goto(p, IF RevisionOf[p] \in Malformed THEN "failed" ELSE "locks")
    /\ UNCHANGED <<artifacts, active, late, deleted, pinned>>

(* Mutated: a lock without a cookbook is skipped, not refused.             *)
CheckLockSkips(p) ==
    /\ pc[p] = "locks"
    /\ at[p] <= Len(LockList(p))
    /\ IF Lock(p).name \in Supplied[p] /\ Lock(p).identifier # NoIdentifier
       THEN Goto(p, "upload") /\ UNCHANGED at
       ELSE at' = [at EXCEPT ![p] = @ + 1] /\ UNCHANGED pc
    /\ UNCHANGED <<calls, artifacts, active, late, deleted, pinned>>

(* The next lock has an identifier and a cookbook, or the push is refused, *)
(* with the artifacts of the locks before it uploaded.                     *)
CheckLock(p) ==
    /\ pc[p] = "locks"
    /\ at[p] <= Len(LockList(p))
    /\ Goto(p, IF /\ Lock(p).identifier # NoIdentifier
                  /\ Lock(p).name \in Supplied[p]
               THEN "upload" ELSE "failed")
    /\ UNCHANGED <<calls, at, artifacts, active, late, deleted, pinned>>

(* CookbookArtifacts.Upload publishes the artifact, and the push learns of *)
(* it and goes on, or does not and fails.                                  *)
UploadArtifact(p) ==
    /\ pc[p] = "upload"
    /\ artifacts' = artifacts \cup {Artifact(p)}
    /\ \/ Goto(p, "locks") /\ at' = [at EXCEPT ![p] = @ + 1]
       \/ Goto(p, "failed") /\ UNCHANGED at
    /\ UNCHANGED <<calls, active, late, deleted, pinned>>

(* The loop is over.                                                       *)
AllUploaded(p) ==
    /\ pc[p] = "locks"
    /\ at[p] > Len(LockList(p))
    /\ Goto(p, "put")
    /\ UNCHANGED <<calls, at, artifacts, active, late, deleted, pinned>>

(* PutPolicy is served, and the push learns of it or does not.             *)
PutPolicy(p) ==
    /\ pc[p] = "put"
    /\ active' = [active EXCEPT ![GroupOf[p]] = RevisionOf[p]]
    /\ pinned' = pinned \cup {Pin(p)}
    /\ \E step \in {"done", "failed"} : Goto(p, step)
    /\ UNCHANGED <<calls, at, artifacts, late, deleted>>

(* An upload or PutPolicy fails, or the context is canceled, and what it   *)
(* asked for is not done, or not yet.                                      *)
Fail(p) ==
    /\ pc[p] \in {"upload", "put"}
    /\ Goto(p, "failed")
    /\ \/ UNCHANGED late
       \/ /\ pc[p] = "upload"
          /\ late' = late \cup {[op |-> "upload", artifact |-> Artifact(p)]}
       \/ /\ pc[p] = "put"
          /\ late' = late \cup {[op |-> "put", pin |-> Pin(p)]}
    /\ UNCHANGED <<calls, at, artifacts, active, deleted, pinned>>

-----------------------------------------------------------------------------
(* Other operations of the client on what a push makes.                    *)

(* PolicyGroups.DeletePolicy, and PolicyGroups.Delete.                     *)
DeletePolicy(g) ==
    /\ active' = [active EXCEPT ![g] = NoRevision]
    /\ UNCHANGED <<pc, calls, at, artifacts, late, deleted, pinned>>

(* Policies.DeleteRevision, and Policies.Delete, which deletes all of them. *)
(* The server (external) drops the pinnings of a revision with it.         *)
DeleteRevision(rs) ==
    /\ active' = [g \in Groups |->
                     IF active[g] \in rs THEN NoRevision ELSE active[g]]
    /\ UNCHANGED <<pc, calls, at, artifacts, late, deleted, pinned>>

(* CookbookArtifacts.Delete.                                               *)
DeleteArtifact(a) ==
    /\ Cardinality(deleted \cup {a}) <= MaxDeleted
    /\ artifacts' = artifacts \ {a}
    /\ deleted' = deleted \cup {a}
    /\ UNCHANGED <<pc, calls, at, active, late, pinned>>

(* The server (external) serves a request whose call is over.              *)
ServeLate(q) ==
    /\ late' = late \ {q}
    /\ \/ /\ q.op = "upload"
          /\ artifacts' = artifacts \cup {q.artifact}
          /\ UNCHANGED <<active, pinned>>
       \/ /\ q.op = "put"
          /\ active' = [active EXCEPT ![q.pin.group] = q.pin.revision]
          /\ pinned' = pinned \cup {q.pin}
          /\ UNCHANGED artifacts
    /\ UNCHANGED <<pc, calls, at, deleted>>

-----------------------------------------------------------------------------
Step(p) == \/ CheckLock(p) \/ UploadArtifact(p) \/ AllUploaded(p)
           \/ PutPolicy(p) \/ Fail(p)

Terminated ==
    /\ \A p \in Pushes : pc[p] \in {"idle", "done", "failed"}
    /\ UNCHANGED vars

Next ==
    \/ \E p \in Pushes : Call(p) \/ Step(p)
    \/ \E g \in Groups : DeletePolicy(g)
    \/ \E r \in Revisions : DeleteRevision({r})
    \/ DeleteRevision(Revisions)
    \/ \E a \in artifacts : DeleteArtifact(a)
    \/ \E q \in late : ServeLate(q)
    \/ Terminated

Spec == Init /\ [][Next]_vars

-----------------------------------------------------------------------------
(* Correctness.                                                            *)

Range(s) == {s[i] : i \in DOMAIN s}

(* A node of a group can always fetch what the group's policy pins: every  *)
(* artifact of a pinned lock is on the server, unless somebody deleted it, *)
(* whichever pushes failed, were repeated or overtook each other.          *)
PinnedIsRunnable ==
    \A g \in Groups : active[g] # NoRevision =>
        Range(LocksOf[active[g]]) \subseteq artifacts \cup deleted

(* A push that returned nil has pinned its revision.                       *)
DoneIsPinned == \A p \in Pushes : pc[p] = "done" => Pin(p) \in pinned

-----------------------------------------------------------------------------
(* The inductive invariant: a push has uploaded the locks behind it, and   *)
(* has seen that they are complete; what may be pinned late was complete   *)
(* when it was sent.                                                       *)

Uploaded(lock) == lock.identifier # NoIdentifier
                  /\ lock \in artifacts \cup deleted

Complete(revision) ==
    /\ revision \notin Malformed
    /\ \A i \in 1..Len(LocksOf[revision]) : Uploaded(LocksOf[revision][i])

LoopInv ==
    \A p \in Pushes :
        /\ pc[p] \in {"locks", "upload"} =>
            /\ RevisionOf[p] \notin Malformed
            /\ at[p] >= 1 /\ at[p] <= Len(LockList(p)) + 1
            /\ \A i \in 1..(at[p] - 1) : Uploaded(LockList(p)[i])
        /\ pc[p] = "upload" => /\ at[p] <= Len(LockList(p))
                               /\ Lock(p).identifier # NoIdentifier
        /\ pc[p] = "put" => Complete(RevisionOf[p])

PinInv ==
    /\ \A pin \in pinned : Complete(pin.revision)
    /\ \A q \in late : q.op = "put" => Complete(q.pin.revision)
    /\ \A g \in Groups : active[g] # NoRevision =>
        [group |-> g, revision |-> active[g]] \in pinned

IInv == TypeOK /\ LoopInv /\ PinInv /\ DoneIsPinned

-----------------------------------------------------------------------------
(* The pushes implement what their callers rely on.                        *)

Returned(p) == CASE pc[p] = "idle" -> "never called"
                 [] pc[p] = "done" -> "nil"
                 [] pc[p] = "failed" -> "error"
                 [] OTHER -> "pending"

Group == INSTANCE GroupPolicy WITH
    Revisions <- Revisions, NoRevision <- NoRevision, Groups <- Groups,
    Pushes <- Pushes, RevisionOf <- RevisionOf, GroupOf <- GroupOf,
    ready <- {revision \in Revisions : Complete(revision)},
    active <- active,
    returned <- [p \in Pushes |-> Returned(p)]

(* A group only ever goes from one runnable revision to another that one   *)
(* of the pushes was called with, and nil means pinned within the call:    *)
(* never a lock that does not parse or lacks an identifier anywhere,       *)
(* although the artifacts of the locks before the bad one are uploaded.    *)
RefinesGroupPolicy == Group!Spec

=============================================================================
