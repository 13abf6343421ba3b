------------------------ MODULE CookbookUploadProofs ------------------------
(***************************************************************************)
(* Proofs about concurrent uploads, for any cookbooks, any number of       *)
(* callers and any number of repetitions. blobs only grows, so what is     *)
(* known, published or under way stays covered by it; the step that has to *)
(* be argued is that a batch that returned nil leaves every content of its *)
(* cookbook in store.                                                      *)
(*                                                                         *)
(* The second part is about CookbookWalk, which reads the cookbook that is *)
(* uploaded, for any tree, any patterns and any changes meanwhile: what    *)
(* Ignores asks is what a chefignore means, and what is not ignored stays  *)
(* ahead of the walk until it is collected. The two share no state.        *)
(***************************************************************************)
EXTENDS CookbookUpload, CookbookWalk, WellFoundedInduction, TLAPS

LEMMA LeastNat ==
    ASSUME NEW T \in SUBSET Nat, T # {}
    PROVE  \E x \in T : \A y \in T : x <= y
<1>1. PICK x \in T : \A y \in T : ~ (<<y, x>> \in OpToRel(<, Nat))
  BY WFMin, NatLessThanWellFounded
<1>2. \A y \in T : ~ (y < x)
  BY <1>1 DEF OpToRel
<1> QED
  BY <1>2

LEMMA FilesType ==
    ASSUME NEW u \in Uploads
    PROVE  /\ DOMAIN Files(u) \in SUBSET Nat
           /\ \A i \in DOMAIN Files(u) : Files(u)[i] \in Checksums
           /\ Sums(u) \in SUBSET Checksums
<1>1. Files(u) \in Seq(Checksums)
  BY FilesAssumption, UploadsAssumption DEF Files
<1> QED
  BY <1>1 DEF Sums

(* The loop over cb.files creates a job for every content that the server  *)
(* does not know: the first file that has it is not skipped.               *)
LEMMA JobsCover ==
    ASSUME NEW u \in Uploads, NEW c \in Sums(u), c \notin known
    PROVE  \E i \in Jobs(u) : Files(u)[i] = c
<1> DEFINE T == {i \in DOMAIN Files(u) : Files(u)[i] = c}
<1>1. T \in SUBSET Nat /\ T # {}
  BY FilesType DEF Sums
<1>2. PICK i \in T : \A j \in T : i <= j
  BY <1>1, LeastNat
<1>3. i \in Nat /\ i \in DOMAIN Files(u) /\ Files(u)[i] = c
  BY <1>1
<1>4. ASSUME NEW j \in 1..(i - 1) PROVE Files(u)[j] # c
  <2>1. Files(u) \in Seq(Checksums)
    BY FilesAssumption, UploadsAssumption DEF Files
  <2>2. j \in DOMAIN Files(u) /\ j < i
    BY <1>3, <1>4, <2>1
  <2> QED
    BY <1>2, <1>3, <2>2
<1> QED
  BY <1>3, <1>4 DEF Jobs

(* ... and only one.                                                       *)
LEMMA JobsDistinct ==
    ASSUME NEW u \in Uploads, NEW i \in Jobs(u), NEW j \in Jobs(u),
           Files(u)[i] = Files(u)[j]
    PROVE  i = j
<1>1. i \in Nat \ {0} /\ j \in Nat \ {0}
  <2>1. Files(u) \in Seq(Checksums)
    BY FilesAssumption, UploadsAssumption DEF Files
  <2> QED
    BY <2>1 DEF Jobs
<1>2. ~(i < j) /\ ~(j < i)
  BY <1>1 DEF Jobs
<1> QED
  BY <1>1, <1>2

Fits(m) == AsAsked(m) /\ (Sound(m.upload) => Matches(m))

(* The manifest of a running call is as it was asked for: neither its copy *)
(* nor the struct has been touched by another.                             *)
LEMMA ManifestType ==
    ASSUME TypeOK, StructInv, NEW u \in Uploads, pc[u] \in Busy
    PROVE  /\ Manifest(u) \in Manifests /\ Fits(Manifest(u))
           /\ Manifest(u).checksums = Sums(u) /\ Manifest(u).upload = u
<1>1. Identifier(u) = Asked(u) /\ Asked(u) \in Identifiers
  BY UploadsAssumption, IdentifiersAssumption DEF StructInv, Identifier, Asked
<1>2. Sums(u) \in SUBSET Checksums /\ IsArtifact[u] \in BOOLEAN
  BY FilesType, UploadsAssumption
<1>3. Manifest(u) \in Manifests
  BY <1>1, <1>2 DEF Manifest, Manifests
<1>4. Fits(Manifest(u))
  BY <1>1, <1>2, IdentifiersAssumption
  DEF Manifest, Fits, AsAsked, Sound, Matches
<1> QED
  BY <1>3, <1>4 DEF Manifest

LEMMA InitIInv == Init => IInv
<1> SUFFICES ASSUME Init PROVE IInv
  OBVIOUS
<1>1. TypeOK
  BY IdentifiersAssumption DEF Init, TypeOK, Phases
<1>2. OutcomeInv /\ NoDuplicateTransfer
  BY DEF Init, OutcomeInv, NoDuplicateTransfer
<1>3. StoredInv
  BY DEF Init, StoredInv, CommittedIsStored, ManifestComplete
<1>4. StructInv /\ DoneIsPublished
  BY DEF Init, StructInv, ManifestMatchesEndpoint, DoneIsPublished, Busy
<1> QED
  BY <1>1, <1>2, <1>3, <1>4 DEF IInv

-----------------------------------------------------------------------------
LEMMA CallStep == ASSUME IInv, NEW u \in Uploads, Call(u) PROVE IInv'
<1>0. TypeOK /\ OutcomeInv /\ StoredInv /\ StructInv /\ DoneIsPublished
      /\ NoDuplicateTransfer
  BY DEF IInv
<1>1. TypeOK'
  <2>1. pc' \in [Uploads -> Phases]
    BY <1>0 DEF Call, Goto, TypeOK, Phases
  <2>2. calls' \in [Uploads -> Nat]
    <3>1. calls \in [Uploads -> Nat] /\ calls[u] + 1 \in Nat
      BY <1>0 DEF TypeOK
    <3>2. calls' = [calls EXCEPT ![u] = calls[u] + 1]
      BY DEF Call
    <3> QED
      BY <3>1, <3>2
  <2>4. copy' \in [Uploads -> Identifiers]
    <3>1. (IF IsArtifact[u] THEN IdentifierOf[u] ELSE "") \in Identifiers
      BY IdentifiersAssumption
    <3> QED
      BY <1>0, <3>1 DEF Call, TypeOK
  <2>3. UNCHANGED <<field, outcome, blobs, known, published, late>>
    BY DEF Call
  <2> QED
    BY <1>0, <2>1, <2>2, <2>3, <2>4 DEF TypeOK
<1>2. /\ \A v \in Uploads \ {u} : pc'[v] = pc[v] /\ copy'[v] = copy[v]
      /\ pc'[u] = "sandbox" /\ (IsArtifact[u] => copy'[u] = IdentifierOf[u])
      /\ UNCHANGED <<field, outcome, blobs, known, published, late>>
  BY <1>0 DEF Call, Goto, TypeOK
<1>3. OutcomeInv' /\ NoDuplicateTransfer'
  BY <1>0, <1>2 DEF OutcomeInv, NoDuplicateTransfer
<1>4. StoredInv'
  BY <1>0, <1>2 DEF StoredInv, CommittedIsStored, ManifestComplete
<1>5. StructInv' /\ DoneIsPublished'
  BY <1>0, <1>2 DEF StructInv, ManifestMatchesEndpoint, DoneIsPublished
<1> QED
  BY <1>1, <1>3, <1>4, <1>5 DEF IInv

LEMMA CreateSandboxStep ==
    ASSUME IInv, NEW u \in Uploads, CreateSandbox(u) PROVE IInv'
<1>0. TypeOK /\ OutcomeInv /\ StoredInv /\ StructInv /\ DoneIsPublished
      /\ NoDuplicateTransfer
  BY DEF IInv
<1> USE DEF CreateSandbox, Goto
<1>1. /\ \A v \in Uploads \ {u} : outcome'[v] = outcome[v] /\ pc'[v] = pc[v]
      /\ outcome'[u] = [i \in Jobs(u) |-> "none"] /\ pc'[u] = "transfer"
  BY <1>0 DEF TypeOK
<1>2. TypeOK'
  <2>1. outcome' = [v \in Uploads |-> outcome'[v]]
    BY <1>0 DEF TypeOK
  <2>2. ASSUME NEW v \in Uploads
        PROVE  /\ DOMAIN outcome'[v] \subseteq DOMAIN Files(v)
               /\ outcome'[v] \in [DOMAIN outcome'[v] -> {"none", "ok", "fail"}]
    BY <1>0, <1>1 DEF TypeOK, Jobs
  <2> QED
    BY <1>0, <2>1, <2>2 DEF TypeOK, Phases
<1>3. OutcomeInv'
  <2>1. ASSUME NEW c \in Sums(u) \ blobs
        PROVE  \E i \in DOMAIN outcome'[u] : Files(u)[i] = c
    BY <1>0, <1>1, JobsCover DEF StoredInv, CommittedIsStored
  <2> QED
    BY <1>0, <1>1, <2>1 DEF OutcomeInv
<1>4. NoDuplicateTransfer'
  BY <1>0, <1>1, JobsDistinct DEF NoDuplicateTransfer
<1>5. StoredInv'
  BY <1>0, <1>1 DEF StoredInv, CommittedIsStored, ManifestComplete
<1>6. StructInv' /\ DoneIsPublished'
  BY <1>0, <1>1 DEF StructInv, ManifestMatchesEndpoint, DoneIsPublished, Busy
<1> QED
  BY <1>2, <1>3, <1>4, <1>5, <1>6 DEF IInv

LEMMA TransferStep ==
    ASSUME IInv, NEW u \in Uploads, NEW i \in DOMAIN outcome[u],
           Transfer(u, i)
    PROVE  IInv'
<1>0. TypeOK /\ OutcomeInv /\ StoredInv /\ StructInv /\ DoneIsPublished
      /\ NoDuplicateTransfer
  BY DEF IInv
<1>1. PICK r \in {"ok", "fail"} :
        /\ outcome' = [outcome EXCEPT ![u][i] = r]
        /\ r = "ok" => Files(u)[i] \in blobs'
  BY DEF Transfer
<1>2. /\ blobs \subseteq blobs' /\ blobs' \subseteq blobs \cup {Files(u)[i]}
      /\ UNCHANGED <<pc, calls, field, copy, known, published, late>>
  BY DEF Transfer
<1>3. /\ \A v \in Uploads \ {u} : outcome'[v] = outcome[v]
      /\ outcome'[u] = [outcome[u] EXCEPT ![i] = r]
      /\ outcome' = [v \in Uploads |-> outcome'[v]]
  BY <1>0, <1>1 DEF TypeOK
<1>4. \A v \in Uploads : DOMAIN outcome'[v] = DOMAIN outcome[v]
  BY <1>3
<1>5. TypeOK'
  <2>1. ASSUME NEW v \in Uploads
        PROVE  /\ DOMAIN outcome'[v] \subseteq DOMAIN Files(v)
               /\ outcome'[v] \in [DOMAIN outcome'[v] -> {"none", "ok", "fail"}]
    BY <1>0, <1>3, <1>4 DEF TypeOK
  <2>2. blobs' \subseteq Checksums
    BY <1>0, <1>2, FilesType DEF TypeOK
  <2> QED
    BY <1>0, <1>2, <1>3, <2>1, <2>2 DEF TypeOK
<1>6. OutcomeInv'
  <2>1. ASSUME NEW v \in Uploads, NEW j \in DOMAIN outcome'[v],
               outcome'[v][j] = "ok"
        PROVE  Files(v)[j] \in blobs'
    BY <1>0, <1>1, <1>2, <1>3, <1>4, <2>1 DEF OutcomeInv, TypeOK
  <2>2. ASSUME NEW v \in Uploads, pc'[v] = "transfer",
               NEW c \in Sums(v) \ blobs'
        PROVE  \E j \in DOMAIN outcome'[v] : Files(v)[j] = c
    BY <1>0, <1>2, <1>4, <2>2 DEF OutcomeInv
  <2> QED
    BY <2>1, <2>2 DEF OutcomeInv
<1>7. NoDuplicateTransfer'
  BY <1>0, <1>4 DEF NoDuplicateTransfer
<1>8. StoredInv'
  BY <1>0, <1>2 DEF StoredInv, CommittedIsStored, ManifestComplete
<1>9. StructInv' /\ DoneIsPublished'
  BY <1>0, <1>2 DEF StructInv, ManifestMatchesEndpoint, DoneIsPublished
<1> QED
  BY <1>5, <1>6, <1>7, <1>8, <1>9 DEF IInv

(* The remaining steps of an upload leave its batch and blobs alone. When  *)
(* the batch returned nil, every job is ok and every content in store.     *)
LEMMA PhaseStep ==
    ASSUME IInv, NEW u \in Uploads,
           TransfersDone(u) \/ CommitSandbox(u) \/ PutManifest(u) \/ Fail(u)
    PROVE  IInv'
<1>0. TypeOK /\ OutcomeInv /\ StoredInv /\ StructInv /\ DoneIsPublished
      /\ NoDuplicateTransfer
  BY DEF IInv
<1> USE DEF TransfersDone, CommitSandbox, PutManifest, Fail, Goto
<1>1. UNCHANGED <<calls, field, copy, outcome, blobs>>
  OBVIOUS
<1>2. PICK p \in {"commit", "manifest", "done", "failed"} :
        pc' = [pc EXCEPT ![u] = p]
  OBVIOUS
<1>3. /\ \A v \in Uploads \ {u} : pc'[v] = pc[v]
      /\ pc'[u] = p /\ pc[u] \in Busy
  BY <1>0, <1>2 DEF TypeOK, Busy
<1>4. /\ Manifest(u) \in Manifests /\ Fits(Manifest(u))
      /\ Manifest(u).checksums = Sums(u) /\ Manifest(u).upload = u
      /\ Sums(u) \in SUBSET Checksums
  BY <1>0, <1>3, ManifestType, FilesType
<1>5. pc[u] \in {"commit", "manifest"} \/ p = "commit" =>
        Sums(u) \subseteq blobs
  <2>1. CASE TransfersDone(u)
    BY <1>0, <2>1 DEF OutcomeInv, AllTransferred
  <2>2. CASE pc[u] \in {"commit", "manifest"}
    BY <1>0, <2>2 DEF StoredInv
  <2>3. CASE ~TransfersDone(u) /\ pc[u] \notin {"commit", "manifest"}
    <3>1. p = "failed"
      BY <1>0, <1>3, <2>3 DEF TypeOK
    <3> QED
      BY <2>3, <3>1
  <2> QED
    BY <2>1, <2>2, <2>3
<1>6. p = "manifest" => pc[u] = "commit"
  BY <1>0, <1>3 DEF TypeOK
<1> DEFINE c == [op |-> "commit", checksums |-> Sums(u)]
           m == [op |-> "put", manifest |-> Manifest(u)]
<1>7. /\ known' \in {known, known \cup Sums(u)}
      /\ known' # known => pc[u] = "commit"
      /\ published' \in {published, published \cup {Manifest(u)}}
      /\ published' # published => pc[u] = "manifest"
      /\ p = "done" => published' = published \cup {Manifest(u)}
  BY <1>0, <1>3 DEF TypeOK
<1>8. /\ late' \in {late, late \cup {c}, late \cup {m}}
      /\ late' # late => pc[u] \in {"commit", "manifest"}
  OBVIOUS
<1>9. /\ c \in CommitRequests /\ c.op = "commit" /\ c.checksums = Sums(u)
      /\ m \in PutRequests /\ m.op = "put" /\ m.manifest = Manifest(u)
  BY <1>4 DEF CommitRequests, PutRequests
<1> HIDE DEF TransfersDone, CommitSandbox, PutManifest, Fail, Goto, c, m
<1>10. TypeOK'
  BY <1>0, <1>1, <1>2, <1>4, <1>7, <1>8, <1>9 DEF TypeOK, Phases
<1>11. OutcomeInv' /\ NoDuplicateTransfer'
  BY <1>0, <1>1, <1>3 DEF OutcomeInv, NoDuplicateTransfer
<1>12. StoredInv'
  <2>1. known' \subseteq blobs /\ \A w \in published' : w.checksums \subseteq blobs
    BY <1>0, <1>4, <1>5, <1>7
    DEF StoredInv, CommittedIsStored, ManifestComplete
  <2>2. ASSUME NEW q \in late'
        PROVE  /\ q.op = "commit" => q.checksums \subseteq blobs
               /\ q.op = "put" => q.manifest.checksums \subseteq blobs
    BY <1>0, <1>4, <1>5, <1>8, <1>9 DEF StoredInv
  <2>3. ASSUME NEW v \in Uploads, pc'[v] \in {"commit", "manifest"}
        PROVE  Sums(v) \subseteq blobs
    BY <1>0, <1>3, <1>5, <1>6, <2>3 DEF StoredInv
  <2> QED
    BY <1>1, <2>1, <2>2, <2>3
    DEF StoredInv, CommittedIsStored, ManifestComplete
<1>13. StructInv'
  <2>1. \A q \in late' : q.op = "put" => Fits(q.manifest)
    BY <1>0, <1>4, <1>8, <1>9 DEF StructInv, Fits
  <2>2. \A w \in published' : Fits(w)
    BY <1>0, <1>4, <1>7 DEF StructInv, ManifestMatchesEndpoint, Fits
  <2> QED
    BY <1>0, <1>1, <1>3, <2>1, <2>2
    DEF StructInv, ManifestMatchesEndpoint, Fits
<1>14. DoneIsPublished'
  BY <1>0, <1>3, <1>4, <1>7 DEF DoneIsPublished
<1> QED
  BY <1>10, <1>11, <1>12, <1>13, <1>14 DEF IInv

(* A request served late was sent when everything it names was in store.   *)
LEMMA ServeLateStep ==
    ASSUME IInv, NEW q \in late, ServeLate(q) PROVE IInv'
<1>0. TypeOK /\ OutcomeInv /\ StoredInv /\ StructInv /\ DoneIsPublished
      /\ NoDuplicateTransfer
  BY DEF IInv
<1>1. /\ UNCHANGED <<pc, calls, field, copy, outcome, blobs>>
      /\ late' \subseteq late
  BY DEF ServeLate
<1>2. \/ /\ q.op = "commit" /\ known' = known \cup q.checksums
         /\ published' = published
      \/ /\ q.op = "put" /\ published' = published \cup {q.manifest}
         /\ known' = known
  BY DEF ServeLate
<1>3. /\ q.op = "commit" => q.checksums \subseteq Checksums
      /\ q.op = "put" => q.manifest \in Manifests
  BY <1>0 DEF TypeOK, CommitRequests, PutRequests
<1>4. TypeOK'
  BY <1>0, <1>1, <1>2, <1>3 DEF TypeOK
<1>5. OutcomeInv' /\ NoDuplicateTransfer'
  BY <1>0, <1>1 DEF OutcomeInv, NoDuplicateTransfer
<1>6. StoredInv'
  BY <1>0, <1>1, <1>2 DEF StoredInv, CommittedIsStored, ManifestComplete
<1>7. StructInv' /\ DoneIsPublished'
  BY <1>0, <1>1, <1>2 DEF StructInv, ManifestMatchesEndpoint, DoneIsPublished
<1> QED
  BY <1>4, <1>5, <1>6, <1>7 DEF IInv

LEMMA StutterStep == ASSUME IInv, UNCHANGED vars PROVE IInv'
<1>0. UNCHANGED <<pc, calls, field, copy, outcome, blobs, known, published,
                  late>>
  BY DEF vars
<1>1. TypeOK'
  BY <1>0 DEF IInv, TypeOK
<1>2. OutcomeInv' /\ NoDuplicateTransfer'
  BY <1>0 DEF IInv, OutcomeInv, NoDuplicateTransfer
<1>3. StoredInv'
  BY <1>0 DEF IInv, StoredInv, CommittedIsStored, ManifestComplete
<1>4. StructInv' /\ DoneIsPublished'
  BY <1>0 DEF IInv, StructInv, ManifestMatchesEndpoint, DoneIsPublished
<1> QED
  BY <1>1, <1>2, <1>3, <1>4 DEF IInv

-----------------------------------------------------------------------------
(* IInv holds in every reachable state of the uploads and the server.      *)
THEOREM Invariance == Spec => []IInv
<1>1. IInv /\ [Next]_vars => IInv'
  BY CallStep, CreateSandboxStep, TransferStep, PhaseStep, ServeLateStep,
     StutterStep
  DEF Next, Step, Terminated
<1> QED
  BY <1>1, InitIInv, PTL DEF Spec

(* Every variable keeps its type.                                          *)
THEOREM TypeCorrect == Spec => []TypeOK
<1>1. IInv => TypeOK
  BY DEF IInv
<1> QED
  BY <1>1, Invariance, PTL

(* For all cookbooks, callers and failures: a checksum marked as uploaded  *)
(* is in store, though the server never checks it.                         *)
THEOREM CommitsAreSafe == Spec => []CommittedIsStored
<1>1. IInv => CommittedIsStored
  BY DEF IInv, StoredInv
<1> QED
  BY <1>1, Invariance, PTL

(* ... and every file of every published manifest is in store.             *)
THEOREM ManifestsAreComplete == Spec => []ManifestComplete
<1>1. IInv => ManifestComplete
  BY DEF IInv, StoredInv
<1> QED
  BY <1>1, Invariance, PTL

(* No call transfers the same content twice.                               *)
THEOREM TransfersAreDistinct == Spec => []NoDuplicateTransfer
<1>1. IInv => NoDuplicateTransfer
  BY DEF IInv
<1> QED
  BY <1>1, Invariance, PTL

(* Whatever identifiers the callers hand over or have in their structs,    *)
(* and none at all: each manifest names what its own call asked for, also  *)
(* when one struct is uploaded as a version and as artifacts at once. It   *)
(* fits its endpoint if the caller goes by the rules: an identifier for an *)
(* artifact, none in the struct of a version.                              *)
THEOREM EndpointsMatch == Spec => []ManifestMatchesEndpoint
<1>1. IInv => ManifestMatchesEndpoint
  BY DEF IInv, StructInv, ManifestMatchesEndpoint
<1> QED
  BY <1>1, Invariance, PTL

(* A nil error means that the manifest was published.                      *)
THEOREM SuccessIsPublished == Spec => []DoneIsPublished
<1>1. IInv => DoneIsPublished
  BY DEF IInv
<1> QED
  BY <1>1, Invariance, PTL

-----------------------------------------------------------------------------
(* The refinement.                                                         *)

(* A manifest that may be put late is that of an upload that was called.   *)
LateIsCalled ==
    \A q \in late : q.op = "put" => pc[q.manifest.upload] # "idle"

LEMMA NeverIdleAgain ==
    ASSUME IInv, [Next]_vars
    PROVE  \A u \in Uploads : pc[u] # "idle" => pc'[u] # "idle"
<1>0. pc \in [Uploads -> Phases]
  BY DEF IInv, TypeOK
<1>1. ASSUME NEW u \in Uploads, Call(u) \/ Step(u)
      PROVE  UNCHANGED pc \/ \E phase : phase # "idle" /\ Goto(u, phase)
  <2>1. Call(u) => Goto(u, "sandbox")
    BY DEF Call
  <2>2. CreateSandbox(u) => Goto(u, "transfer")
    BY DEF CreateSandbox
  <2>3. ASSUME NEW i \in DOMAIN outcome[u], Transfer(u, i) PROVE UNCHANGED pc
    BY <2>3 DEF Transfer
  <2>4. TransfersDone(u) => Goto(u, "commit")
    BY DEF TransfersDone
  <2>5. CommitSandbox(u) => Goto(u, "manifest") \/ Goto(u, "failed")
    BY DEF CommitSandbox
  <2>6. PutManifest(u) => Goto(u, "done") \/ Goto(u, "failed")
    BY DEF PutManifest
  <2>7. Fail(u) => Goto(u, "failed")
    BY DEF Fail
  <2> QED
    BY <1>1, <2>1, <2>2, <2>3, <2>4, <2>5, <2>6, <2>7 DEF Step
<1>2. ASSUME NEW v \in Uploads, NEW phase, phase # "idle", Goto(v, phase)
      PROVE  \A u \in Uploads : pc[u] # "idle" => pc'[u] # "idle"
  BY <1>0, <1>2 DEF Goto
<1>3. (\E u \in Uploads : Call(u) \/ Step(u)) \/ UNCHANGED pc
  BY DEF Next, ServeLate, Terminated, vars
<1> QED
  BY <1>1, <1>2, <1>3

LEMMA LateInvariance == Spec => []LateIsCalled
<1>1. Init => LateIsCalled
  BY DEF Init, LateIsCalled
<1>2. IInv /\ LateIsCalled /\ [Next]_vars => LateIsCalled'
  <2> SUFFICES ASSUME IInv, LateIsCalled, [Next]_vars,
                      NEW q \in late', q.op = "put"
               PROVE  pc'[q.manifest.upload] # "idle"
    BY DEF LateIsCalled
  <2>1. CASE q \in late
    <3>1. q.manifest.upload \in Uploads
      <4>1. q \in PutRequests
        BY <2>1 DEF IInv, TypeOK, CommitRequests
      <4> QED
        BY <4>1 DEF PutRequests, Manifests
    <3> QED
      BY <2>1, <3>1, NeverIdleAgain DEF LateIsCalled
  <2>2. CASE q \notin late
    <3>1. PICK u \in Uploads : Fail(u)
      BY <2>2 DEF Next, Call, Step, CreateSandbox, Transfer, TransfersDone,
         CommitSandbox, PutManifest, ServeLate, Terminated, vars
    <3>2. pc[u] # "idle" /\ q = [op |-> "put", manifest |-> Manifest(u)]
      BY <2>2, <3>1 DEF Fail, Busy
    <3> QED
      BY <3>2, NeverIdleAgain DEF Manifest
  <2> QED
    BY <2>1, <2>2
<1> QED
  BY <1>1, <1>2, Invariance, PTL DEF Spec

(* The abstract state.                                                     *)
Whole == {m.upload : m \in {n \in published : Intact(n)}}
Torn == {m.upload : m \in {n \in published : ~Intact(n)}}
ReturnedAll == [u \in Uploads |-> Returned(u)]

LEMMA NothingTorn ==
    ASSUME IInv, IInv'
    PROVE  /\ Whole = {m.upload : m \in published} /\ Torn = {}
           /\ Whole' = {m.upload : m \in published'} /\ Torn' = {}
<1>1. \A m \in published : Intact(m)
  BY DEF IInv, StoredInv, StructInv, ManifestComplete, Intact,
         ManifestMatchesEndpoint
<1>2. \A m \in published' : Intact(m)'
  BY DEF IInv, StoredInv, StructInv, ManifestComplete, Intact,
         ManifestMatchesEndpoint, AsAsked, Asked
<1>3. {n \in published : Intact(n)} = published
      /\ {n \in published : ~Intact(n)} = {}
  BY <1>1
<1>4. {n \in published : Intact(n)}' = published'
      /\ {n \in published : ~Intact(n)}' = {}
  BY <1>2
<1> QED
  BY <1>3, <1>4 DEF Whole, Torn

LEMMA ReturnsChange ==
    ASSUME IInv, NEW u \in Uploads, NEW phase, Goto(u, phase)
    PROVE  /\ phase = "done" =>
                ReturnedAll' = [ReturnedAll EXCEPT ![u] = "nil"]
           /\ phase = "failed" =>
                ReturnedAll' = [ReturnedAll EXCEPT ![u] = "error"]
           /\ phase \in Busy =>
                ReturnedAll' = [ReturnedAll EXCEPT ![u] = "pending"]
<1>1. /\ \A v \in Uploads \ {u} : Returned(v)' = Returned(v)
      /\ pc'[u] = phase
  BY DEF IInv, TypeOK, Goto, Returned
<1>2. ReturnedAll' = [ReturnedAll EXCEPT ![u] = Returned(u)']
  BY <1>1 DEF ReturnedAll
<1> QED
  BY <1>1, <1>2 DEF Returned, Busy

LEMMA ReturnsStay == ASSUME UNCHANGED pc PROVE ReturnedAll' = ReturnedAll
BY DEF ReturnedAll, Returned

LEMMA BusyIsPending ==
    ASSUME NEW u \in Uploads, pc[u] \in Busy PROVE ReturnedAll[u] = "pending"
BY DEF ReturnedAll, Returned, Busy

(* An upload that goes on without publishing is not seen.                  *)
LEMMA GoesOnImplements ==
    ASSUME IInv, IInv', NEW u \in Uploads, pc[u] \in Busy,
           NEW phase \in Busy, Goto(u, phase), UNCHANGED published
    PROVE  UNCHANGED Publishing!vars
<1>1. ReturnedAll' = ReturnedAll
  BY BusyIsPending, ReturnsChange DEF ReturnedAll
<1> QED
  BY <1>1, NothingTorn DEF Publishing!vars, Whole, Torn, ReturnedAll

LEMMA FailsImplements ==
    ASSUME IInv, IInv', NEW u \in Uploads, pc[u] \in Busy,
           Goto(u, "failed"), UNCHANGED published
    PROVE  Publishing!Fail(u)
BY NothingTorn, BusyIsPending, ReturnsChange
DEF Publishing!Fail, Publishing!Returns, Whole, Torn, ReturnedAll

LEMMA PutImplements ==
    ASSUME IInv, IInv', NEW u \in Uploads, PutManifest(u)
    PROVE  Publishing!Publish(u)
<1>1. Whole' = Whole \cup {u} /\ Torn' = Torn
  <2>1. published' = published \cup {Manifest(u)} /\ Manifest(u).upload = u
    BY DEF PutManifest, Manifest
  <2> QED
    BY <2>1, NothingTorn
<1>2. ReturnedAll[u] = "pending"
  BY BusyIsPending DEF PutManifest, Busy
<1>3. \E r \in {"nil", "error"} : ReturnedAll' = [ReturnedAll EXCEPT ![u] = r]
  BY ReturnsChange DEF PutManifest
<1> QED
  BY <1>1, <1>2, <1>3
  DEF Publishing!Publish, Publishing!Returns, Whole, Torn, ReturnedAll

LEMMA CallImplements ==
    ASSUME IInv, IInv', NEW u \in Uploads, Call(u) PROVE Publishing!Call(u)
<1>1. Whole' = Whole /\ Torn' = Torn
  BY NothingTorn DEF Call
<1>2. ReturnedAll[u] \in {"never called", "error"}
  BY DEF Call, ReturnedAll, Returned, Busy
<1>3. ReturnedAll' = [ReturnedAll EXCEPT ![u] = "pending"]
  BY ReturnsChange DEF Call, Busy
<1> QED
  BY <1>1, <1>2, <1>3 DEF Publishing!Call, Whole, Torn, ReturnedAll

(* A manifest put late is that of an upload that failed, or is being       *)
(* repeated, or has published it since.                                    *)
LEMMA LateImplements ==
    ASSUME IInv, IInv', LateIsCalled, NEW q \in late, ServeLate(q)
    PROVE  \/ UNCHANGED Publishing!vars
           \/ \E u \in Uploads : Publishing!Publish(u)
<1>0. ReturnedAll' = ReturnedAll
  BY ReturnsStay DEF ServeLate
<1>1. CASE q.op = "commit"
  BY <1>0, <1>1, NothingTorn
  DEF ServeLate, Publishing!vars, Whole, Torn, ReturnedAll
<1>2. CASE q.op = "put"
  <2> DEFINE u == q.manifest.upload
  <2>1. u \in Uploads
    <3>1. q \in PutRequests
      BY <1>2 DEF IInv, TypeOK, CommitRequests
    <3> QED
      BY <3>1 DEF PutRequests, Manifests
  <2>2. Whole' = Whole \cup {u} /\ Torn' = Torn
    BY <1>2, NothingTorn DEF ServeLate
  <2>3. CASE pc[u] = "done"
    <3>1. u \in Whole
      BY <2>1, <2>3, NothingTorn DEF IInv, DoneIsPublished
    <3> QED
      BY <1>0, <2>2, <3>1 DEF Publishing!vars, Whole, Torn, ReturnedAll
  <2>4. CASE pc[u] # "done"
    <3>1. pc[u] \in Busy \cup {"failed"}
      BY <1>2, <2>1, <2>4 DEF LateIsCalled, IInv, TypeOK, Phases, Busy
    <3>2. ReturnedAll[u] \in {"pending", "error"}
      BY <2>1, <3>1 DEF ReturnedAll, Returned, Busy
    <3> HIDE DEF u
    <3>3. Publishing!Publish(u)
      BY <1>0, <2>2, <3>2 DEF Publishing!Publish, Whole, Torn, ReturnedAll
    <3> QED
      BY <2>1, <3>3
  <2> QED
    BY <2>3, <2>4
<1> QED
  BY <1>1, <1>2 DEF ServeLate

(* Upload implements what its callers, PushRevision among them, rely on: a *)
(* cookbook appears whole or not at all, nil means published, and nothing  *)
(* that others upload or fail to ever tears it.                            *)
THEOREM ImplementsPublish == Spec => RefinesPublish
<1>1. Init => Publishing!Init
  BY DEF Init, Publishing!Init, Returned, Busy
<1>2. IInv /\ IInv' /\ LateIsCalled /\ [Next]_vars
        => [Publishing!Next]_(Publishing!vars)
  <2> SUFFICES ASSUME IInv, IInv', LateIsCalled, [Next]_vars
               PROVE  [Publishing!Next]_(Publishing!vars)
    OBVIOUS
  <2>1. ASSUME UNCHANGED <<pc, published>> PROVE UNCHANGED Publishing!vars
    BY <2>1, NothingTorn, ReturnsStay
    DEF Publishing!vars, Whole, Torn, ReturnedAll
  <2>2. ASSUME NEW u \in Uploads,
               CreateSandbox(u) \/ TransfersDone(u)
        PROVE  UNCHANGED Publishing!vars
    BY <2>2, GoesOnImplements DEF CreateSandbox, TransfersDone, Busy
  <2>3. ASSUME NEW u \in Uploads, NEW i \in DOMAIN outcome[u], Transfer(u, i)
        PROVE  UNCHANGED Publishing!vars
    BY <2>1, <2>3 DEF Transfer
  <2>4. ASSUME NEW u \in Uploads, CommitSandbox(u)
        PROVE  UNCHANGED Publishing!vars \/ Publishing!Fail(u)
    BY <2>4, GoesOnImplements, FailsImplements DEF CommitSandbox, Busy
  <2>5. ASSUME NEW u \in Uploads, Fail(u) PROVE Publishing!Fail(u)
    BY <2>5, FailsImplements DEF Fail
  <2>6. CASE UNCHANGED vars
    BY <2>1, <2>6 DEF vars
  <2> QED
    BY <2>2, <2>3, <2>4, <2>5, <2>6, CallImplements, PutImplements,
       LateImplements
    DEF Next, Step, Terminated, Publishing!Next
<1> QED
  BY <1>1, <1>2, Invariance, LateInvariance, PTL
  DEF Spec, RefinesPublish, Publishing!Spec

-----------------------------------------------------------------------------
(* CookbookWalk: the candidates. The recursion that collects them is       *)
(* unfolded by the least length for which it would fail.                   *)

UpTo(path, n) ==
    {SubSeq(path, 1, i) : i \in 1..n} \cup {<<path[i]>> : i \in 1..n}

LEMMA PrefixFacts ==
    ASSUME NEW path \in Seq(STRING), NEW n \in 1..Len(path)
    PROVE  /\ SubSeq(path, 1, n) \in Seq(STRING) /\ Len(SubSeq(path, 1, n)) = n
           /\ SubSeq(path, 1, n) # <<>>
           /\ \A i \in 1..n : SubSeq(path, 1, n)[i] = path[i]
           /\ Base(SubSeq(path, 1, n)) = <<path[n]>>
           /\ Front(SubSeq(path, 1, n)) = SubSeq(path, 1, n - 1)
           /\ \A i \in 0..n : SubSeq(SubSeq(path, 1, n), 1, i) =
                                  SubSeq(path, 1, i)
<1> DEFINE p == SubSeq(path, 1, n)
<1>1. p \in Seq(STRING) /\ Len(p) = n /\ \A i \in 1..n : p[i] = path[i]
  OBVIOUS
<1>2. ASSUME NEW i \in 0..n PROVE SubSeq(p, 1, i) = SubSeq(path, 1, i)
  <2> DEFINE a == SubSeq(p, 1, i)
             b == SubSeq(path, 1, i)
  <2>1. a \in Seq(STRING) /\ Len(a) = i /\ \A j \in 1..i : a[j] = p[j]
    BY <1>1
  <2>2. b \in Seq(STRING) /\ Len(b) = i /\ \A j \in 1..i : b[j] = path[j]
    OBVIOUS
  <2>3. \A j \in 1..i : p[j] = path[j]
    BY <1>1
  <2> HIDE DEF a, b, p
  <2> QED
    BY <2>1, <2>2, <2>3
<1> HIDE DEF p
<1>3. Front(p) = SubSeq(p, 1, n - 1) /\ Base(p) = <<path[n]>> /\ p # <<>>
  BY <1>1 DEF Front, Base, Last
<1>4. Front(p) = SubSeq(path, 1, n - 1)
  BY <1>2, <1>3
<1> QED
  BY <1>1, <1>2, <1>3, <1>4 DEF p

Climbing(path, n, g) ==
    g = [i \in 0..n |->
            IF i = 0 THEN {}
            ELSE {SubSeq(path, 1, i), Base(SubSeq(path, 1, i))} \cup g[i - 1]]

LEMMA ClimbingExists ==
    ASSUME NEW path \in Seq(STRING), NEW n \in 0..Len(path)
    PROVE  Climbing(path, n, [i \in 0..n |-> UpTo(path, i)])
<1> DEFINE g == [i \in 0..n |-> UpTo(path, i)]
<1>1. ASSUME NEW i \in 0..n
      PROVE  g[i] = IF i = 0 THEN {}
                    ELSE {SubSeq(path, 1, i), Base(SubSeq(path, 1, i))}
                         \cup g[i - 1]
  <2>1. CASE i = 0
    BY <2>1 DEF UpTo
  <2>2. CASE i # 0
    <3>1. i \in 1..Len(path) /\ i - 1 \in 0..n
      BY <2>2
    <3>2. Base(SubSeq(path, 1, i)) = <<path[i]>>
      BY <3>1, PrefixFacts
    <3>3. 1..i = 1..(i - 1) \cup {i}
      BY <3>1
    <3>4. UpTo(path, i) = {SubSeq(path, 1, i), <<path[i]>>} \cup UpTo(path, i - 1)
      BY <3>3 DEF UpTo
    <3>5. g[i] = UpTo(path, i) /\ g[i - 1] = UpTo(path, i - 1)
      BY <3>1
    <3> HIDE DEF g
    <3> QED
      BY <2>2, <3>2, <3>4, <3>5
  <2> QED
    BY <2>1, <2>2
<1> HIDE DEF g
<1>2. g = [i \in 0..n |-> g[i]]
  BY DEF g
<1>3. Climbing(path, n, g)
  BY <1>1, <1>2 DEF Climbing
<1> QED
  BY <1>3 DEF g

LEMMA ClimbingIs ==
    ASSUME NEW path \in Seq(STRING), NEW n \in 0..Len(path), NEW g,
           Climbing(path, n, g)
    PROVE  g[n] = UpTo(path, n)
<1> DEFINE T == {i \in 0..n : g[i] # UpTo(path, i)}
           h == [i \in 0..n |-> UpTo(path, i)]
<1>1. Climbing(path, n, h)
  BY ClimbingExists
<1>2. ASSUME T # {} PROVE FALSE
  <2>1. PICK i \in T : \A j \in T : i <= j
    <3>1. T \in SUBSET Nat
      OBVIOUS
    <3> QED
      BY <1>2, <3>1, LeastNat
  <2>2. h[i] = UpTo(path, i)
    BY <2>1
  <2>3. g[i] = IF i = 0 THEN {}
               ELSE {SubSeq(path, 1, i), Base(SubSeq(path, 1, i))} \cup g[i - 1]
    BY <2>1 DEF Climbing
  <2>4. h[i] = IF i = 0 THEN {}
               ELSE {SubSeq(path, 1, i), Base(SubSeq(path, 1, i))} \cup h[i - 1]
    <3> HIDE DEF h
    <3> QED
      BY <1>1, <2>1 DEF Climbing
  <2>5. i # 0 => g[i - 1] = h[i - 1]
    <3> SUFFICES ASSUME i # 0 PROVE g[i - 1] = h[i - 1]
      OBVIOUS
    <3>1. i - 1 \in 0..n /\ i - 1 \notin T
      BY <2>1
    <3>2. g[i - 1] = UpTo(path, i - 1) /\ h[i - 1] = UpTo(path, i - 1)
      BY <3>1
    <3> QED
      BY <3>2
  <2>6. g[i] = h[i]
    <3> HIDE DEF h, T
    <3> QED
      BY <2>3, <2>4, <2>5
  <2> QED
    BY <2>1, <2>2, <2>6
<1> QED
  BY <1>2

LEMMA CandidatesAre ==
    ASSUME NEW path \in Seq(STRING), path # <<>>
    PROVE  chefignoreCandidates(path) = UpTo(path, Len(path))
<1> DEFINE n == Len(path)
           up == CHOOSE g : g = [i \in 0..n |->
                     IF i = 0 THEN {}
                     ELSE {SubSeq(path, 1, i), Base(SubSeq(path, 1, i))}
                          \cup g[i - 1]]
<1>1. n \in Nat \ {0} /\ SubSeq(path, 1, n) = path
  OBVIOUS
<1>2. chefignoreCandidates(path) = {path, Base(path)} \cup up[n - 1]
  BY DEF chefignoreCandidates
<1>3. Climbing(path, n, up)
  <2>1. \E g : Climbing(path, n, g)
    <3>1. Climbing(path, n, [i \in 0..n |-> UpTo(path, i)])
      BY <1>1, ClimbingExists
    <3> QED
      BY <3>1
  <2>2. Climbing(path, n, CHOOSE g : Climbing(path, n, g))
    <3> HIDE DEF n
    <3> QED
      BY <2>1
  <2> QED
    BY <2>2 DEF Climbing
<1> HIDE DEF up
<1>4. up[n] = UpTo(path, n)
  BY <1>1, <1>3, ClimbingIs
<1>5. up[n] = {SubSeq(path, 1, n), Base(SubSeq(path, 1, n))} \cup up[n - 1]
  BY <1>1, <1>3 DEF Climbing
<1> QED
  BY <1>1, <1>2, <1>4, <1>5

(* Ignores says of a path what Excluded says of it: the candidates are the *)
(* right ones, and no more.                                                *)
THEOREM IgnoresIsExcluded ==
    ASSUME NEW f \in Seq(STRING), f # <<>>,
           patterns = chefignore \ {Blank, Comment}
    PROVE  Ignores(f) <=> Excluded(f)
<1>1. Ignores(f) <=> \E p \in patterns, c \in UpTo(f, Len(f)) : Match(p, c)
  BY CandidatesAre DEF Ignores
<1>2. \A p : (\E c \in UpTo(f, Len(f)) : Match(p, c)) <=>
          \E n \in 1..Len(f) : Match(p, SubSeq(f, 1, n)) \/ Match(p, <<f[n]>>)
  BY DEF UpTo
<1> QED
  BY <1>1, <1>2 DEF Excluded

(* An ignored directory takes everything below it with it.                 *)
LEMMA IgnoredBelow ==
    ASSUME NEW f \in Seq(STRING), NEW n \in 1..Len(f),
           Ignores(SubSeq(f, 1, n))
    PROVE  Ignores(f)
<1> DEFINE dir == SubSeq(f, 1, n)
<1>1. dir \in Seq(STRING) /\ Len(dir) = n /\ dir # <<>> /\ f # <<>>
      /\ (\A i \in 1..n : dir[i] = f[i])
      /\ \A i \in 1..n : SubSeq(dir, 1, i) = SubSeq(f, 1, i)
  <2>1. f # <<>> /\ 1..n \subseteq 0..n
    OBVIOUS
  <2> QED
    BY <2>1, PrefixFacts
<1> HIDE DEF dir
<1>2. UpTo(dir, n) \subseteq UpTo(f, Len(f))
  BY <1>1 DEF UpTo
<1>3. /\ chefignoreCandidates(dir) = UpTo(dir, n)
      /\ chefignoreCandidates(f) = UpTo(f, Len(f))
  BY <1>1, CandidatesAre
<1>4. Ignores(dir)
  BY DEF dir
<1> QED
  BY <1>1, <1>2, <1>3, <1>4 DEF Ignores

(* What is above a directory or a file is a directory.                     *)
LEMMA AboveIsDir ==
    ASSUME NEW f \in Dirs \cup TreeFiles, NEW n \in 1..(Len(f) - 1)
    PROVE  SubSeq(f, 1, n) \in Dirs
<1>0. f \in Seq(STRING) /\ Len(f) \in Nat
  BY TreeAssumption
<1> DEFINE T == {k \in Nat : /\ Len(f) - k \in 1..(Len(f) - 1)
                             /\ SubSeq(f, 1, Len(f) - k) \notin Dirs}
<1>1. ASSUME T # {} PROVE FALSE
  <2>1. PICK k \in T : \A j \in T : k <= j
    BY <1>1, LeastNat
  <2> DEFINE m == Len(f) - k
             above == SubSeq(f, 1, m + 1)
  <2>2. m \in 1..(Len(f) - 1) /\ k \in Nat \ {0} /\ SubSeq(f, 1, m) \notin Dirs
    BY <1>0, <2>1
  <2>3. above \in Dirs \cup TreeFiles
    <3>1. CASE m + 1 = Len(f)
      <4>1. SubSeq(f, 1, Len(f)) = f
        BY <1>0
      <4> QED
        BY <3>1, <4>1
    <3>2. CASE m + 1 # Len(f)
      <4>1. k - 1 \in Nat /\ k - 1 \notin T /\ Len(f) - (k - 1) = m + 1
        BY <1>0, <2>1, <2>2
      <4>2. m + 1 \in 1..(Len(f) - 1)
        BY <1>0, <2>2, <3>2
      <4> QED
        BY <4>1, <4>2
    <3> QED
      BY <3>1, <3>2
  <2>4. Front(above) = SubSeq(f, 1, m) /\ SubSeq(f, 1, m) # <<>>
    <3>1. m + 1 \in 1..Len(f) /\ m \in 1..Len(f) /\ (m + 1) - 1 = m
      BY <1>0, <2>2
    <3> HIDE DEF m
    <3> QED
      BY <1>0, <3>1, PrefixFacts
  <2> HIDE DEF above, m
  <2> QED
    BY <2>2, <2>3, <2>4, TreeAssumption
<1>2. CASE T = {}
  <2>1. Len(f) - n \in Nat /\ Len(f) - (Len(f) - n) = n
    BY <1>0
  <2> QED
    BY <1>2, <2>1
<1> QED
  BY <1>1, <1>2

-----------------------------------------------------------------------------
(* CookbookWalk: the inductive invariant.                                  *)

LEMMA WalkInitInv == WalkInit => WalkInv
  BY DEF WalkInit, WalkInv, WalkTypeOK, PatternsInv, CollectedInv, AheadInv

(* What lasts is a file that is there, and nothing begins to last.         *)
LEMMA LastingFacts ==
    ASSUME WalkTypeOK
    PROVE  /\ Lasting \subseteq tree /\ Lasting \subseteq TreeFiles
           /\ \A f \in Lasting :
                /\ f \in Seq(STRING) /\ f # <<>> /\ Len(f) \in Nat \ {0}
                /\ SubSeq(f, 1, Len(f)) = f /\ SubSeq(f, 1, 0) = <<>>
                /\ \A n \in 1..(Len(f) - 1) : SubSeq(f, 1, n) \in Dirs
<1>1. Lasting \subseteq tree /\ Lasting \subseteq TreeFiles
  BY DEF Lasting, WalkTypeOK
<1>2. ASSUME NEW f \in TreeFiles
      PROVE  /\ f \in Seq(STRING) /\ f # <<>> /\ Len(f) \in Nat \ {0}
             /\ SubSeq(f, 1, Len(f)) = f /\ SubSeq(f, 1, 0) = <<>>
             /\ \A n \in 1..(Len(f) - 1) : SubSeq(f, 1, n) \in Dirs
  <2>1. f \in Seq(STRING) /\ f # <<>>
    BY TreeAssumption
  <2> QED
    BY <2>1, AboveIsDir
<1> QED
  BY <1>1, <1>2

(* A step that leaves the patterns and what is not a file ahead alone.     *)
LEMMA SameIgnored ==
    ASSUME patterns' = patterns
    PROVE  \A p : Ignores(p)' <=> Ignores(p)
  BY DEF Ignores

LEMMA LoadStep == ASSUME WalkInv, LoadChefignore PROVE WalkInv'
<1> USE DEF WalkInv
<1>1. WalkTypeOK'
  BY DEF LoadChefignore, WalkTypeOK, world, parseChefignore, PatternsInv
<1>2. PatternsInv'
  BY DEF LoadChefignore, PatternsInv, world, parseChefignore
<1>3. CollectedInv'
  BY DEF LoadChefignore, CollectedInv, PatternsInv
<1>4. AheadInv'
  <2>1. progress' \in {"walk", "failed"}
    BY DEF LoadChefignore
  <2>2. ASSUME progress' = "walk", NEW f \in Lasting' PROVE Ahead(f)'
    <3>1. SubSeq(f, 1, 0) = <<>> /\ 0 \in 0..Len(f)
      BY <1>1, <2>2, LastingFacts DEF LoadChefignore, Lasting, world
    <3>2. <<>> \in todo'
      BY <2>2 DEF LoadChefignore
    <3> QED
      BY <3>1, <3>2 DEF Ahead
  <2> QED
    BY <2>1, <2>2 DEF AheadInv
<1> QED
  BY <1>1, <1>2, <1>3, <1>4

(* A directory that is not ignored hands over to the entry on the way to f.*)
LEMMA VisitDirStep ==
    ASSUME WalkInv, NEW dir \in todo, VisitDir(dir) PROVE WalkInv'
<1> USE DEF WalkInv
<1>0. /\ dir \notin TreeFiles /\ patterns' = patterns /\ progress' = progress
      /\ progress = "walk" /\ files' = files /\ UNCHANGED world
      /\ todo' = (todo \ {dir}) \cup (IF Ignores(dir) THEN {}
                                      ELSE Children(dir))
      /\ Lasting' = Lasting
  BY DEF VisitDir, Lasting, world
<1>1. WalkTypeOK'
  <2>1. Children(dir) \subseteq Dirs \cup TreeFiles
    BY DEF Children, WalkTypeOK
  <2> QED
    BY <1>0, <2>1 DEF WalkTypeOK, world
<1>2. PatternsInv' /\ CollectedInv'
  BY <1>0, SameIgnored DEF PatternsInv, CollectedInv, world
<1>3. AheadInv'
  <2>1. ASSUME NEW f \in Lasting, ~Ignores(f), f \notin files, Ahead(f)
        PROVE  Ahead(f)'
    <3>1. PICK n \in 0..Len(f) : SubSeq(f, 1, n) \in todo
      BY <2>1 DEF Ahead
    <3>2. CASE SubSeq(f, 1, n) # dir
      BY <1>0, <3>1, <3>2 DEF Ahead
    <3>3. CASE SubSeq(f, 1, n) = dir
      <4> DEFINE next == SubSeq(f, 1, n + 1)
      <4>1. n < Len(f) /\ n + 1 \in 1..Len(f) /\ f \in Seq(STRING)
            /\ n + 1 \in 0..Len(f)
        BY <1>0, <3>1, <3>3, LastingFacts
      <4>2. ~Ignores(dir)
        <5>1. CASE n = 0
          BY <3>3, <4>1, <5>1, LastingFacts DEF Ignores
        <5>2. CASE n # 0
          <6>1. n \in 1..Len(f)
            BY <4>1, <5>2
          <6> QED
            BY <2>1, <3>3, <4>1, <6>1, IgnoredBelow
        <5> QED
          BY <5>1, <5>2
      <4>3. next \in Dirs \cup tree
        <5>1. CASE n + 1 = Len(f)
          BY <5>1, LastingFacts
        <5>2. CASE n + 1 # Len(f)
          <6>1. n + 1 \in 1..(Len(f) - 1)
            BY <4>1, <5>2
          <6> QED
            BY <6>1, LastingFacts
        <5> QED
          BY <5>1, <5>2
      <4>4. Len(next) = n + 1 /\ Front(next) = dir /\ Len(dir) = n
        <5>1. Len(next) = n + 1 /\ Front(next) = SubSeq(f, 1, (n + 1) - 1)
          BY <4>1, PrefixFacts
        <5>2. (n + 1) - 1 = n /\ Len(SubSeq(f, 1, n)) = n
          BY <4>1
        <5> QED
          BY <3>3, <5>1, <5>2
      <4> HIDE DEF next
      <4>5. next \in todo'
        BY <1>0, <4>2, <4>3, <4>4 DEF Children
      <4> QED
        BY <4>1, <4>5 DEF Ahead, next
    <3> QED
      BY <3>2, <3>3
  <2> QED
    BY <1>0, <2>1, SameIgnored DEF AheadInv
<1> QED
  BY <1>1, <1>2, <1>3

LEMMA VisitFileStep ==
    ASSUME WalkInv, NEW g \in todo, VisitFile(g) PROVE WalkInv'
<1> USE DEF WalkInv
<1>0. /\ g \in TreeFiles /\ patterns' = patterns /\ progress' = progress
      /\ progress = "walk" /\ UNCHANGED world /\ todo' = todo \ {g}
      /\ files' = (IF Ignores(g) THEN files ELSE files \cup {g})
      /\ Lasting' = Lasting
  BY DEF VisitFile, Lasting, world
<1>1. WalkTypeOK'
  BY <1>0 DEF WalkTypeOK, world
<1>2. PatternsInv' /\ CollectedInv'
  BY <1>0, SameIgnored DEF PatternsInv, CollectedInv, world
<1>3. AheadInv'
  <2>1. ASSUME NEW f \in Lasting, ~Ignores(f), f \notin files', Ahead(f)
        PROVE  Ahead(f)'
    <3>1. PICK n \in 0..Len(f) : SubSeq(f, 1, n) \in todo
      BY <2>1 DEF Ahead
    <3>2. SubSeq(f, 1, n) # g
      <4>1. CASE n = Len(f)
        <5>1. SubSeq(f, 1, n) = f
          BY <4>1, LastingFacts
        <5> QED
          BY <1>0, <2>1, <5>1
      <4>2. CASE n = 0
        BY <1>0, <4>2, LastingFacts, TreeAssumption
      <4>3. CASE n # 0 /\ n # Len(f)
        <5>1. n \in 1..(Len(f) - 1)
          BY <3>1, <4>3, LastingFacts
        <5>2. SubSeq(f, 1, n) \in Dirs
          BY <5>1, LastingFacts
        <5> QED
          BY <1>0, <5>2, TreeAssumption
      <4> QED
        BY <4>1, <4>2, <4>3
    <3> QED
      BY <1>0, <3>1, <3>2 DEF Ahead
  <2>2. files \subseteq files'
    BY <1>0
  <2> QED
    BY <1>0, <2>1, <2>2, SameIgnored DEF AheadInv
<1> QED
  BY <1>1, <1>2, <1>3

LEMMA EndStep ==
    ASSUME WalkInv, Returns \/ \E p \in todo : VisitFails(p) PROVE WalkInv'
<1> USE DEF WalkInv
<1>0. /\ progress = "walk" /\ progress' \in {"failed", "done"}
      /\ UNCHANGED <<world, patterns, todo, files>>
      /\ progress' = "done" => todo = {}
      /\ Lasting' = Lasting
  BY DEF Returns, VisitFails, Lasting, world
<1>1. WalkTypeOK'
  BY <1>0 DEF WalkTypeOK, world
<1>2. PatternsInv' /\ CollectedInv'
  BY <1>0, SameIgnored DEF PatternsInv, CollectedInv, world
<1>3. AheadInv'
  <2>1. todo = {} => \A f : ~Ahead(f)
    BY DEF Ahead
  <2> QED
    BY <1>0, <2>1, SameIgnored DEF AheadInv
<1> QED
  BY <1>1, <1>2, <1>3

LEMMA OthersStep ==
    ASSUME WalkInv,
           (\E f \in TreeFiles : MakeFile(f) \/ RemoveFile(f))
               \/ UNCHANGED walkVars
    PROVE  WalkInv'
<1> USE DEF WalkInv
<1>0. /\ UNCHANGED <<client, readable, chefignore>>
      /\ Lasting' \subseteq Lasting
      /\ tree' \subseteq TreeFiles /\ made' \subseteq TreeFiles
      /\ removed' \subseteq TreeFiles
  BY DEF MakeFile, RemoveFile, Lasting, walkVars, world, WalkTypeOK
<1>1. WalkTypeOK'
  BY <1>0 DEF WalkTypeOK, client
<1>2. PatternsInv' /\ CollectedInv'
  BY <1>0, SameIgnored DEF PatternsInv, CollectedInv, client
<1>3. AheadInv'
  <2>1. \A f : Ahead(f)' <=> Ahead(f)
    BY <1>0 DEF Ahead, client
  <2> QED
    BY <1>0, <2>1, SameIgnored DEF AheadInv, client
<1> QED
  BY <1>1, <1>2, <1>3

(* The invariant of the walk, whatever the tree, the patterns and what     *)
(* other processes do.                                                     *)
THEOREM WalkInvariance == WalkSpec => []WalkInv
<1>1. WalkInv /\ [WalkNext]_walkVars => WalkInv'
  BY LoadStep, VisitDirStep, VisitFileStep, EndStep, OthersStep
  DEF WalkNext, Walk, WalkOver
<1> QED
  BY <1>1, WalkInitInv, PTL DEF WalkSpec

LEMMA ExcludedIsIgnored ==
    ASSUME WalkInv, progress = "done", NEW f \in TreeFiles
    PROVE  Ignores(f) <=> Excluded(f)
<1>1. f \in Seq(STRING) /\ f # <<>>
  BY TreeAssumption
<1> QED
  BY <1>1, IgnoresIsExcluded DEF WalkInv, PatternsInv

(* A cookbook has every file that is not excluded and stayed (NothingIsLost*)
(* of LocalCookbookFromDir).                                               *)
THEOREM WalkLosesNothing == WalkSpec => []NothingIsLost
<1>1. WalkInv => NothingIsLost
  BY LastingFacts, ExcludedIsIgnored DEF WalkInv, AheadInv, NothingIsLost
<1> QED
  BY <1>1, WalkInvariance, PTL

(* ... and none that is excluded (NothingExcluded).                        *)
THEOREM WalkTakesNoExcluded == WalkSpec => []NothingExcluded
<1>1. WalkInv => NothingExcluded
  BY ExcludedIsIgnored DEF WalkInv, WalkTypeOK, CollectedInv, NothingExcluded
<1> QED
  BY <1>1, WalkInvariance, PTL

(* Pruning whole directories and asking about the files alone give the     *)
(* same cookbook (PruningAgrees).                                          *)
THEOREM PruningIsAsking == WalkSpec => []PruningAgrees
<1>1. WalkInv => PruningAgrees
  BY DEF WalkInv, AheadInv, CollectedInv, PruningAgrees
<1> QED
  BY <1>1, WalkInvariance, PTL
=============================================================================
