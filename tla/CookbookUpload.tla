---------------------------- MODULE CookbookUpload ----------------------------
(***************************************************************************)
(* Concurrent cookbook uploads: Cookbooks.Upload (cookbooks.go) and        *)
(* CookbookArtifacts.Upload (cookbook_artifacts.go), which share           *)
(* uploadCookbook and the sandbox requests of sandboxes.go.                *)
(*                                                                         *)
(* An upload creates a sandbox for its checksums, transfers the contents   *)
(* the server says it lacks, commits the sandbox and puts the manifest. It *)
(* may fail, be canceled or die between any two of these, and be called    *)
(* again. The transfers are the batch of TransferBatch, which              *)
(* ParallelForEach implements; the other requests are writes of            *)
(* CallContract, so after an error they may still be served later.         *)
(*                                                                         *)
(* The server is external, and as trusting as the protocol lets it be: it  *)
(* checks neither that a committed checksum was transferred nor that a     *)
(* manifest names committed checksums. What is stored stays stored.        *)
(***************************************************************************)
EXTENDS Naturals, Sequences, FiniteSets

CONSTANTS
    Checksums,         \* MD5 checksums of file contents
    Cookbooks,         \* LocalCookbook structs in the caller's memory
    FilesOf,           \* the files of each, as the sequence of checksums
    FieldOf,           \* the Identifier each of them starts with
    Uploads,           \* callers of one of the two Upload methods
    CookbookOf,        \* the struct each of them uploads
    IsArtifact,        \* which ones call CookbookArtifacts.Upload
    IdentifierOf,      \* the identifier each of these hands over
    Identifiers,       \* identifiers; "" stands for none
    MaxCalls           \* how often each caller calls Upload

ASSUME FilesAssumption == FilesOf \in [Cookbooks -> Seq(Checksums)]
ASSUME UploadsAssumption == CookbookOf \in [Uploads -> Cookbooks]
                            /\ IsArtifact \in [Uploads -> BOOLEAN]
ASSUME IdentifiersAssumption ==
    /\ "" \in Identifiers /\ "version" \notin Identifiers
    /\ FieldOf \in [Cookbooks -> Identifiers]
    /\ IdentifierOf \in [Uploads -> Identifiers]
ASSUME MaxCallsAssumption == MaxCalls \in [Uploads -> Nat]

VARIABLES
    pc,                \* the next step of each upload
    calls,             \* how often each caller has called Upload
    field,             \* Identifier in each struct of the caller
    copy,              \* Identifier in each artifact upload's own copy
    outcome,           \* uploadJobs of the running batch, with their results
    blobs,             \* contents stored by the server
    known,             \* checksums the server has marked as uploaded
    published,         \* manifests on the server
    late               \* requests given up by their call but still under way

vars == <<pc, calls, field, copy, outcome, blobs, known, published, late>>

Files(u) == FilesOf[CookbookOf[u]]
Sums(u) == {Files(u)[i] : i \in DOMAIN Files(u)}

Phases == {"idle", "sandbox", "transfer", "commit", "manifest", "done",
           "failed"}
Busy == {"sandbox", "transfer", "commit", "manifest"}

Manifests == [base : {"/cookbooks", "/cookbook_artifacts"},
              slug : {"version"} \cup Identifiers,
              chef_type : {"cookbook_version", "cookbook_artifact_version"},
              upload : Uploads, checksums : SUBSET Checksums]
CommitRequests == [op : {"commit"}, checksums : SUBSET Checksums]
PutRequests == [op : {"put"}, manifest : Manifests]

TypeOK ==
    /\ pc \in [Uploads -> Phases]
    /\ calls \in [Uploads -> Nat]
    /\ field \in [Cookbooks -> Identifiers]
    /\ copy \in [Uploads -> Identifiers]
    /\ outcome = [u \in Uploads |-> outcome[u]]
    /\ \A u \in Uploads :
        /\ DOMAIN outcome[u] \subseteq DOMAIN Files(u)
        /\ outcome[u] \in [DOMAIN outcome[u] -> {"none", "ok", "fail"}]
    /\ blobs \subseteq Checksums
    /\ known \subseteq Checksums
    /\ published \subseteq Manifests
    /\ late \subseteq CommitRequests \cup PutRequests

Init ==
    /\ pc = [u \in Uploads |-> "idle"]
    /\ calls = [u \in Uploads |-> 0]
    /\ field = FieldOf
    /\ copy = [u \in Uploads |-> ""]
    /\ outcome = [u \in Uploads |-> [i \in {} |-> "none"]]
    /\ blobs = {}
    /\ known = {}
    /\ published = {}
    /\ late = {}

Goto(u, phase) == pc' = [pc EXCEPT ![u] = phase]

-----------------------------------------------------------------------------
(* The uploads.                                                            *)

(* Mutated: CookbookArtifacts.Upload writes to the caller's struct.        *)
CallSetsField(u) ==
    /\ pc[u] \in {"idle", "failed"}
    /\ calls[u] < MaxCalls[u]
    /\ calls' = [calls EXCEPT ![u] = @ + 1]
    /\ field' = IF IsArtifact[u]
                THEN [field EXCEPT ![CookbookOf[u]] = IdentifierOf[u]] ELSE field
    /\ copy' = [copy EXCEPT ![u] = IF IsArtifact[u] THEN IdentifierOf[u] ELSE ""]
    /\ Goto(u, "sandbox")
    /\ UNCHANGED <<outcome, blobs, known, published, late>>

(* Either method is called, for the first time or after a failure.         *)
(* CookbookArtifacts.Upload sets the identifier it was given, whatever it  *)
(* is, in a copy of the struct.                                            *)
Call(u) ==
    /\ pc[u] \in {"idle", "failed"}
    /\ calls[u] < MaxCalls[u]
    /\ calls' = [calls EXCEPT ![u] = @ + 1]
    /\ copy' = [copy EXCEPT ![u] = IF IsArtifact[u] THEN IdentifierOf[u] ELSE ""]
    /\ Goto(u, "sandbox")
    /\ UNCHANGED <<field, outcome, blobs, known, published, late>>

(* The Identifier uploadCookbook sees in the struct it was handed.         *)
Identifier(u) == IF IsArtifact[u] THEN copy[u] ELSE field[CookbookOf[u]]

(* The loop over cb.files: one job for the first file with each checksum   *)
(* that the server's answer says it needs.                                 *)
Jobs(u) == {i \in DOMAIN Files(u) :
                /\ Files(u)[i] \notin known
                /\ \A j \in 1..(i - 1) : Files(u)[j] # Files(u)[i]}

(* cookbookManifest, and the path it is put at: the identifier decides, or *)
(* where there is none the version.                                        *)
Manifest(u) ==
    [base |-> IF IsArtifact[u] THEN "/cookbook_artifacts" ELSE "/cookbooks",
     slug |-> IF Identifier(u) # "" THEN Identifier(u) ELSE "version",
     chef_type |-> IF Identifier(u) # "" THEN "cookbook_artifact_version"
                                         ELSE "cookbook_version",
     upload |-> u, checksums |-> Sums(u)]

(* Mutated: the manifest is put first.                                     *)
CreateSandboxPutsFirst(u) ==
    /\ pc[u] = "sandbox"
    /\ outcome' = [outcome EXCEPT ![u] = [i \in Jobs(u) |-> "none"]]
    /\ published' = published \cup {Manifest(u)}
    /\ Goto(u, "transfer")
    /\ UNCHANGED <<calls, field, copy, blobs, known, late>>

(* createSandbox is answered: needs_upload is what the server knew then.   *)
CreateSandbox(u) ==
    /\ pc[u] = "sandbox"
    /\ outcome' = [outcome EXCEPT ![u] = [i \in Jobs(u) |-> "none"]]
    /\ Goto(u, "transfer")
    /\ UNCHANGED <<calls, field, copy, blobs, known, published, late>>

(* A job of the batch runs uploadFile. The content of a failed one may     *)
(* have been stored nevertheless.                                          *)
Transfer(u, i) ==
    /\ pc[u] = "transfer"
    /\ outcome[u][i] = "none"
    /\ \/ /\ outcome' = [outcome EXCEPT ![u][i] = "ok"]
          /\ blobs' = blobs \cup {Files(u)[i]}
       \/ /\ outcome' = [outcome EXCEPT ![u][i] = "fail"]
          /\ blobs' \in {blobs, blobs \cup {Files(u)[i]}}
    /\ UNCHANGED <<pc, calls, field, copy, known, published, late>>

AllTransferred(u) == \A i \in DOMAIN outcome[u] : outcome[u][i] = "ok"

(* Mutated: the error of parallelForEach is dropped.                       *)
TransfersDoneAnyway(u) ==
    /\ pc[u] = "transfer"
    /\ \A i \in DOMAIN outcome[u] : outcome[u][i] # "none"
    /\ Goto(u, "commit")
    /\ UNCHANGED <<calls, field, copy, outcome, blobs, known, published, late>>

(* parallelForEach returns nil.                                            *)
TransfersDone(u) ==
    /\ pc[u] = "transfer"
    /\ AllTransferred(u)
    /\ Goto(u, "commit")
    /\ UNCHANGED <<calls, field, copy, outcome, blobs, known, published, late>>

(* commitSandbox is served, and the client learns of it or does not.       *)
CommitSandbox(u) ==
    /\ pc[u] = "commit"
    /\ known' = known \cup Sums(u)
    /\ \E phase \in {"manifest", "failed"} : Goto(u, phase)
    /\ UNCHANGED <<calls, field, copy, outcome, blobs, published, late>>

(* The PUT of the manifest is served, and the client learns of it or not.  *)
PutManifest(u) ==
    /\ pc[u] = "manifest"
    /\ published' = published \cup {Manifest(u)}
    /\ \E phase \in {"done", "failed"} : Goto(u, phase)
    /\ UNCHANGED <<calls, field, copy, outcome, blobs, known, late>>

(* Mutated: the upload starts over by itself, without end.                 *)
FailRestarts(u) ==
    /\ pc[u] \in Busy
    /\ Goto(u, "sandbox")
    /\ UNCHANGED <<calls, field, copy, outcome, blobs, known, published, late>>

(* The upload ends at its current step: a request or a transfer failed,    *)
(* the context was canceled or the process died. The request of that step  *)
(* was not served, and may or may not be served later. (A sandbox that is  *)
(* created late, or left open, is never looked at again.)                  *)
Fail(u) ==
    /\ pc[u] \in Busy
    /\ Goto(u, "failed")
    /\ \/ UNCHANGED late
       \/ /\ pc[u] = "commit"
          /\ late' = late \cup {[op |-> "commit", checksums |-> Sums(u)]}
       \/ /\ pc[u] = "manifest"
          /\ late' = late \cup {[op |-> "put", manifest |-> Manifest(u)]}
    /\ UNCHANGED <<calls, field, copy, outcome, blobs, known, published>>

-----------------------------------------------------------------------------
(* The server (external) serves a request whose call is over.              *)
ServeLate(q) ==
    /\ late' = late \ {q}
    /\ \/ q.op = "commit" /\ known' = known \cup q.checksums
                          /\ UNCHANGED published
       \/ q.op = "put" /\ published' = published \cup {q.manifest}
                       /\ UNCHANGED known
    /\ UNCHANGED <<pc, calls, field, copy, outcome, blobs>>

-----------------------------------------------------------------------------
Step(u) ==
    \/ CreateSandbox(u)
    \/ \E i \in DOMAIN outcome[u] : Transfer(u, i)
    \/ TransfersDone(u) \/ CommitSandbox(u) \/ PutManifest(u) \/ Fail(u)

Terminated ==
    /\ \A u \in Uploads : pc[u] \notin Busy
    /\ UNCHANGED vars

Next ==
    \/ \E u \in Uploads : Call(u) \/ Step(u)
    \/ \E q \in late : ServeLate(q)
    \/ Terminated

Spec == Init /\ [][Next]_vars

(* Every request ends, at the latest at the http.Client's Timeout, so a    *)
(* running upload takes its next step or fails.                            *)
FairSpec == Spec /\ \A u \in Uploads : WF_vars(Step(u))

-----------------------------------------------------------------------------
(* Correctness.                                                            *)

(* The contents of a checksum marked as uploaded are stored. The next      *)
(* upload, of anybody, will rely on it and not transfer them.              *)
CommittedIsStored == known \subseteq blobs

(* Every file of a published manifest can be downloaded: whatever failed   *)
(* or was repeated before, whoever transferred the contents.               *)
ManifestComplete == \A m \in published : m.checksums \subseteq blobs

(* No content is sent twice by one call of Upload: two files with the same *)
(* content would race for the same pre-signed URL.                         *)
NoDuplicateTransfer ==
    \A u \in Uploads : \A i, j \in DOMAIN outcome[u] :
        Files(u)[i] = Files(u)[j] => i = j

(* What a call was asked to upload the cookbook as.                        *)
Asked(u) == IF IsArtifact[u] THEN IdentifierOf[u] ELSE FieldOf[CookbookOf[u]]

AsAsked(m) ==
    IF Asked(m.upload) = ""
    THEN m.slug = "version" /\ m.chef_type = "cookbook_version"
    ELSE m.slug = Asked(m.upload) /\ m.chef_type = "cookbook_artifact_version"

(* The callers who go by the rules: an artifact has an identifier, and the *)
(* struct of a version has none.                                           *)
Sound(u) == IsArtifact[u] <=> Asked(u) # ""

Matches(m) ==
    /\ m.base = "/cookbooks" =>
        m.slug = "version" /\ m.chef_type = "cookbook_version"
    /\ m.base = "/cookbook_artifacts" =>
        m.slug # "version" /\ m.chef_type = "cookbook_artifact_version"

(* A manifest names the identifier of its own call, or its version, also   *)
(* when the same struct is being uploaded both ways, or under another      *)
(* identifier, at once. So whoever goes by the rules has a version under   *)
(* /cookbooks and an artifact under /cookbook_artifacts.                   *)
ManifestMatchesEndpoint ==
    \A m \in published : AsAsked(m) /\ (Sound(m.upload) => Matches(m))

(* An upload that returned nil has published its manifest.                 *)
DoneIsPublished ==
    \A u \in Uploads :
        pc[u] = "done" => \E m \in published : m.upload = u

(* Every call of Upload returns.                                           *)
UploadEnds ==
    \A u \in Uploads : pc[u] = "sandbox" ~> pc[u] \in {"done", "failed"}

-----------------------------------------------------------------------------
(* The inductive invariant: an upload past its transfers has all contents  *)
(* in store, one still at them has a job for each content not in store,    *)
(* and what may still be served late was sent in such a state.             *)

OutcomeInv ==
    \A u \in Uploads :
        /\ \A i \in DOMAIN outcome[u] :
            outcome[u][i] = "ok" => Files(u)[i] \in blobs
        /\ pc[u] = "transfer" =>
            \A c \in Sums(u) \ blobs :
                \E i \in DOMAIN outcome[u] : Files(u)[i] = c

StoredInv ==
    /\ CommittedIsStored /\ ManifestComplete
    /\ \A u \in Uploads : pc[u] \in {"commit", "manifest"} =>
                            Sums(u) \subseteq blobs
    /\ \A q \in late :
        /\ q.op = "commit" => q.checksums \subseteq blobs
        /\ q.op = "put" => q.manifest.checksums \subseteq blobs

StructInv ==
    /\ field = FieldOf
    /\ \A u \in Uploads :
        pc[u] \in Busy /\ IsArtifact[u] => copy[u] = IdentifierOf[u]
    /\ ManifestMatchesEndpoint
    /\ \A q \in late : q.op = "put" =>
        AsAsked(q.manifest) /\ (Sound(q.manifest.upload) => Matches(q.manifest))

IInv == TypeOK /\ OutcomeInv /\ StoredInv /\ StructInv /\ DoneIsPublished
        /\ NoDuplicateTransfer

-----------------------------------------------------------------------------
(* The upload implements the contract its callers rely on.                 *)

Intact(m) == m.checksums \subseteq blobs /\ AsAsked(m)

Returned(u) == CASE pc[u] \in Busy -> "pending"
                 [] pc[u] = "done" -> "nil"
                 [] pc[u] = "failed" -> "error"
                 [] OTHER -> "never called"

Publishing == INSTANCE PublishContract WITH
    Uploads <- Uploads,
    whole <- {m.upload : m \in {n \in published : Intact(n)}},
    torn <- {m.upload : m \in {n \in published : ~Intact(n)}},
    returned <- [u \in Uploads |-> Returned(u)]

(* A cookbook is published whole or not at all, by a call that returns nil *)
(* or by one that has failed, before or after it returns, and nil means    *)
(* published. Whatever others upload, or failed to, never tears it.        *)
RefinesPublish == Publishing!Spec

=============================================================================
