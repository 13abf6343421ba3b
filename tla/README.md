# TLA+ models of cinc-api

cinc-api is a Go client library for the Chef/Cinc server API. It keeps little
state of its own. What is hard about it is what happens around that state:
requests that fail, time out or arrive late, several goroutines and several
programs at work on the same server objects, and operations made of many
requests that may stop after any of them. This directory models those parts,
checks them with TLC on small instances and proves the central ones with TLAPS
for all instances.

## The system: an inventory

| Component | Source | State | Operations | Hard because | Correct if |
|---|---|---|---|---|---|
| Worker pool | `parallel.go` | semaphore, wait group, mutex, first error, context | `parallelForEach` | failures, cancellation and completion in any order | nil means all done, the error is a cause, bounded, nothing left running, returns |
| Transport | `transport.go`, `crud.go`, `errors.go`, `options.go` | retry counter | `do`, `doRaw`, `doOnce`, `crud` | lost and late requests and replies | writes at most once, results can be believed, reads use their retries |
| Cookbook upload | `cookbooks.go`, `cookbook_artifacts.go`, `sandboxes.go` | sandbox on the server, checksums sent | both `Upload` methods | shared contents, stale answers, failures between steps, repetition | what is published can be downloaded, and is what its call asked for |
| Cookbook download | `cookbooks.go` | files on disk | `Download`, `downloadFile` | many paths, parallel writes | inside the directory, all or nothing checked, nil means in place and not truncated |
| Local cookbook | `cookbooks.go`, `chefignore.go` | file list | `LocalCookbookFromDir`, `Ignores` | pruning; files that change meanwhile | exactly the files not excluded |
| Policies | `policies.go`, `policy_groups.go`, `policyfile.go` | artifacts and pins on the server | `PushRevision`, `PutPolicy`, `Delete`, `DeleteRevision`, `DeletePolicy` | not atomic, competing pushes | what is pinned has all its artifacts; a group goes from one runnable revision to another |
| Search | `search.go` | offset, rows | `Query`, `SearchAll` | index changes between pages | exact on a stable index, known losses otherwise, ends |
| Clients, keys | `clients.go`, `keys.go` | the default key | `Reregister`, `Keys.Create`, `Keys.Delete` | delete and create are two requests | the old key is revoked, no key lost in silence |
| ACLs | `acls.go` | five entries per object | `Get`, `SetPermission`, `AddMembers`, `RemoveMembers` | unconditional read, modify, write | no duplicates, nothing granted that nobody grants, exact when undisturbed |
| Data bags | `databags.go`, `databag_crypto.go` | the item, its secret | `Items.Get/Update`, `Encrypt`, `Decrypt` | three formats, moving secrets, damage | no wrong value, errors that tell, nothing rounded twice or stored damaged |
| Nodes, attributes | `nodes.go`, `attributes.go` | run list, attribute trees, the node on the server | `Get`, `Update`, `Create`, `Delete`, the edits of tags and run lists, `Attribute`, `Dig` | the whole node is written back, values change their type on the way, other writers | edits exact when undisturbed, nothing twice, precedence of scopes |
| Signing | `internal/signing` | none | canonical path, signature, headers | time passes between attempts, names make awkward paths, lengths at a boundary | the server accepts what was signed, for names that are sent as they stand |
| Construction, keys, URLs | `client.go`, `options.go`, `key.go`, `serverurl.go` | the Client, Transports that Clients share | `NewClient`, options, `ParseServerURL` | options in any order, sharing | a Timeout is kept, verification is off only where asked for |
| Other services | `environments.go`, `roles.go`, `users.go`, `orgs.go`, `groups.go`, `containers.go`, ... | none | one request each | nothing beyond the transport | see Transport |

How they interact: every service calls `do` (Transport). `Upload` and
`Download` hand their files to `parallelForEach`. `PushRevision` calls
`CookbookArtifacts.Upload` for every lock and then `PutPolicy`. `Reregister` is
two calls of the keys service. A `LocalCookbook` is made by the walk and handed
to an upload, possibly to several at once.

## The modules

| Module | Models | State and actions |
|---|---|---|
| `TransferBatch` | what a caller of `parallelForEach` may rely on | outcome of each item, the result |
| `ParallelForEach` | `parallelForEach`, one action per statement that others can observe | `sem`, `wg`, `mu` as `Lock`, `firstErr`, `canceled`; `main` and `worker` are program counters. `MaxParallel` is `maxParallelTransfers` |
| `CallContract` | what a caller of a crud method may rely on | result and effects of each call |
| `Transport` | `do`, `doRaw`, `doOnce`, `Unwrap` | `attempt`, `ctxDone`, requests under way, replies; `Send`, `Receive`, `NetError`, `CtxError` per call, the server's `Serve`, `Refuse`, `Reply` |
| `CookbookUpload` | `uploadCookbook` behind both `Upload` methods, the sandbox requests, the manifest | `pc` per caller; `known` (checksums marked uploaded), `blobs` (contents stored), `published` |
| `CookbookDownload` | `Download`, `downloadFile`, `AllFiles` | `job` per file: fetch, mkdir, open, write |
| `CookbookWalk` | `LocalCookbookFromDir`, `LoadChefignore`, `Ignores` | the directories still to visit, the files collected, the tree |
| `PublishContract` | what a caller of either `Upload` may rely on | which uploads are on the server, whole or torn; what each call returned |
| `GroupPolicy` | what a caller of `PushRevision` may rely on | the pinned revision of each group, the revisions that are ready, what each push returned |
| `PolicyPush` | `PushRevision`, `PutPolicy`, and all deletions of pins, revisions, policies, groups and artifacts | `at`, the lock each push is at, `artifacts`, `active` pins |
| `SearchAll` | `SearchAll`, `Query` | `offset`, `all`, the index; `Insert` and `Delete` between pages |
| `Reregister` | `Clients.Reregister`, `Keys.Create` as the recovery | the default key, late requests |
| `AclEdit` | the read, edit and write of ACLs | each editor's copy, `acl` on the server, late writes |
| `DataBagCrypto` | `Encrypt`, `Decrypt`, `parseWrapper`, the decryption of each version | the stored item, what each client received and what it decrypted, updates still under way |
| `NodeEdit` | nodes between `Get` and `Update`, attributes | each editor's copy, `node` on the server, late writes; one action per edit. `settings` stands for the environment, the policy name and the policy group |
| `SignedClient` | `ParseServerURL`, the options, `NewClient`, the signature of each attempt, the path that is signed and the one `net/http` sends | `opts`, `timeout`, `transport` and `insecure` of Clients being made; `request`, `reply` and the clock of calls |
| `...Proofs` | theorems about the module of that name. Three are about more than one: `SecretsProofs` about `Reregister`, `DataBagCrypto` and `SignedClient`, `SearchAllProofs` about `SearchAll` and `NodeEdit`, `CookbookUploadProofs` about `CookbookUpload` and `CookbookWalk`. The modules they share name `Init`, `Next` and the like apart for it (`NodeInit`, `WalkNext`) | |
| `MC...` | the instance of a run | |

Definitions keep the names of the source where TLA+ allows it; `PROJECT.json`
maps each to its lines. A definition marked *Mutated* is not part of the
specification: it is the definition below it with a plausible mistake, and is
there to show that a property notices that mistake.

Composition is by contract, in two chains.

* `ParallelForEach` implements `TransferBatch` (checked and proved), and the
  transfers of `CookbookUpload` and `CookbookDownload` have the freedom
  `TransferBatch` gives. `CookbookUpload` implements `PublishContract`
  (checked and proved), which is what `PolicyPush` takes a
  `CookbookArtifacts.Upload` for: one step that publishes the artifact, or fails
  and leaves it to be published later or never. `PolicyPush` implements
  `GroupPolicy` (checked and proved): its `active` is the same variable, `ready` are the revisions all of whose
  artifacts have been published, and `returned` abstracts `pc`.
* `Transport` implements `CallContract` (checked and proved), and the requests
  of `CookbookUpload`, `PolicyPush`, `Reregister`, `AclEdit` and `NodeEdit` are
  the writes of that contract: applied at most once, and possibly after their
  call has returned an error (the actions `ServeLate`). `SignedClient` has the
  retry loop of `Transport` with the signature and the time of each attempt,
  and without what requests do on the server.

## The runs

| Run | Instance | What it shows |
|---|---|---|
| `parallel` | 4 items, 2 slots | the loop has to wait for slots twice; every interleaving of failure, `cancel()`, cancellation from outside and completion. Also that the pool implements `TransferBatch` |
| `transport` | 2 calls of any kind, 1 retry, a status for every sentinel error and one (400) for those without | two calls are what a race for one resource takes, one retry separates "retried" from "retries spent". Also that `CallContract` is implemented |
| `upload` | 3 uploads of 2 cookbooks, 2 contents, one upload repeated | a content in two files of one cookbook and in both cookbooks; one struct as version and artifact at once; an artifact upload without an identifier, from a struct whose field is set. Also that `PublishContract` is implemented |
| `search` | 4 rows and one more, 3 changes, page sizes 0 to 3, starts 0, 1 and 5 | several pages with changes in between; an empty page; a start past the end |
| `push` | 5 pushes, 4 locks, 1 group, 1 artifact deleted | competing good pushes, one of them repeated; a lock without identifier, a missing cookbook, a malformed lock; deletion of one revision and of all. Also that `GroupPolicy` is implemented |
| `reregister` | 3 callers | the third sees the leftovers of a race of two |
| `download` | 4 downloads, 3 directories | two downloads into one directory, the third into the directory above with a file in a directory's place, the fourth with an unsafe path; both shapes of manifest, a path that leaves and comes back; contents of one and of two bytes for the same file |
| `acl_edit` | 4 editors, 5 permissions | grant of all, revocation, a grant that changes nothing, an unknown permission; repeated arguments |
| `walk` | 4 files in nested directories, all sets of 5 patterns and a blank and a comment line, 2 changes | patterns for names, entries and paths at every depth |
| `databag` | 2 values, 2 clients, 2 secrets, 1 damaged field, 1 late update, mantissa of 2 bits, numbers to 8 | all three formats and the clear; every field and every kind of damage; any number of saves; both values are numbers that need a third bit |
| `node_edit` | 4 editors, 3 strings, 2 nodes to begin with | an editor that adds and removes tags, one of the run list, a report of automatic attributes, a deletion and a creation; tags with a value that is no string among them, or no list at all; an attribute in several scopes, trees three keys deep; settings that no editor touches |
| `client` | 2 Clients, 3 `http.Client`s, 1 call, clock of 1, patience of 0 | the second Client is made while the first is in use; one of the Transports skips the verification to begin with; one tick of the clock is more than the server's patience, so that an attempt, or what came before it, may have taken too long; names that are empty, end in a slash or begin a query, and ones with a '#', a character that has to be escaped, or a malformed escape; a signature of 4 full lines and one of 5 lines and a bit |

Bounds: `NumItems`, `MaxRetries`, `MaxCalls`, `MaxChanges`, `MaxDeleted`,
`MaxDamage`, `MaxLate`, `MaxNumber`, `MaxTime` and the sizes of the sets. Safety does not
rest on them: every safety property a run checks is proved for every value. For
liveness, each actor is in a role of its own (see the comments of the `MC`
modules), and one more actor of a role already there adds interleavings of steps
that two actors of it, or the repetition of one, already have.

### Fairness

Liveness is checked for the parts that loop or wait (the pool, the retries, the
uploads with their batch, the paging, and the calls of a Client), under weak
fairness of each caller's own steps, never of the server's or the network's good
will: a step of a caller may always be the failure of its request. The pool's
goroutines are scheduled by the Go runtime, which is what `Fairness` of
`ParallelForEach` says. Why a request ends is the subject of `SignedClient`:
its fairness is of `Send`, `Receive` and `TimeOut` only, `TimeOut` is possible
only if the `http.Client` in use has a Timeout, and the server may hang. The
default one has 30 seconds (`options.go`), and `TimedCallsReturn` says that no
combination and order of options loses the Timeout of the client in use. Who
passes a client without one (`WithHTTPClient`) and a context without a deadline
has no such assurance, and the liveness of the other modules does not hold then.
The modules without liveness are straight sequences of calls, or loops over a
list that is given.

### Type invariants

Every detailed module has its type invariant proved, and no run spends a property
on it: by a theorem `TypeCorrect`, `ItemTypeCorrect` (data bags) or
`NodeTypeCorrect`, or as a conjunct of an inductive invariant (`WalkTypeOK` in
`WalkInv`; `MakingTypes` and `CallTypes` of `SignedClient` in `SignedInv` and
`CallInv`, for the Clients made and for their calls).
The same holds of `NilMeansAllDone` (part of what `RefinesBatch` says),
`RetryBudget`, `NoDuplicateTransfer`, `DoneIsPinned` and `Inside`: proved, and
not run again.

### Known limits of the code

What the models show of the code and no property hides:

* `SearchAll` "pages through every result, returning all rows"
  (`src/search.go:68`), but the next offset is the number of rows received
  (`src/search.go:99`): if one of those is deleted meanwhile, the rest move up
  and one row is skipped, without an error. What holds is `ExactWhenStable`,
  `NothingMissed` and `NothingTwice`.
* `Reregister` reports every failure of the create, a lost reply too, as "could
  not create a new one" (`src/clients.go:74`). A default key may exist then whose
  private half nobody has, and the key its comment advises to add
  (`src/clients.go:64`) meets a conflict. `NoSilentLoss` says what holds: the
  caller has been told of a failure.
* After `AddTags`, `AttributeString("tags")` of the node in memory is all tags in
  brackets, as `SetTags` stores a `[]string` and `attributeToString` looks into a
  `[]any` only (`src/nodes.go:110`); once the node was stored and fetched it is
  the first tag. `Tags` knows no single string and skips what is no string in a
  list, so the next edit of the tags drops both.
* A path in `Config.ServerURL` is part of the URL of a request, but not of the
  path that is signed (`src/transport.go:48`, `:64`). `SignedClient` has servers
  at the root, as `ParseServerURL` returns them.
* Names go into paths as they are. If one holds a '#' or a character that a URL
  has to escape, `http.NewRequestWithContext` makes another path of it
  (`src/transport.go:48`, `:53`) than the one that is signed (`:57` to `:64`), and
  the server refuses the request at once; with a malformed escape there is no
  request at all. `SignedClient` models this, and `RefusedOnlyIfLate` is of names
  without such characters.
* `CookbookArtifacts.Upload` takes an empty identifier and then sends the manifest
  of a version to `/cookbook_artifacts/NAME/VERSION`, where its comment
  (`src/cookbook_artifacts.go:60`) promises an artifact's. A struct whose
  `Identifier` is set makes `Cookbooks.Upload` do the reverse.
  `ManifestMatchesEndpoint` says what holds: a manifest is what its own call asked
  for, and fits the endpoint for callers who go by the rules. `PushRevision` does:
  it refuses a lock without an identifier (`src/policies.go:156`).
* Two jobs may write one file at once, of two downloads or of one manifest that
  names it twice. `os.WriteFile` (`src/cookbooks.go:256`) truncates when it opens
  only, so the shorter content may keep the end of the longer one, while both
  return nil. `NilMeansWhole` says how far this goes: the file begins with one
  whole content, and is nothing else unless a longer one was written to it too.
* Concurrent edits of a node, an ACL or a data bag item overwrite each other:
  writes carry no condition. `NodeEditIsExact` and `EditIsExact` are of edits
  nobody disturbed, and `NoDrift` is of each value by itself.
* `FailFast` counts the workers started once the context is done. Between an
  error of `fn` and the `cancel()` that follows it under the mutex
  (`src/parallel.go:43` to `:47`) the loop may start more of them, which run like
  any other.

## What is proved

All theorems hold for every value of the constants under the assumptions named
in the modules: types of the given functions, finite numbers, an index and an
ACL without duplicates at the start, markers such as `NoRevision` or `Wrong`
that are none of the values they stand beside. Paths, manifests, locks,
arguments, patterns, names and the order of what happens are arbitrary. Three
assumptions say more than a type:

* `TreeAssumption` (`CookbookWalk`): what is in a directory is a tree. The
  directory above an entry is one of `Dirs` or the cookbook's own, and no
  file is a directory. Any file system sees to that; what `Dirs` are does not
  change during a walk.
* `NodesAssumption` (`NodeEdit`): a node on the server at the start is what JSON
  decodes to, its tags and its run list hold no entry twice, and its attributes
  can be read by the model (`Readable`): none is the empty string, which stands
  apart as `NoString`, and no array begins with an array. `attributeToString`
  goes down into such arrays; the model stops after one.
* `PathAssumption` (`SignedClient`): names are strings of characters, also empty
  ones and such with slashes, question marks, '#' or malformed escapes in them.

Each module proves `Invariance`, that an inductive invariant `IInv` holds. The
properties are conjuncts of it or follow from it. In a proofs module about
several, the invariants have names of their own: `ItemInv`, `SignedInv`, `CallInv`,
`WalkInv`, `NodeInv`.

* `ParallelForEachProofs`. `IInv` adds to the properties that the semaphore and
  the wait group count the goroutines they should (`CountInv`), that items from
  `next` on are untouched (`LaunchInv`), that a worker's place tells what its
  `fn` returned (`OutcomeInv`), that a done context has a cause (`ErrInv`) and
  that at most one worker is late (`LateInv`). From it: `TypeCorrect`,
  `NilIsTruthful`, `ErrorIsTruthful`, `FanOutIsBounded`, `NoGoroutineLeaks`,
  `FailsFast`, and `ImplementsBatch`, by mapping each step to one of
  `TransferBatch` or to none.
* `TransportProofs`. The invariant ties every request under way to the attempt
  it belongs to: a write has one attempt, so one request, so one effect; a
  definite status was sent by a server that had not applied it. From it:
  `TypeCorrect`, `AtMostOnce`, `HonestResults`, `BudgetIsSpent`,
  `ImplementsContract`.
* `CookbookUploadProofs`. The invariant says of each place in the protocol which
  of the upload's contents are stored by then, and the same of requests still
  under way, so that a late commit or manifest is as safe as one in time. From
  it: `TypeCorrect`, `CommitsAreSafe`, `ManifestsAreComplete`,
  `TransfersAreDistinct`, `EndpointsMatch` (for any identifiers, empty ones too), `SuccessIsPublished`, and
  `ImplementsPublish`, that every step publishes whole, in the contract's terms.
  Of `CookbookWalk`: `IgnoresIsExcluded` says that the candidates the code makes
  of a path are the right ones, for paths and patterns of any kind. It follows
  that a path below an ignored one is ignored, and so that pruning loses
  nothing. The invariant `WalkInv` says that a file which was there all the time
  is ignored, collected, or still ahead: itself or a directory above it is
  listed and not visited. From it: `WalkLosesNothing`, `WalkTakesNoExcluded`,
  `PruningIsAsking`.
* `SearchAllProofs`. The invariant relates the rows collected to the prefix of
  the index before the offset: equal if nothing changed, a superset without
  deletions, in the same order without insertions. From it: `TypeCorrect`,
  `StableIsExact`, `InsertionsAreSafe`, `DeletionsDoNotRepeat`.
  Of `NodeEdit`: what `appendMissing`, `without`, `Tags`, `SetTags`, `Dig` and
  `Attribute` compute, for lists and trees of any size; that a node survives the
  way through JSON but for the type of its tags; that the last edit which names
  a tag or an entry decides about it (`ExactStep`). Then the invariant `NodeInv`:
  what is on the server, in memory and still under way are nodes without
  duplicates (`DistinctInv`, `LateInv`), and a copy is what `Get` returned,
  changed by exactly the edits made so far (`EditedInv`). From it:
  `NodeTypeCorrect`, `NodeListsNothingTwice`, `NodeEditsAreExact`, `NodeLookups`.
* `PolicyPushProofs`. The invariant says that the locks before a push's place
  are valid and their artifacts uploaded, also of pins that are still under
  way, so that no pin can arrive before its artifacts. Of a pinned
  revision only artifacts that somebody deleted may be missing. From it:
  `TypeCorrect`, `RunnablePins`, `NilMeansPinned`, and `ImplementsGroupPolicy`.
* `SecretsProofs`. Of `Reregister`: keys are older than the next one the server
  makes (`KeysInv`), so a deleted one does not come back, and who has a request
  under way after its call has been told of a failure (`LateInv`). From it:
  `TypeCorrect`, `OldKeyStaysRevoked`, `NothingLostInSilence`, `WarningsStay`.
  Of `DataBagCrypto`: `NeverWrong`, `ErrorsTell`, `NoDrift` and the types are
  inductive together with `SourceInv`, that what a client holds and what may still
  arrive also comes from the callers. It rests on what each outcome of decrypting
  one value says of it and of the secret, format by format, and on `RoundedOnce`:
  a number that was rounded to a float64 is one, so rounding it again changes
  nothing. From it: `ItemTypeCorrect`, `DecryptIsNeverWrong`, `ErrorsAreTold`,
  `ValuesDoNotDrift`.
  Of `SignedClient`: what `NewClient` decided of a Client stands, and the only
  Transports that come to skip the verification are clones made for Clients that
  asked for it (`MadeInv`, with the types it needs, in `SignedInv`). From it:
  `VerificationStays` and `TimeoutIsKept`. Then that the path as it is signed is
  the path as the server counts it, `SignedAsServed`: the code keeps a slash
  unless the character it wrote last is one, the server unless the one before it
  is. And that the header lines hold the whole signature whatever its length,
  `SignatureIsWhole`. With `CallInv`, that a request under way
  carries the path `net/http` makes of the one given, and the signature of the one
  given made when it was sent, `RefusalsAreLate` follows: before the query both
  are the same if nothing in it is cut off or escaped. `Insecure \subseteq Transports` in
  `ClientAssumption` says that a clone is not there before it is made.
* `AclEditProofs`. First what the helpers compute: `EditedIsExact`, that an
  entry gets exactly the members added or removed, without duplicates and
  unchanged if they report no change. Then the invariant: the copies and the
  late writes are as good as what is on the server (`DuplicatesInv`,
  `GrantedInv`), and a copy is what `Get` returned up to where the loop has come
  (`LoopInv`). From it: `TypeCorrect`, `EntriesAreUnique`,
  `NothingElseIsGranted`, `EditsAreExact`.
* `CookbookDownloadProofs`. `UnsafeIsOutside` is about paths: the test on
  `filepath.Rel` refuses a path exactly if joining it leads out of the
  directory. Then the invariant: who has opened a file or started its workers
  has found every path safe (`SafeInv`), a file begins with the content of a job
  that is done unless one of its jobs is not done or failed, and is not longer
  than what one of them writes (`FilesInv`), and nil is returned when all jobs are
  done (`NilInv`). From it: `TypeCorrect`, `OneBadPathOpensNothing`, `NilIsWhole`,
  `NothingOutside`.

`NilMeansWhole` speaks of files that only downloads which returned nil have
opened: one that is still running, or failed, may have truncated the file of
another. Nothing in the code prevents that, and nothing in its comments denies it.

The installed provers cannot use the induction schemes of the library.
What loops over data compute (`addMembers`, `removeMembers`, `Clean`,
`chefignoreCandidates`, `appendMissing`, `Dig`, `CanonicalPath`) is proved
all the same, with recursive functions and a least counterexample: were the
claim false of some length of input, there would be a shortest one, and the
pass of the loop before it contradicts that.

Only model-checked is all liveness (`Termination`, `EveryCallReturns`,
`UploadEnds`, `SearchEnds`, `TimedCallsReturn`), as the prover has no rules for
fairness and ENABLED. `TimeoutIsKept` is the part of `TimedCallsReturn` that
speaks of states, and is proved. `EveryCallReturns` of `Transport` catches an
endless loop of retries; that no read gives up before its retries are spent is
`RetryBudget`, which is proved.

## What is not modelled

* The server beyond what the client relies on. It collects no garbage: contents
  once stored stay. Sandboxes that are never committed are forgotten. It accepts
  an artifact that is there already.
* Numbers in data bag items: `Decrypt` makes them float64, so integers beyond
  2^53 come back rounded and are stored so by the next save. `NeverWrong` states
  what does hold, that the nearest float64 comes back, and `NoDrift` that further
  saves round no further; the mantissa is scaled down to 2 bits in the run, and
  there are no fractions, signs or infinities.
* The content of a downloaded file is not compared with its checksum by the
  code, so nothing is said about a bookshelf that serves other content. One call
  of `write` is taken to be atomic.
* MD5 is injective, the ciphers are ideal, a version number of a wrapper is not
  among the fields damaged.
* `PolicyPush` takes the cookbook supplied for a lock to be named like the lock,
  which is the caller's to see to.
* The order of `filepath.WalkDir` is left open; unreadable files end the walk.
* In `NodeEdit` maps nest three deep in the run, no array begins with an array, and two
  copies of a `Node` struct that share their maps are not considered: each
  editor works on what its own `Get` returned. `SignedClient` leaves the hash and
  RSA ideal and the proxies, cookies and redirects of an `http.Client` aside.
* `Config.validate`, `ParsePrivateKey` and the like: tests of arguments, without
  state.
* The services whose operations are single requests (environments, roles, users,
  organizations, groups, containers, associations, principals, license, required
  recipe, stats, status, universe). They keep nothing between calls and make no
  second request that depends on a first: `CallContract` is all there is to say.
* The test server of `internal/cinctest`.
* Formatting, header text, user agents, logging, PEM parsing, and of URLs all
  that `url.Parse` does but cutting off fragments, escaping, and refusing
  malformed escapes.

## Plan

1. Core (done): the pool, the transport, uploads; their contracts and proofs.
2. Operations of many requests (done): search with proofs, push, reregister,
   download, ACLs, walk, data bags.
3. What was left of the system (done): nodes and attributes, the making of
   Clients and the signing of requests; the contracts `PublishContract` and
   `GroupPolicy`, which join pool, upload and push.
4. Proofs (done): the pushes and both refinements of contracts, keys, ACLs, data
   bags, downloads, the making of Clients, the signatures, the walk, the nodes.
5. What could follow: the retry loop of `SignedClient` as an implementation of
   `Transport`'s, so that the latter's proofs hold of it too; arrays within
   arrays in `NodeEdit`; and the validation of `Config`, should it come to depend
   on more than its arguments.
