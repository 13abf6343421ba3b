--------------------------- MODULE CookbookDownload ---------------------------
(***************************************************************************)
(* Cookbooks.Download and downloadFile (cookbooks.go): the manifest of a   *)
(* cookbook version is fetched, every destination path is checked, and the *)
(* files are fetched and written in parallel. Several downloads may write  *)
(* to the same directory at the same time.                                 *)
(*                                                                         *)
(* A path is the sequence of its elements. The jobs of a download are the  *)
(* batch of TransferBatch: none is left running when it returns, and only  *)
(* a batch without failure returns nil. The bookshelf, the server and the  *)
(* file system are external: os.WriteFile opens and truncates the file and *)
(* writes from offset 0 of its own descriptor afterwards, in one write of  *)
(* the kernel, and os.MkdirAll and os.WriteFile fail where a file is in    *)
(* the place of a directory and the other way round.                       *)
(***************************************************************************)
EXTENDS Naturals, Sequences, SequencesExt

CONSTANTS
    Downloads,         \* callers of Download
    DirOf,             \* destDir of each, a clean absolute path
    AllFilesManifest,  \* all_files in the manifest each of them gets
    Segments,          \* the nine per-segment lists of that manifest
    Bytes              \* what contents are sequences of

VARIABLES
    pc,                \* "get", "jobs", "nil" or "err", for each download
    job,               \* how far each of its file downloads is
    files,             \* paths of files, with their content
    dirs,              \* paths of directories
    touched            \* history: files each download has opened

vars == <<pc, job, files, dirs, touched>>

(* Cookbook.AllFiles: both shapes of the manifest, one after the other.    *)
AllFiles ==
    [d \in Downloads |-> AllFilesManifest[d] \o FlattenSeq(Segments[d])]

Jobs(d) == DOMAIN AllFiles[d]
Content(d, i) == AllFiles[d][i].content
Path(d, i) == AllFiles[d][i].path

ASSUME PathAssumption ==
    \A d \in Downloads :
        /\ DirOf[d] \in Seq(STRING)
        /\ \A i \in Jobs(d) : Path(d, i) \in Seq(STRING)

(* filepath.Clean of an absolute path, element by element.                 *)
CleanElem(done, elem) ==
    CASE elem \in {"", "."} -> done
      [] elem = ".." -> IF done = <<>> THEN done ELSE Front(done)
      [] OTHER -> Append(done, elem)

Clean(path) ==
    LET clean[n \in 0..Len(path)] ==
            IF n = 0 THEN <<>> ELSE CleanElem(clean[n - 1], path[n])
    IN  clean[Len(path)]

(* filepath.Join(destDir, filepath.FromSlash(ref.Path)).                   *)
Dests ==
    [d \in Downloads |-> [i \in Jobs(d) |-> Clean(DirOf[d] \o Path(d, i))]]
Dest(d, i) == Dests[d][i]

(* filepath.Rel for clean absolute paths: up to the common prefix, then    *)
(* down.                                                                   *)
Rel(base, target) ==
    LET common == Len(LongestCommonPrefix({base, target}))
    IN  [i \in 1..(Len(base) - common) |-> ".."]
            \o SubSeq(target, common + 1, Len(target))

Unsafe(d, i) ==
    LET rel == Rel(DirOf[d], Dest(d, i)) IN rel # <<>> /\ Head(rel) = ".."

JobStates == {"todo", "fetched", "made", "open", "ok", "fail"}

ASSUME ContentAssumption ==
    \A d \in Downloads : \A i \in Jobs(d) : Content(d, i) \in Seq(Bytes)

Paths == UNION {{Dest(d, i) : i \in Jobs(d)} : d \in Downloads}

(* The directories of a destination, which os.MkdirAll makes.              *)
Parents == [p \in Paths |-> Prefixes(Front(p))]
DestDirs == UNION {Prefixes(DirOf[d]) : d \in Downloads}
Dirs == DestDirs \cup UNION {Parents[p] : p \in Paths}

TypeOK ==
    /\ pc \in [Downloads -> {"get", "jobs", "nil", "err"}]
    /\ DOMAIN job = Downloads
    /\ \A d \in Downloads : job[d] \in [Jobs(d) -> JobStates]
    /\ DOMAIN files \subseteq Paths
    /\ \A p \in DOMAIN files : files[p] \in Seq(Bytes)
    /\ dirs \subseteq Dirs
    /\ touched \in [Downloads -> SUBSET Paths]

(* Every destination directory exists, and is empty.                       *)
Init ==
    /\ pc = [d \in Downloads |-> "get"]
    /\ job = [d \in Downloads |-> [i \in Jobs(d) |-> "todo"]]
    /\ files = [p \in {} |-> <<>>]
    /\ dirs = DestDirs
    /\ touched = [d \in Downloads |-> {}]

-----------------------------------------------------------------------------
(* Mutated: an unsafe path is not refused before the others are fetched.   *)
GetLate(d) ==
    /\ pc[d] = "get"
    /\ pc' = [pc EXCEPT ![d] = "jobs"]
    /\ job' = [job EXCEPT ![d] = [i \in Jobs(d) |->
                 IF Unsafe(d, i) THEN "fail" ELSE "todo"]]
    /\ UNCHANGED <<files, dirs, touched>>

(* The manifest arrives, or does not, and all paths are checked before any *)
(* file is fetched or written.                                             *)
Get(d) ==
    /\ pc[d] = "get"
    /\ \/ pc' = [pc EXCEPT ![d] = "err"]
       \/ /\ \A i \in Jobs(d) : ~Unsafe(d, i)
          /\ pc' = [pc EXCEPT ![d] = "jobs"]
    /\ UNCHANGED <<job, files, dirs, touched>>

(* Job i of download d goes from one state to another.                     *)
Moves(d, i, from, to) ==
    /\ pc[d] = "jobs"
    /\ job[d][i] = from
    /\ job' = [job EXCEPT ![d][i] = to]
    /\ UNCHANGED pc

(* The whole body is read into memory before the file is touched.          *)
Fetch(d, i) ==
    /\ Moves(d, i, "todo", "fetched")
    /\ UNCHANGED <<files, dirs, touched>>

(* os.MkdirAll(filepath.Dir(dest)).                                        *)
MkdirAll(d, i) ==
    /\ Moves(d, i, "fetched", "made")
    /\ Parents[Dest(d, i)] \cap DOMAIN files = {}
    /\ dirs' = dirs \cup Parents[Dest(d, i)]
    /\ UNCHANGED <<files, touched>>

Put(path, content) ==
    [p \in DOMAIN files \cup {path} |-> IF p = path THEN content ELSE files[p]]

(* os.WriteFile opens and truncates the file ...                           *)
OpenFile(d, i) ==
    /\ Moves(d, i, "made", "open")
    /\ Dest(d, i) \notin dirs
    /\ files' = Put(Dest(d, i), <<>>)
    /\ touched' = [touched EXCEPT ![d] = @ \cup {Dest(d, i)}]
    /\ UNCHANGED dirs

(* Writing data from offset 0 leaves what is in the file behind it.        *)
Overlay(data, old) == data \o SubSeq(old, Len(data) + 1, Len(old))

Writes(d, i, data) ==
    files' = Put(Dest(d, i), Overlay(data, files[Dest(d, i)]))

(* ... and writes it. It is not truncated again: another job may have      *)
(* written it in between, and the end of a longer content stays.           *)
WriteFile(d, i) ==
    /\ Moves(d, i, "open", "ok")
    /\ Writes(d, i, Content(d, i))
    /\ UNCHANGED <<dirs, touched>>

(* Mutated: an error of os.WriteFile is dropped.                           *)
JobFailsSilently(d, i) ==
    /\ \/ \E from \in {"todo", "fetched", "made"} : Moves(d, i, from, "fail")
       \/ Moves(d, i, "open", "ok")
    /\ UNCHANGED <<files, dirs, touched>>

(* The request, the body, os.MkdirAll or os.WriteFile fails. A file that   *)
(* was opened is left behind with any part of its content written.         *)
JobFails(d, i) ==
    /\ \/ /\ \E from \in {"todo", "fetched", "made"} : Moves(d, i, from, "fail")
          /\ UNCHANGED files
       \/ /\ Moves(d, i, "open", "fail")
          /\ \E data \in Prefixes(Content(d, i)) : Writes(d, i, data)
    /\ UNCHANGED <<dirs, touched>>

(* parallelForEach returns: nil if every job succeeded, an error if one    *)
(* failed or if the context was canceled; jobs may not have been started.  *)
Return(d) ==
    /\ pc[d] = "jobs"
    /\ \A i \in Jobs(d) : job[d][i] \in {"todo", "ok", "fail"}
    /\ \/ /\ \A i \in Jobs(d) : job[d][i] = "ok"
          /\ pc' = [pc EXCEPT ![d] = "nil"]
       \/ pc' = [pc EXCEPT ![d] = "err"]
    /\ UNCHANGED <<job, files, dirs, touched>>

-----------------------------------------------------------------------------
Step(d) == \/ Get(d) \/ Return(d)
           \/ \E i \in Jobs(d) : \/ Fetch(d, i) \/ MkdirAll(d, i)
                                 \/ OpenFile(d, i) \/ WriteFile(d, i)
                                 \/ JobFails(d, i)

Terminated == (\A d \in Downloads : pc[d] \in {"nil", "err"}) /\ UNCHANGED vars

Next == (\E d \in Downloads : Step(d)) \/ Terminated

Spec == Init /\ [][Next]_vars

-----------------------------------------------------------------------------
(* Correctness.                                                            *)

(* If any path of the manifest leads out of the directory, however the     *)
(* paths go up and down, no file of the manifest is opened, not even those *)
(* with harmless paths. So no file outside is ever opened.                 *)
AllOrNothingChecked ==
    \A d \in Downloads :
        (\E i \in Jobs(d) : ~IsPrefix(DirOf[d], Dest(d, i))) => touched[d] = {}

(* Job j of e is one of those that opened the file p.                      *)
Opened(e, j, p) == Dest(e, j) = p /\ p \in touched[e]

(* A download that returned nil has every file in place, unless another    *)
(* one that has not returned nil has opened the same file: it begins with  *)
(* the whole content of one of the jobs that opened it, and it is exactly  *)
(* that content unless another of them had a longer one, whose end may     *)
(* stay behind it. So nowhere is a file left truncated, although jobs may  *)
(* have written it at once, and none is in the place of a directory        *)
(* another one needs: such a conflict ends in an error, in whatever order  *)
(* the jobs run. (Which version a file begins with is open.)               *)
NilMeansWhole ==
    \A d \in Downloads : \A i \in Jobs(d) :
        LET p == Dest(d, i)
        IN  pc[d] = "nil" /\ (\A e \in Downloads : p \in touched[e] => pc[e] = "nil")
            => /\ p \in DOMAIN files
               /\ \E e \in Downloads : \E j \in Jobs(e) :
                     /\ Opened(e, j, p) /\ IsPrefix(Content(e, j), files[p])
                     /\ \/ files[p] = Content(e, j)
                        \/ \E f \in Downloads : \E k \in Jobs(f) :
                              /\ Opened(f, k, p)
                              /\ Len(Content(f, k)) > Len(Content(e, j))

-----------------------------------------------------------------------------
(* The inductive invariant: a file has a job that opened it and is not     *)
(* done with it, or it begins with the content of a job that is done; it   *)
(* is not longer than what one of its jobs writes; files are not in the    *)
(* place of directories; and only a manifest whose paths all are safe gets *)
(* as far as its jobs.                                                     *)

Answered(p) ==
    \E d \in Downloads : \E i \in Jobs(d) :
        /\ Opened(d, i, p)
        /\ \/ job[d][i] \in {"open", "fail"}
           \/ job[d][i] = "ok" /\ IsPrefix(Content(d, i), files[p])

Bounded(p) ==
    \E d \in Downloads : \E i \in Jobs(d) :
        Opened(d, i, p) /\ Len(files[p]) <= Len(Content(d, i))

FilesInv ==
    /\ \A d \in Downloads : \A i \in Jobs(d) :
        job[d][i] \in {"open", "ok"} =>
            Dest(d, i) \in DOMAIN files /\ Dest(d, i) \in touched[d]
    /\ \A p \in DOMAIN files : Answered(p) /\ Bounded(p)
    /\ dirs \cap DOMAIN files = {}

NilInv ==
    \A d \in Downloads :
        pc[d] = "nil" => \A i \in Jobs(d) : job[d][i] = "ok"

SafeInv ==
    \A d \in Downloads :
        pc[d] = "jobs" \/ touched[d] # {} => \A i \in Jobs(d) : ~Unsafe(d, i)

IInv == TypeOK /\ FilesInv /\ NilInv /\ SafeInv

=============================================================================
