----------------------------- MODULE CookbookWalk -----------------------------
(***************************************************************************)
(* LocalCookbookFromDir (cookbooks.go) with the chefignore patterns of     *)
(* chefignore.go: a cookbook directory is read into a LocalCookbook, while *)
(* other processes (an editor, a test run) make and remove files in it.    *)
(*                                                                         *)
(* A path is the sequence of its elements, relative to the directory, so   *)
(* that <<>> is ".". filepath.WalkDir is external: it lists a directory    *)
(* when it comes to it and hands every entry to the callback; the order,   *)
(* which is lexical there, is left open here. So is path.Match: since its  *)
(* wildcards never match a slash, it goes element by element.              *)
(***************************************************************************)
EXTENDS Naturals, Sequences, FiniteSets, SequencesExt

CONSTANTS
    Dirs,              \* the directories below the cookbook's, all present
    TreeFiles,             \* the files that may be there
    Globs,             \* globs for one element of a path
    GlobMatches,       \* the names each of them matches
    Lines,             \* lines a chefignore file may have: sequences of globs
    Blank, Comment,    \* and two that are no patterns
    MaxChanges         \* bound on the files made and removed meanwhile

(* What is in the directory is a tree, and no file is a directory of it.   *)
ASSUME TreeAssumption ==
    /\ Dirs \cup TreeFiles \subseteq Seq(STRING)
    /\ \A p \in Dirs \cup TreeFiles :
        p # <<>> /\ Front(p) \in Dirs \cup {<<>>}
    /\ Dirs \cap TreeFiles = {}
ASSUME MaxChangesAssumption == MaxChanges \in Nat

VARIABLES
    readable,          \* chefignore: "readable", "missing" or "unreadable"
    chefignore,        \* its lines
    tree,              \* files in the directory
    progress,          \* "load", "walk", "done" or "failed"
    patterns,          \* patterns of the Chefignore
    todo,              \* entries WalkDir has listed and not visited
    files,             \* names in cb.files
    made, removed      \* history: files made and removed during the walk

world == <<readable, chefignore, tree, made, removed>>
client == <<progress, patterns, todo, files>>
walkVars == <<world, client>>

WalkTypeOK ==
    /\ readable \in {"readable", "missing", "unreadable"}
    /\ chefignore \subseteq Lines \cup {Blank, Comment}
    /\ tree \subseteq TreeFiles
    /\ progress \in {"load", "walk", "done", "failed"}
    /\ patterns \subseteq Lines
    /\ todo \subseteq {<<>>} \cup Dirs \cup TreeFiles
    /\ files \subseteq TreeFiles
    /\ made \subseteq TreeFiles /\ removed \subseteq TreeFiles

WalkInit ==
    /\ \/ /\ readable \in {"missing", "unreadable"}
          /\ chefignore = {}
       \/ /\ readable = "readable"
          /\ chefignore \in SUBSET (Lines \cup {Blank, Comment})
    /\ tree \in SUBSET TreeFiles
    /\ progress = "load"
    /\ patterns = {}
    /\ todo = {} /\ files = {}
    /\ made = {} /\ removed = {}

-----------------------------------------------------------------------------
(* chefignore.go.                                                          *)

parseChefignore(lines) == lines \ {Blank, Comment}

(* path.Match (external).                                                  *)
Match(pattern, path) ==
    /\ Len(pattern) = Len(path)
    /\ \A i \in DOMAIN path : path[i] \in GlobMatches[pattern[i]]

Base(path) == <<Last(path)>>

(* Mutated: the directories are no candidates; the basenames are not.      *)
chefignoreCandidatesFlat(path) == {path, Base(path)}
chefignoreCandidatesLong(path) == {SubSeq(path, 1, n) : n \in 1..Len(path)}

(* The path and its basename, then up through path.Dir.                    *)
chefignoreCandidates(path) ==
    LET up[n \in 0..Len(path)] ==
            IF n = 0 THEN {}
            ELSE {SubSeq(path, 1, n), Base(SubSeq(path, 1, n))} \cup up[n - 1]
    IN  {path, Base(path)} \cup up[Len(path) - 1]

Ignores(path) ==
    /\ path # <<>>
    /\ \E pattern \in patterns, candidate \in chefignoreCandidates(path) :
        Match(pattern, candidate)

-----------------------------------------------------------------------------
(* LocalCookbookFromDir.                                                   *)

(* LoadChefignore. A missing file means no patterns.                       *)
LoadChefignore ==
    /\ progress = "load"
    /\ \/ /\ readable = "unreadable"
          /\ progress' = "failed"
          /\ UNCHANGED <<patterns, todo>>
       \/ /\ readable # "unreadable"
          /\ progress' = "walk"
          /\ patterns' = IF readable = "missing" THEN {}
                         ELSE parseChefignore(chefignore)
          /\ todo' = {<<>>}
    /\ UNCHANGED <<world, files>>

Children(dir) ==
    {p \in Dirs \cup tree : Len(p) = Len(dir) + 1 /\ Front(p) = dir}

(* Mutated: an ignored directory ends the walk of the whole cookbook.      *)
VisitDirStops(dir) ==
    /\ progress = "walk"
    /\ dir \in todo \ TreeFiles
    /\ todo' = IF Ignores(dir) THEN {} ELSE (todo \ {dir}) \cup Children(dir)
    /\ UNCHANGED <<world, progress, patterns, files>>

(* A directory: SkipDir if it is ignored, else its entries come next.      *)
VisitDir(dir) ==
    /\ progress = "walk"
    /\ dir \in todo \ TreeFiles
    /\ todo' = (todo \ {dir}) \cup (IF Ignores(dir) THEN {} ELSE Children(dir))
    /\ UNCHANGED <<world, progress, patterns, files>>

(* A file: left out if it is ignored, else read, if it still is there.     *)
VisitFile(f) ==
    /\ progress = "walk"
    /\ f \in todo \cap TreeFiles
    /\ Ignores(f) \/ f \in tree
    /\ files' = IF Ignores(f) THEN files ELSE files \cup {f}
    /\ todo' = todo \ {f}
    /\ UNCHANGED <<world, progress, patterns>>

(* A directory cannot be listed, or a file not read: the walk fails.       *)
VisitFails(p) ==
    /\ progress = "walk"
    /\ p \in todo
    /\ p \in TreeFiles => ~Ignores(p)
    /\ progress' = "failed"
    /\ UNCHANGED <<world, patterns, todo, files>>

(* The walk is over. A cookbook without files is an error.                 *)
Returns ==
    /\ progress = "walk"
    /\ todo = {}
    /\ progress' = IF files = {} THEN "failed" ELSE "done"
    /\ UNCHANGED <<world, patterns, todo, files>>

-----------------------------------------------------------------------------
(* Other processes (external).                                             *)

Changes == Cardinality(made) + Cardinality(removed)

MakeFile(f) ==
    /\ progress = "walk" /\ Changes < MaxChanges
    /\ f \notin tree
    /\ tree' = tree \cup {f}
    /\ made' = made \cup {f}
    /\ UNCHANGED <<client, readable, chefignore, removed>>

RemoveFile(f) ==
    /\ progress = "walk" /\ Changes < MaxChanges
    /\ f \in tree
    /\ tree' = tree \ {f}
    /\ removed' = removed \cup {f}
    /\ UNCHANGED <<client, readable, chefignore, made>>

-----------------------------------------------------------------------------
Walk == \/ LoadChefignore \/ Returns
        \/ \E p \in todo : VisitDir(p) \/ VisitFile(p) \/ VisitFails(p)

WalkOver == progress \in {"done", "failed"} /\ UNCHANGED walkVars

WalkNext ==
    \/ Walk
    \/ \E f \in TreeFiles : MakeFile(f) \/ RemoveFile(f)
    \/ WalkOver

WalkSpec == WalkInit /\ [][WalkNext]_walkVars

-----------------------------------------------------------------------------
(* Correctness.                                                            *)

(* What a chefignore excludes, said without the walk and the candidates: a *)
(* pattern matches the path or the name of the file or of a directory it   *)
(* lies in.                                                                *)
Excluded(f) ==
    \E line \in chefignore \ {Blank, Comment}, n \in 1..Len(f) :
        Match(line, SubSeq(f, 1, n)) \/ Match(line, <<f[n]>>)

Lasting == (tree \ made) \ removed

(* A cookbook holds every file that is not excluded and that was there all *)
(* the time: neither pruning nor what other processes do to other files    *)
(* loses one.                                                              *)
NothingIsLost ==
    progress = "done" => \A f \in Lasting : ~Excluded(f) => f \in files

(* It holds no excluded file.                                              *)
NothingExcluded == progress = "done" => \A f \in files : ~Excluded(f)

(* The walk, which prunes directories, and Ignores, asked about the files  *)
(* alone as archives and content identifiers do, agree on what belongs to  *)
(* the cookbook.                                                           *)
PruningAgrees ==
    progress = "done" => \A f \in Lasting : f \in files <=> ~Ignores(f)

-----------------------------------------------------------------------------
(* The inductive invariant: the patterns are those of the file, no file    *)
(* collected is ignored, and what is not ignored has been collected or is  *)
(* still ahead, itself or a directory above it.                            *)

PatternsInv ==
    /\ readable # "readable" => chefignore = {}
    /\ progress = "load" => todo = {} /\ files = {}
    /\ progress \in {"walk", "done"} =>
        patterns = chefignore \ {Blank, Comment}

CollectedInv == \A f \in files : ~Ignores(f)

(* The directories above f, from the cookbook's down, and f itself.        *)
Ahead(f) == \E n \in 0..Len(f) : SubSeq(f, 1, n) \in todo

AheadInv ==
    /\ progress = "walk" =>
        \A f \in Lasting : Ignores(f) \/ f \in files \/ Ahead(f)
    /\ progress = "done" =>
        \A f \in Lasting : Ignores(f) \/ f \in files

WalkInv == /\ WalkTypeOK /\ PatternsInv /\ CollectedInv /\ AheadInv

=============================================================================
