----------------------- MODULE CookbookDownloadProofs -----------------------
(***************************************************************************)
(* Proofs about Download, for any manifests, directories and any number of *)
(* downloads. The first half is about paths: that the test on filepath.Rel *)
(* refuses exactly the paths that lead out of the directory. The second is *)
(* the inductive invariant of the jobs and the files they share.           *)
(***************************************************************************)
EXTENDS CookbookDownload, SequenceTheorems, WellFoundedInduction, TLAPS

LEMMA LeastNat ==
    ASSUME NEW T \in SUBSET Nat, T # {}
    PROVE  \E x \in T : \A y \in T : x <= y
<1>1. PICK x \in T : \A y \in T : ~ (<<y, x>> \in OpToRel(<, Nat))
  BY WFMin, NatLessThanWellFounded
<1>2. \A y \in T : ~ (y < x)
  BY <1>1 DEF OpToRel
<1> QED
  BY <1>2

-----------------------------------------------------------------------------
(* filepath.Clean. The recursion of its definition is unfolded by the      *)
(* least number for which it would fail.                                   *)

Cleaning(path, n, g) ==
    g = [m \in 0..n |-> IF m = 0 THEN <<>> ELSE CleanElem(g[m - 1], path[m])]

LEMMA CleaningExists ==
    ASSUME NEW path, NEW n \in Nat PROVE \E g : Cleaning(path, n, g)
<1> DEFINE T == {m \in Nat : ~\E g : Cleaning(path, m, g)}
<1> SUFFICES ASSUME T # {} PROVE FALSE
  OBVIOUS
<1>1. PICK m \in T : \A y \in T : m <= y
  BY LeastNat
<1>2. CASE m = 0
  <2> DEFINE g == [k \in 0..0 |-> <<>>]
  <2>1. Cleaning(path, 0, g)
    BY DEF Cleaning
  <2> QED
    BY <1>1, <1>2, <2>1
<1>3. CASE m # 0
  <2>1. m - 1 \in Nat /\ m - 1 \notin T
    BY <1>1, <1>3
  <2>2. PICK g : Cleaning(path, m - 1, g)
    BY <2>1
  <2> DEFINE h == [k \in 0..m |-> IF k = m THEN CleanElem(g[m - 1], path[m])
                                  ELSE g[k]]
  <2>3. ASSUME NEW k \in 0..m
        PROVE  h[k] = IF k = 0 THEN <<>> ELSE CleanElem(h[k - 1], path[k])
    <3>1. CASE k = m
      BY <1>3, <2>1, <3>1
    <3>2. CASE k # m
      <4>1. k \in 0..(m - 1) /\ h[k] = g[k]
        BY <2>1, <3>2
      <4>2. k # 0 => k - 1 \in 0..(m - 1) /\ h[k - 1] = g[k - 1]
        BY <2>1, <4>1
      <4> HIDE DEF h
      <4> QED
        BY <2>2, <4>1, <4>2 DEF Cleaning
    <3> QED
      BY <3>1, <3>2
  <2>4. Cleaning(path, m, h)
    BY <2>3 DEF Cleaning
  <2> QED
    BY <1>1, <2>4
<1> QED
  BY <1>2, <1>3

LEMMA CleanDefined ==
    ASSUME NEW path, Len(path) \in Nat
    PROVE  \E g : Cleaning(path, Len(path), g) /\ Clean(path) = g[Len(path)]
<1> DEFINE n == Len(path)
           clean == CHOOSE g : g = [m \in 0..n |->
                        IF m = 0 THEN <<>> ELSE CleanElem(g[m - 1], path[m])]
<1>1. Clean(path) = clean[n]
  BY DEF Clean
<1>2. Cleaning(path, n, clean)
  BY CleaningExists DEF Cleaning
<1> QED
  BY <1>1, <1>2

Elems == {e \in STRING : e # "" /\ e # "." /\ e # ".."}

LEMMA CleanElemType ==
    ASSUME NEW done \in Seq(Elems), NEW elem \in STRING
    PROVE  CleanElem(done, elem) \in Seq(Elems)
<1>1. CASE elem \in {"", "."}
  BY <1>1 DEF CleanElem
<1>2. CASE elem = ".."
  <2>1. done # <<>> => Front(done) \in Seq(Elems)
    BY DEF Front
  <2> QED
    BY <1>2, <2>1 DEF CleanElem
<1>3. CASE elem \in Elems
  <2>1. Append(done, elem) \in Seq(Elems)
    BY <1>3, AppendProperties
  <2>2. elem # "" /\ elem # "." /\ elem # ".."
    BY <1>3 DEF Elems
  <2>3. CleanElem(done, elem) = Append(done, elem)
    BY <2>2 DEF CleanElem
  <2> QED
    BY <2>1, <2>3
<1> QED
  BY <1>1, <1>2, <1>3 DEF Elems

(* What comes out is a clean path: no element is empty, "." or "..".       *)
LEMMA CleanType ==
    ASSUME NEW path \in Seq(STRING) PROVE Clean(path) \in Seq(Elems)
<1>0. Len(path) \in Nat
  OBVIOUS
<1>1. PICK g : Cleaning(path, Len(path), g) /\ Clean(path) = g[Len(path)]
  BY <1>0, CleanDefined
<1> DEFINE T == {m \in 0..Len(path) : g[m] \notin Seq(Elems)}
<1>2. ASSUME T # {} PROVE FALSE
  <2>1. PICK m \in T : \A y \in T : m <= y
    <3>1. T \in SUBSET Nat
      OBVIOUS
    <3> QED
      BY <1>2, <3>1, LeastNat
  <2>2. CASE m = 0
    <3>1. g[m] = <<>>
      BY <1>0, <1>1, <2>2 DEF Cleaning
    <3> QED
      BY <2>1, <3>1, EmptySeq
  <2>3. CASE m # 0
    <3>1. m - 1 \in 0..Len(path) /\ m - 1 \notin T
      BY <1>0, <2>1, <2>3
    <3>2. g[m - 1] \in Seq(Elems) /\ path[m] \in STRING
      BY <2>1, <2>3, <3>1
    <3>3. g[m] = CleanElem(g[m - 1], path[m])
      BY <1>1, <2>1, <2>3 DEF Cleaning
    <3> QED
      BY <2>1, <3>2, <3>3, CleanElemType
  <2> QED
    BY <2>2, <2>3
<1> QED
  BY <1>0, <1>1, <1>2

LEMMA DestType ==
    ASSUME NEW d \in Downloads, NEW i \in Jobs(d)
    PROVE  /\ Dest(d, i) \in Seq(Elems) /\ Dest(d, i) \in Paths
           /\ DirOf[d] \in Seq(STRING)
<1>1. DirOf[d] \o Path(d, i) \in Seq(STRING)
  BY PathAssumption
<1>2. Dest(d, i) = Clean(DirOf[d] \o Path(d, i))
  BY DEF Dest, Dests
<1>3. Dest(d, i) \in Paths
  BY DEF Paths
<1> QED
  BY <1>1, <1>2, <1>3, PathAssumption, CleanType

-----------------------------------------------------------------------------
(* filepath.Rel.                                                           *)

(* Sequences have a longest common prefix, and it is a prefix of both.     *)
LEMMA LongestExists ==
    ASSUME NEW S, NEW p \in CommonPrefixes(S), NEW bound \in Nat,
           \A q \in CommonPrefixes(S) : Len(q) \in Nat /\ Len(q) <= bound
    PROVE  /\ LongestCommonPrefix(S) \in CommonPrefixes(S)
           /\ \A q \in CommonPrefixes(S) : Len(q) <= Len(LongestCommonPrefix(S))
<1> DEFINE T == {bound - Len(q) : q \in CommonPrefixes(S)}
<1>1. T \in SUBSET Nat /\ T # {}
  OBVIOUS
<1>2. PICK x \in T : \A y \in T : x <= y
  BY <1>1, LeastNat
<1>3. PICK q \in CommonPrefixes(S) : x = bound - Len(q)
  OBVIOUS
<1>4. ASSUME NEW r \in CommonPrefixes(S) PROVE Len(r) <= Len(q)
  <2>1. bound - Len(q) <= bound - Len(r)
    BY <1>2, <1>3
  <2> QED
    BY <2>1
<1> QED
  BY <1>4 DEF LongestCommonPrefix

LEMMA CommonPrefix ==
    ASSUME NEW U, NEW base \in Seq(U), NEW target \in Seq(U)
    PROVE  /\ Len(LongestCommonPrefix({base, target})) \in 0..Len(base)
           /\ Len(LongestCommonPrefix({base, target})) = Len(base)
                <=> IsPrefix(base, target)
<1> DEFINE S == {base, target}
           lcp == LongestCommonPrefix(S)
<1>1. ASSUME NEW q \in CommonPrefixes(S)
      PROVE  /\ Len(q) \in Nat /\ Len(q) <= Len(base)
             /\ q = SubSeq(base, 1, Len(q))
             /\ IsPrefix(q, base) /\ IsPrefix(q, target)
  <2>1. IsPrefix(q, base) /\ IsPrefix(q, target)
    BY DEF CommonPrefixes
  <2>2. PICK t \in S : \E l \in 0..Len(t) : q = SubSeq(t, 1, l)
    BY DEF CommonPrefixes, Prefixes
  <2>3. q \in Seq(U)
    BY <2>2
  <2>4. SubSeq(q, 1, Len(q)) = q
    BY <2>3
  <2> QED
    BY <2>1, <2>3, <2>4 DEF IsPrefix
<1>2. <<>> \in CommonPrefixes(S)
  <2>1. SubSeq(base, 1, 0) = <<>>
    OBVIOUS
  <2>2. <<>> \in Prefixes(base)
    BY <2>1 DEF Prefixes
  <2>3. ASSUME NEW t \in Seq(U) PROVE IsPrefix(<<>>, t)
    BY DEF IsPrefix
  <2> QED
    BY <2>2, <2>3 DEF CommonPrefixes
<1>3. /\ lcp \in CommonPrefixes(S)
      /\ \A q \in CommonPrefixes(S) : Len(q) <= Len(lcp)
  <2>1. Len(base) \in Nat
    OBVIOUS
  <2>2. \A q \in CommonPrefixes(S) : Len(q) \in Nat /\ Len(q) <= Len(base)
    BY <1>1
  <2> HIDE DEF S
  <2> QED
    BY <1>2, <2>1, <2>2, LongestExists
<1>4. ASSUME IsPrefix(base, target) PROVE base \in CommonPrefixes(S)
  <2>1. SubSeq(base, 1, Len(base)) = base
    OBVIOUS
  <2>2. base \in Prefixes(base)
    <3>1. Len(base) \in 0..Len(base)
      OBVIOUS
    <3> QED
      BY <2>1, <3>1 DEF Prefixes
  <2>3. IsPrefix(base, base)
    BY <2>1 DEF IsPrefix
  <2> QED
    BY <1>4, <2>2, <2>3 DEF CommonPrefixes
<1>5. ASSUME Len(lcp) = Len(base) PROVE IsPrefix(base, target)
  <2>1. lcp = base
    <3>1. lcp = SubSeq(base, 1, Len(lcp))
      BY <1>1, <1>3
    <3>2. SubSeq(base, 1, Len(base)) = base
      OBVIOUS
    <3> HIDE DEF lcp
    <3> QED
      BY <1>5, <3>1, <3>2
  <2> QED
    BY <1>1, <1>3, <2>1
<1>6. Len(lcp) \in 0..Len(base)
  <2>1. Len(lcp) \in Nat /\ Len(lcp) <= Len(base)
    BY <1>1, <1>3
  <2> HIDE DEF lcp
  <2> QED
    BY <2>1
<1>7. ASSUME IsPrefix(base, target) PROVE Len(lcp) = Len(base)
  <2>1. Len(base) <= Len(lcp)
    BY <1>3, <1>4, <1>7
  <2> HIDE DEF lcp
  <2> QED
    BY <1>6, <2>1
<1> QED
  BY <1>5, <1>6, <1>7

(* The test on filepath.Rel refuses a path exactly if it leads out of the  *)
(* directory: nothing dangerous passes, and nothing harmless is refused.   *)
THEOREM UnsafeIsOutside ==
    ASSUME NEW d \in Downloads, NEW i \in Jobs(d)
    PROVE  Unsafe(d, i) <=> ~IsPrefix(DirOf[d], Dest(d, i))
<1> DEFINE base == DirOf[d]
           target == Dest(d, i)
           common == Len(LongestCommonPrefix({base, target}))
           up == [k \in 1..(Len(base) - common) |-> ".."]
           down == SubSeq(target, common + 1, Len(target))
<1>1. base \in Seq(STRING) /\ target \in Seq(Elems) /\ target \in Seq(STRING)
  <2>1. Elems \subseteq STRING
    BY DEF Elems
  <2> QED
    BY <2>1, DestType, SeqMonotonic
<1>2. common \in 0..Len(base)
      /\ (common = Len(base) <=> IsPrefix(base, target))
  BY <1>1, CommonPrefix
<1>3. Rel(base, target) = up \o down
  BY DEF Rel
<1> HIDE DEF common
<1>4. up \in Seq({".."}) /\ Len(up) = Len(base) - common
  BY <1>1, <1>2
<1>5. down \in Seq(Elems)
  BY <1>1, <1>2
<1>6. CASE common = Len(base)
  <2>1. up \o down = down
    BY <1>1, <1>4, <1>5, <1>6
  <2>2. down # <<>> => Head(down) # ".."
    <3> HIDE DEF down
    <3>1. down # <<>> => Head(down) \in Elems
      BY <1>5
    <3>2. ".." \notin Elems
      BY DEF Elems
    <3> QED
      BY <3>1, <3>2
  <2> QED
    BY <1>2, <1>3, <1>6, <2>1, <2>2 DEF Unsafe
<1>7. CASE common # Len(base)
  <2>1. Len(up) > 0 /\ up[1] = ".."
    BY <1>1, <1>2, <1>4, <1>7
  <2>2. up \o down # <<>> /\ Head(up \o down) = ".."
    <3> HIDE DEF up, down
    <3> DEFINE both == up \o down
    <3> DEFINE Whatever == Elems \cup {".."}
    <3>1. up \in Seq(Whatever) /\ down \in Seq(Whatever)
      BY <1>4, <1>5, SeqMonotonic
    <3> HIDE DEF Whatever
    <3>2. both \in Seq(Whatever) /\ Len(both) = Len(up) + Len(down)
          /\ both[1] = up[1]
      BY <2>1, <3>1
    <3> HIDE DEF both
    <3>3. both # <<>> /\ Head(both) = both[1]
      BY <2>1, <3>1, <3>2
    <3> QED
      BY <2>1, <3>2, <3>3 DEF both
  <2> QED
    BY <1>2, <1>3, <1>7, <2>2 DEF Unsafe
<1> QED
  BY <1>6, <1>7

-----------------------------------------------------------------------------
(* The inductive invariant.                                                *)

LEMMA InitIInv ==
    Init => IInv
<1> SUFFICES ASSUME Init PROVE IInv
  OBVIOUS
<1>1. TypeOK
  BY DEF Init, TypeOK, JobStates, Dirs
<1>2. FilesInv
  BY DEF Init, FilesInv
<1>3. NilInv /\ SafeInv
  BY DEF Init, NilInv, SafeInv
<1> QED
  BY <1>1, <1>2, <1>3 DEF IInv

LEMMA StutterIInv ==
    ASSUME IInv, UNCHANGED vars PROVE IInv'
<1>1. TypeOK'
  BY DEF IInv, TypeOK, vars
<1>2. FilesInv'
  BY DEF IInv, FilesInv, Answered, Bounded, Opened, vars
<1>3. NilInv' /\ SafeInv'
  BY DEF IInv, NilInv, SafeInv, vars
<1> QED
  BY <1>1, <1>2, <1>3 DEF IInv

(* A job moves alone: of its download nothing else changes, and of the     *)
(* other downloads nothing at all.                                         *)
LEMMA OneJobMoves ==
    ASSUME TypeOK, NEW d \in Downloads, NEW i \in Jobs(d), NEW from,
           NEW to \in JobStates, Moves(d, i, from, to)
    PROVE  /\ pc[d] = "jobs" /\ pc' = pc /\ job[d][i] = from
           /\ DOMAIN job' = Downloads
           /\ \A e \in Downloads : job'[e] \in [Jobs(e) -> JobStates]
           /\ job'[d][i] = to
           /\ \A e \in Downloads : \A j \in Jobs(e) :
                 e # d \/ j # i => job'[e][j] = job[e][j]
<1>1. /\ pc[d] = "jobs" /\ pc' = pc /\ job[d][i] = from
      /\ job' = [job EXCEPT ![d][i] = to]
  BY DEF Moves
<1>2. /\ DOMAIN job = Downloads
      /\ \A e \in Downloads : job[e] \in [Jobs(e) -> JobStates]
  BY DEF TypeOK
<1>3. DOMAIN job' = Downloads
  BY <1>1, <1>2
<1>4. /\ job'[d] = [job[d] EXCEPT ![i] = to]
      /\ \A e \in Downloads : e # d => job'[e] = job[e]
  BY <1>1, <1>2
<1>5. job'[d] \in [Jobs(d) -> JobStates] /\ job'[d][i] = to
      /\ \A j \in Jobs(d) : j # i => job'[d][j] = job[d][j]
  BY <1>2, <1>4
<1> QED
  BY <1>1, <1>2, <1>3, <1>4, <1>5

(* What no move of a job disturbs: that a download which returned nil has  *)
(* no job that is not done, and that files are opened in safe places only. *)
LEMMA MoveKeepsNil ==
    ASSUME TypeOK, NilInv, NEW d \in Downloads, NEW i \in Jobs(d), NEW from,
           NEW to \in JobStates, Moves(d, i, from, to)
    PROVE  NilInv'
<1>1. pc[d] = "jobs" /\ pc' = pc
      /\ \A e \in Downloads : \A j \in Jobs(e) :
            e # d \/ j # i => job'[e][j] = job[e][j]
  BY OneJobMoves
<1>2. ASSUME NEW e \in Downloads, pc'[e] = "nil", NEW j \in Jobs(e)
      PROVE  job'[e][j] = "ok"
  BY <1>1, <1>2 DEF NilInv
<1> QED
  BY <1>2 DEF NilInv, Jobs

LEMMA MoveKeepsSafe ==
    ASSUME TypeOK, SafeInv, NEW d \in Downloads, NEW i \in Jobs(d), NEW from,
           NEW to \in JobStates, Moves(d, i, from, to),
           \A e \in Downloads : e # d => touched'[e] = touched[e]
    PROVE  SafeInv'
<1>1. pc[d] = "jobs" /\ pc' = pc
  BY DEF Moves
<1>2. ASSUME NEW e \in Downloads, pc'[e] = "jobs" \/ touched'[e] # {}
      PROVE  \A j \in Jobs(e) : ~Unsafe(e, j)
  BY <1>1, <1>2 DEF SafeInv
<1> QED
  BY <1>2 DEF SafeInv

(* A job that has not opened its file moves without opening it.            *)
LEMMA MoveKeepsFiles ==
    ASSUME TypeOK, FilesInv, NEW d \in Downloads, NEW i \in Jobs(d),
           NEW from \in {"todo", "fetched", "made"},
           NEW to \in JobStates \ {"open", "ok"}, Moves(d, i, from, to),
           UNCHANGED <<files, touched>>, dirs' \cap DOMAIN files = {}
    PROVE  FilesInv'
<1>1. /\ job[d][i] = from /\ job'[d][i] = to
      /\ \A e \in Downloads : \A j \in Jobs(e) :
            e # d \/ j # i => job'[e][j] = job[e][j]
  BY OneJobMoves
<1>2. ASSUME NEW e \in Downloads, NEW j \in Jobs(e),
             job'[e][j] \in {"open", "ok"}
      PROVE  Dest(e, j) \in DOMAIN files' /\ Dest(e, j) \in touched'[e]
  BY <1>1, <1>2 DEF FilesInv
<1>3. ASSUME NEW p \in DOMAIN files'
      PROVE  Answered(p)' /\ Bounded(p)'
  <2>1. Answered(p) /\ Bounded(p)
    BY <1>3 DEF FilesInv
  <2>2. PICK e \in Downloads : \E j \in Jobs(e) :
            /\ Opened(e, j, p)
            /\ \/ job[e][j] \in {"open", "fail"}
               \/ job[e][j] = "ok" /\ IsPrefix(Content(e, j), files[p])
    BY <2>1 DEF Answered
  <2>3. PICK j \in Jobs(e) :
            /\ Opened(e, j, p)
            /\ \/ job[e][j] \in {"open", "fail"}
               \/ job[e][j] = "ok" /\ IsPrefix(Content(e, j), files[p])
    BY <2>2
  <2>4. job'[e][j] = job[e][j] /\ Opened(e, j, p)'
    BY <1>1, <2>3 DEF Opened
  <2>5. Answered(p)'
    BY <2>3, <2>4 DEF Answered
  <2>6. Bounded(p)'
    BY <2>1 DEF Bounded, Opened
  <2> QED
    BY <2>5, <2>6
<1>4. (dirs \cap DOMAIN files = {})'
  OBVIOUS
<1> QED
  BY <1>2, <1>3, <1>4 DEF FilesInv

LEMMA MoveKeepsType ==
    ASSUME TypeOK, NEW d \in Downloads, NEW i \in Jobs(d), NEW from,
           NEW to \in JobStates, Moves(d, i, from, to),
           DOMAIN files' \subseteq Paths,
           \A p \in DOMAIN files' : files'[p] \in Seq(Bytes),
           dirs' \subseteq Dirs,
           touched' \in [Downloads -> SUBSET Paths]
    PROVE  TypeOK'
<1>1. /\ pc' = pc /\ DOMAIN job' = Downloads
      /\ \A e \in Downloads : job'[e] \in [Jobs(e) -> JobStates]
  BY OneJobMoves
<1> QED
  BY <1>1 DEF TypeOK

(* What is in a file after a write from offset 0: the data, and behind it  *)
(* what was there before.                                                  *)
LEMMA OverlayFacts ==
    ASSUME NEW data \in Seq(Bytes), NEW old \in Seq(Bytes)
    PROVE  /\ Overlay(data, old) \in Seq(Bytes)
           /\ IsPrefix(data, Overlay(data, old))
           /\ \/ Len(Overlay(data, old)) = Len(data)
              \/ Len(Overlay(data, old)) = Len(old)
<1> DEFINE rest == SubSeq(old, Len(data) + 1, Len(old))
           both == data \o rest
<1>1. rest \in Seq(Bytes)
      /\ Len(rest) = IF Len(data) < Len(old) THEN Len(old) - Len(data) ELSE 0
  OBVIOUS
<1> HIDE DEF rest
<1>2. /\ both \in Seq(Bytes) /\ Len(both) = Len(data) + Len(rest)
      /\ \A k \in 1..Len(data) : both[k] = data[k]
  BY <1>1
<1> HIDE DEF both
<1>3. SubSeq(data, 1, Len(data)) = SubSeq(both, 1, Len(data))
  BY <1>1, <1>2
<1>4. IsPrefix(data, both)
  BY <1>1, <1>2, <1>3 DEF IsPrefix
<1> QED
  BY <1>1, <1>2, <1>4 DEF Overlay, both, rest

(* A job that opened its file writes into it, all of its content or, if it *)
(* fails, less.                                                            *)
LEMMA WriteKeeps ==
    ASSUME TypeOK, FilesInv, NEW d \in Downloads, NEW i \in Jobs(d),
           NEW to \in {"ok", "fail"}, Moves(d, i, "open", to),
           NEW data \in Seq(Bytes), Len(data) <= Len(Content(d, i)),
           to = "ok" => data = Content(d, i),
           Writes(d, i, data), UNCHANGED <<dirs, touched>>
    PROVE  TypeOK' /\ FilesInv'
<1> DEFINE dest == Dest(d, i)
           new == Overlay(data, files[dest])
<1>1. to \in JobStates
  BY DEF JobStates
<1>2. /\ job[d][i] = "open" /\ job'[d][i] = to
      /\ \A e \in Downloads : \A j \in Jobs(e) :
            e # d \/ j # i => job'[e][j] = job[e][j]
  BY <1>1, OneJobMoves
<1>3. dest \in DOMAIN files /\ dest \in touched[d]
  BY <1>2 DEF FilesInv
<1>4. /\ new \in Seq(Bytes) /\ IsPrefix(data, new)
      /\ Len(new) = Len(data) \/ Len(new) = Len(files[dest])
  BY <1>3, OverlayFacts DEF TypeOK
<1>5. /\ DOMAIN files' = DOMAIN files /\ files'[dest] = new
      /\ \A p \in DOMAIN files : p # dest => files'[p] = files[p]
  BY <1>3 DEF Writes, Put
<1>6. Dest(d, i) = dest
  OBVIOUS
<1>7. TypeOK'
  <2>1. /\ DOMAIN files' \subseteq Paths /\ dirs' \subseteq Dirs
        /\ touched' \in [Downloads -> SUBSET Paths]
    BY <1>5 DEF TypeOK
  <2>2. ASSUME NEW p \in DOMAIN files' PROVE files'[p] \in Seq(Bytes)
    BY <1>4, <1>5 DEF TypeOK
  <2> QED
    BY <1>1, <2>1, <2>2, MoveKeepsType
<1> HIDE DEF dest, new
<1>8. ASSUME NEW e \in Downloads, NEW j \in Jobs(e), NEW p
      PROVE  Opened(e, j, p)' <=> Opened(e, j, p)
  BY DEF Opened
<1>9. ASSUME NEW e \in Downloads, NEW j \in Jobs(e),
             job'[e][j] \in {"open", "ok"}
      PROVE  Dest(e, j) \in DOMAIN files' /\ Dest(e, j) \in touched'[e]
  <2>1. job[e][j] \in {"open", "ok"}
    BY <1>2, <1>9
  <2> QED
    BY <1>5, <2>1 DEF FilesInv
<1>10. ASSUME NEW p \in DOMAIN files' PROVE Answered(p)'
  <2>1. CASE p = dest
    <3>1. Opened(d, i, p)'
      BY <1>3, <1>6, <2>1 DEF Opened
    <3>2. to = "ok" => IsPrefix(Content(d, i), files'[p])
      BY <1>4, <1>5, <2>1
    <3> QED
      BY <1>2, <3>1, <3>2 DEF Answered
  <2>2. CASE p # dest
    <3>1. p \in DOMAIN files /\ files'[p] = files[p]
      BY <1>5, <2>2
    <3>2. PICK e \in Downloads : \E j \in Jobs(e) :
              /\ Opened(e, j, p)
              /\ \/ job[e][j] \in {"open", "fail"}
                 \/ job[e][j] = "ok" /\ IsPrefix(Content(e, j), files[p])
      BY <3>1 DEF FilesInv, Answered
    <3>3. PICK j \in Jobs(e) :
              /\ Opened(e, j, p)
              /\ \/ job[e][j] \in {"open", "fail"}
                 \/ job[e][j] = "ok" /\ IsPrefix(Content(e, j), files[p])
      BY <3>2
    <3>4. e # d \/ j # i
      BY <1>6, <2>2, <3>3 DEF Opened
    <3>5. job'[e][j] = job[e][j] /\ Opened(e, j, p)'
      BY <1>2, <1>8, <3>3, <3>4
    <3> QED
      BY <3>1, <3>3, <3>5 DEF Answered
  <2> QED
    BY <2>1, <2>2
<1>11. ASSUME NEW p \in DOMAIN files' PROVE Bounded(p)'
  <2>1. p \in DOMAIN files /\ Bounded(p)
    BY <1>5 DEF FilesInv
  <2>2. PICK e \in Downloads : \E j \in Jobs(e) :
            Opened(e, j, p) /\ Len(files[p]) <= Len(Content(e, j))
    BY <2>1 DEF Bounded
  <2>3. PICK j \in Jobs(e) :
            Opened(e, j, p) /\ Len(files[p]) <= Len(Content(e, j))
    BY <2>2
  <2>4. CASE p # dest \/ Len(new) = Len(files[dest])
    <3>1. Len(files'[p]) = Len(files[p])
      BY <1>5, <2>1, <2>4
    <3> QED
      BY <1>8, <2>3, <3>1 DEF Bounded
  <2>5. CASE p = dest /\ Len(new) = Len(data)
    <3>1. Opened(d, i, p)' /\ Len(files'[p]) <= Len(Content(d, i))
      BY <1>3, <1>5, <1>6, <2>5 DEF Opened
    <3> QED
      BY <3>1 DEF Bounded
  <2> QED
    BY <1>4, <2>4, <2>5
<1>12. (dirs \cap DOMAIN files = {})'
  BY <1>5 DEF FilesInv
<1>13. FilesInv'
  BY <1>9, <1>10, <1>11, <1>12 DEF FilesInv
<1> QED
  BY <1>7, <1>13

(* The jobs' actions.                                                      *)

LEMMA FetchIInv ==
    ASSUME IInv, NEW d \in Downloads, NEW i \in Jobs(d), Fetch(d, i)
    PROVE  IInv'
<1>1. Moves(d, i, "todo", "fetched") /\ UNCHANGED <<files, dirs, touched>>
  BY DEF Fetch
<1>2. TypeOK /\ FilesInv /\ NilInv /\ SafeInv
  BY DEF IInv
<1>3. "fetched" \in JobStates /\ "fetched" \in JobStates \ {"open", "ok"}
  BY DEF JobStates
<1>4. TypeOK'
  BY <1>1, <1>2, <1>3, MoveKeepsType DEF TypeOK
<1>5. FilesInv'
  <2>1. dirs' \cap DOMAIN files = {}
    BY <1>1, <1>2 DEF FilesInv
  <2> QED
    BY <1>1, <1>2, <1>3, <2>1, MoveKeepsFiles
<1>6. NilInv' /\ SafeInv'
  BY <1>1, <1>2, <1>3, MoveKeepsNil, MoveKeepsSafe
<1> QED
  BY <1>4, <1>5, <1>6 DEF IInv

LEMMA MkdirAllIInv ==
    ASSUME IInv, NEW d \in Downloads, NEW i \in Jobs(d), MkdirAll(d, i)
    PROVE  IInv'
<1> DEFINE above == Parents[Dest(d, i)]
<1>1. /\ Moves(d, i, "fetched", "made") /\ UNCHANGED <<files, touched>>
      /\ above \cap DOMAIN files = {} /\ dirs' = dirs \cup above
  BY DEF MkdirAll
<1>2. TypeOK /\ FilesInv /\ NilInv /\ SafeInv
  BY DEF IInv
<1>3. "made" \in JobStates /\ "made" \in JobStates \ {"open", "ok"}
  BY DEF JobStates
<1>4. TypeOK'
  <2>1. above \subseteq Dirs
    <3> DEFINE dest == Dest(d, i)
    <3>1. dest \in Paths
      BY DestType
    <3> HIDE DEF dest
    <3>2. ASSUME NEW q \in Parents[dest] PROVE q \in Dirs
      <4>1. Parents[dest] \in {Parents[p] : p \in Paths}
        BY <3>1
      <4>2. q \in UNION {Parents[p] : p \in Paths}
        BY <3>2, <4>1
      <4> QED
        BY <4>2 DEF Dirs
    <3> QED
      BY <3>2 DEF dest
  <2>2. dirs' \subseteq Dirs
    BY <1>1, <1>2, <2>1 DEF TypeOK
  <2> QED
    BY <1>1, <1>2, <1>3, <2>2, MoveKeepsType DEF TypeOK
<1>5. FilesInv'
  <2>1. dirs' \cap DOMAIN files = {}
    BY <1>1, <1>2 DEF FilesInv
  <2> QED
    BY <1>1, <1>2, <1>3, <2>1, MoveKeepsFiles
<1>6. NilInv' /\ SafeInv'
  BY <1>1, <1>2, <1>3, MoveKeepsNil, MoveKeepsSafe
<1> QED
  BY <1>4, <1>5, <1>6 DEF IInv

LEMMA JobFailsIInv ==
    ASSUME IInv, NEW d \in Downloads, NEW i \in Jobs(d), JobFails(d, i)
    PROVE  IInv'
<1>1. TypeOK /\ FilesInv /\ NilInv /\ SafeInv
  BY DEF IInv
<1>2. "fail" \in JobStates /\ "fail" \in JobStates \ {"open", "ok"}
  BY DEF JobStates
<1>3. UNCHANGED <<dirs, touched>> /\ \E from : Moves(d, i, from, "fail")
  BY DEF JobFails
<1>4. NilInv' /\ SafeInv'
  BY <1>1, <1>2, <1>3, MoveKeepsNil, MoveKeepsSafe
<1>5. CASE /\ \E from \in {"todo", "fetched", "made"} : Moves(d, i, from, "fail")
           /\ UNCHANGED files
  <2>1. PICK from \in {"todo", "fetched", "made"} : Moves(d, i, from, "fail")
    BY <1>5
  <2>2. TypeOK'
    BY <1>1, <1>2, <1>3, <1>5, <2>1, MoveKeepsType DEF TypeOK
  <2>3. dirs' \cap DOMAIN files = {}
    BY <1>1, <1>3 DEF FilesInv
  <2>4. FilesInv'
    BY <1>1, <1>2, <1>3, <1>5, <2>1, <2>3, MoveKeepsFiles
  <2> QED
    BY <1>4, <2>2, <2>4 DEF IInv
<1>6. CASE /\ Moves(d, i, "open", "fail")
           /\ \E data \in Prefixes(Content(d, i)) : Writes(d, i, data)
  <2>1. PICK data \in Prefixes(Content(d, i)) : Writes(d, i, data)
    BY <1>6
  <2>2. data \in Seq(Bytes) /\ Len(data) <= Len(Content(d, i))
    <3>1. Content(d, i) \in Seq(Bytes)
      BY ContentAssumption
    <3>2. PICK l \in 0..Len(Content(d, i)) : data = SubSeq(Content(d, i), 1, l)
      BY DEF Prefixes
    <3> QED
      BY <3>1, <3>2
  <2>3. TypeOK' /\ FilesInv'
    BY <1>1, <1>3, <1>6, <2>1, <2>2, WriteKeeps
  <2> QED
    BY <1>4, <2>3 DEF IInv
<1> QED
  BY <1>5, <1>6 DEF JobFails

(* The file is truncated, by a job that is about to write it.              *)
LEMMA OpenFileIInv ==
    ASSUME IInv, NEW d \in Downloads, NEW i \in Jobs(d), OpenFile(d, i)
    PROVE  IInv'
<1> DEFINE dest == Dest(d, i)
<1>1. /\ Moves(d, i, "made", "open") /\ dest \notin dirs /\ dirs' = dirs
      /\ files' = Put(dest, <<>>)
      /\ touched' = [touched EXCEPT ![d] = @ \cup {dest}]
  BY DEF OpenFile
<1>2. TypeOK /\ FilesInv /\ NilInv /\ SafeInv
  BY DEF IInv
<1>3. "open" \in JobStates
  BY DEF JobStates
<1>4. /\ DOMAIN files' = DOMAIN files \cup {dest} /\ files'[dest] = <<>>
      /\ \A p \in DOMAIN files : p # dest => files'[p] = files[p]
  BY <1>1 DEF Put
<1>5. dest \in Paths /\ Content(d, i) \in Seq(Bytes)
  BY DestType, ContentAssumption
<1>6. /\ touched' \in [Downloads -> SUBSET Paths] /\ dest \in touched'[d]
      /\ \A e \in Downloads : touched[e] \subseteq touched'[e]
      /\ \A e \in Downloads : e # d => touched'[e] = touched[e]
  BY <1>1, <1>2, <1>5 DEF TypeOK
<1>7. /\ job[d][i] = "made" /\ job'[d][i] = "open"
      /\ \A e \in Downloads : \A j \in Jobs(e) :
            e # d \/ j # i => job'[e][j] = job[e][j]
  BY <1>1, <1>2, <1>3, OneJobMoves
<1>8. Opened(d, i, dest)'
  BY <1>6 DEF Opened
<1>9. dest = Dest(d, i)
  OBVIOUS
<1> HIDE DEF dest
<1>10. ASSUME NEW e \in Downloads, NEW j \in Jobs(e), NEW p, Opened(e, j, p)
       PROVE  Opened(e, j, p)'
  BY <1>6, <1>10 DEF Opened
<1>11. TypeOK'
  <2>1. DOMAIN files' \subseteq Paths /\ dirs' \subseteq Dirs
    BY <1>1, <1>2, <1>4, <1>5 DEF TypeOK
  <2>2. ASSUME NEW p \in DOMAIN files' PROVE files'[p] \in Seq(Bytes)
    <3>1. <<>> \in Seq(Bytes)
      OBVIOUS
    <3> QED
      BY <1>2, <1>4, <3>1 DEF TypeOK
  <2> QED
    BY <1>1, <1>2, <1>3, <1>6, <2>1, <2>2, MoveKeepsType
<1>12. FilesInv'
  <2>1. ASSUME NEW e \in Downloads, NEW j \in Jobs(e),
               job'[e][j] \in {"open", "ok"}
        PROVE  Dest(e, j) \in DOMAIN files' /\ Dest(e, j) \in touched'[e]
    <3>1. CASE e = d /\ j = i
      BY <1>4, <1>6, <1>9, <3>1
    <3>2. CASE e # d \/ j # i
      <4>1. job[e][j] \in {"open", "ok"}
        BY <1>7, <2>1, <3>2
      <4> QED
        BY <1>2, <1>4, <1>6, <4>1 DEF FilesInv
    <3> QED
      BY <3>1, <3>2
  <2>2. ASSUME NEW p \in DOMAIN files' PROVE Answered(p)' /\ Bounded(p)'
    <3>1. CASE p = dest
      <4>1. Len(files'[p]) <= Len(Content(d, i))
        BY <1>4, <1>5, <3>1
      <4> QED
        BY <1>7, <1>8, <3>1, <4>1 DEF Answered, Bounded
    <3>2. CASE p # dest
      <4>1. files'[p] = files[p] /\ Answered(p) /\ Bounded(p)
        BY <1>2, <1>4, <3>2 DEF FilesInv
      <4>2. PICK e \in Downloads : \E j \in Jobs(e) :
                /\ Opened(e, j, p)
                /\ \/ job[e][j] \in {"open", "fail"}
                   \/ job[e][j] = "ok" /\ IsPrefix(Content(e, j), files[p])
        BY <4>1 DEF Answered
      <4>3. PICK j \in Jobs(e) :
                /\ Opened(e, j, p)
                /\ \/ job[e][j] \in {"open", "fail"}
                   \/ job[e][j] = "ok" /\ IsPrefix(Content(e, j), files[p])
        BY <4>2
      <4>4. job'[e][j] = job[e][j] /\ Opened(e, j, p)'
        BY <1>7, <1>10, <4>3
      <4>5. Answered(p)'
        BY <4>1, <4>3, <4>4 DEF Answered
      <4>6. Bounded(p)'
        BY <1>10, <4>1 DEF Bounded
      <4> QED
        BY <4>5, <4>6
    <3> QED
      BY <3>1, <3>2
  <2>3. (dirs \cap DOMAIN files = {})'
    BY <1>1, <1>2, <1>4 DEF FilesInv
  <2> QED
    BY <2>1, <2>2, <2>3 DEF FilesInv
<1>13. NilInv' /\ SafeInv'
  BY <1>1, <1>2, <1>3, <1>6, MoveKeepsNil, MoveKeepsSafe
<1> QED
  BY <1>11, <1>12, <1>13 DEF IInv

(* The file is written: it begins with the whole content of this job.      *)
LEMMA WriteFileIInv ==
    ASSUME IInv, NEW d \in Downloads, NEW i \in Jobs(d), WriteFile(d, i)
    PROVE  IInv'
<1>1. /\ Moves(d, i, "open", "ok") /\ UNCHANGED <<dirs, touched>>
      /\ Writes(d, i, Content(d, i))
  BY DEF WriteFile
<1>2. TypeOK /\ FilesInv /\ NilInv /\ SafeInv
  BY DEF IInv
<1>3. "ok" \in JobStates
  BY DEF JobStates
<1>4. Content(d, i) \in Seq(Bytes) /\ Len(Content(d, i)) <= Len(Content(d, i))
  BY ContentAssumption
<1>5. TypeOK' /\ FilesInv'
  BY <1>1, <1>2, <1>4, WriteKeeps
<1>6. NilInv' /\ SafeInv'
  BY <1>1, <1>2, <1>3, MoveKeepsNil, MoveKeepsSafe
<1> QED
  BY <1>5, <1>6 DEF IInv

(* The caller's actions.                                                   *)

LEMMA GetIInv ==
    ASSUME IInv, NEW d \in Downloads, Get(d) PROVE IInv'
<1>1. /\ pc[d] = "get" /\ UNCHANGED <<job, files, dirs, touched>>
      /\ \/ pc' = [pc EXCEPT ![d] = "err"]
         \/ /\ \A i \in Jobs(d) : ~Unsafe(d, i)
            /\ pc' = [pc EXCEPT ![d] = "jobs"]
  BY DEF Get
<1>2. TypeOK /\ FilesInv /\ NilInv /\ SafeInv
  BY DEF IInv
<1>3. /\ pc' \in [Downloads -> {"get", "jobs", "nil", "err"}]
      /\ \A e \in Downloads : e # d => pc'[e] = pc[e]
      /\ pc'[d] = "err" \/ pc'[d] = "jobs"
      /\ pc'[d] = "jobs" => \A i \in Jobs(d) : ~Unsafe(d, i)
  BY <1>1, <1>2 DEF TypeOK
<1>4. TypeOK'
  BY <1>1, <1>2, <1>3 DEF TypeOK
<1>5. FilesInv'
  BY <1>1, <1>2 DEF FilesInv, Answered, Bounded, Opened
<1>6. NilInv'
  <2>1. ASSUME NEW e \in Downloads, pc'[e] = "nil"
        PROVE  \A i \in Jobs(e) : job'[e][i] = "ok"
    BY <1>1, <1>2, <1>3, <2>1 DEF NilInv
  <2> QED
    BY <2>1 DEF NilInv
<1>7. SafeInv'
  <2>1. ASSUME NEW e \in Downloads, pc'[e] = "jobs" \/ touched'[e] # {}
        PROVE  \A i \in Jobs(e) : ~Unsafe(e, i)
    BY <1>1, <1>2, <1>3, <2>1 DEF SafeInv
  <2> QED
    BY <2>1 DEF SafeInv
<1> QED
  BY <1>4, <1>5, <1>6, <1>7 DEF IInv

LEMMA ReturnIInv ==
    ASSUME IInv, NEW d \in Downloads, Return(d) PROVE IInv'
<1>1. /\ pc[d] = "jobs" /\ UNCHANGED <<job, files, dirs, touched>>
      /\ \/ /\ \A i \in Jobs(d) : job[d][i] = "ok"
            /\ pc' = [pc EXCEPT ![d] = "nil"]
         \/ pc' = [pc EXCEPT ![d] = "err"]
  BY DEF Return
<1>2. TypeOK /\ FilesInv /\ NilInv /\ SafeInv
  BY DEF IInv
<1>3. /\ pc' \in [Downloads -> {"get", "jobs", "nil", "err"}]
      /\ \A e \in Downloads : e # d => pc'[e] = pc[e]
      /\ pc'[d] = "nil" \/ pc'[d] = "err"
      /\ pc'[d] = "nil" => \A i \in Jobs(d) : job[d][i] = "ok"
  BY <1>1, <1>2 DEF TypeOK
<1>4. TypeOK'
  BY <1>1, <1>2, <1>3 DEF TypeOK
<1>5. FilesInv'
  BY <1>1, <1>2 DEF FilesInv, Answered, Bounded, Opened
<1>6. NilInv'
  <2>1. ASSUME NEW e \in Downloads, pc'[e] = "nil"
        PROVE  \A i \in Jobs(e) : job'[e][i] = "ok"
    BY <1>1, <1>2, <1>3, <2>1 DEF NilInv
  <2> QED
    BY <2>1 DEF NilInv
<1>7. SafeInv'
  <2>1. ASSUME NEW e \in Downloads, pc'[e] = "jobs" \/ touched'[e] # {}
        PROVE  \A i \in Jobs(e) : ~Unsafe(e, i)
    BY <1>1, <1>2, <1>3, <2>1 DEF SafeInv
  <2> QED
    BY <2>1 DEF SafeInv
<1> QED
  BY <1>4, <1>5, <1>6, <1>7 DEF IInv

LEMMA NextIInv ==
    IInv /\ [Next]_vars => IInv'
<1> SUFFICES ASSUME IInv, [Next]_vars PROVE IInv'
  OBVIOUS
<1>1. ASSUME NEW d \in Downloads, Step(d) PROVE IInv'
  <2>1. CASE Get(d)
    BY <2>1, GetIInv
  <2>2. CASE Return(d)
    BY <2>2, ReturnIInv
  <2>3. ASSUME NEW i \in Jobs(d), Fetch(d, i) PROVE IInv'
    BY <2>3, FetchIInv
  <2>4. ASSUME NEW i \in Jobs(d), MkdirAll(d, i) PROVE IInv'
    BY <2>4, MkdirAllIInv
  <2>5. ASSUME NEW i \in Jobs(d), OpenFile(d, i) PROVE IInv'
    BY <2>5, OpenFileIInv
  <2>6. ASSUME NEW i \in Jobs(d), WriteFile(d, i) PROVE IInv'
    BY <2>6, WriteFileIInv
  <2>7. ASSUME NEW i \in Jobs(d), JobFails(d, i) PROVE IInv'
    BY <2>7, JobFailsIInv
  <2> QED
    BY <1>1, <2>1, <2>2, <2>3, <2>4, <2>5, <2>6, <2>7 DEF Step
<1>2. CASE UNCHANGED vars
  BY <1>2, StutterIInv
<1> QED
  BY <1>1, <1>2 DEF Next, Terminated

(* However the jobs of any number of downloads interleave, a file has a    *)
(* job that opened it and is not done with it, or it begins with the whole *)
(* content of a job that is done; it is no longer than what one of its     *)
(* jobs writes; no file is in the place of a directory; and only a         *)
(* manifest with nothing but safe paths gets as far as its files.          *)
THEOREM Invariance == Spec => []IInv
<1>1. Init => IInv
  BY InitIInv
<1>2. IInv /\ [Next]_vars => IInv'
  BY NextIInv
<1> QED
  BY <1>1, <1>2, PTL DEF Spec

(* Every variable of Download has its type in every reachable state.       *)
THEOREM TypeCorrect == Spec => []TypeOK
<1>1. IInv => TypeOK
  BY DEF IInv
<1> QED
  BY <1>1, Invariance, PTL

(* One path of the manifest that leads out of the directory, and Download  *)
(* opens none of its files: the check of all paths comes before the first  *)
(* write, and it refuses every path that leads out.                        *)
THEOREM OneBadPathOpensNothing == Spec => []AllOrNothingChecked
<1>1. IInv => AllOrNothingChecked
  <2> SUFFICES ASSUME IInv, NEW d \in Downloads, NEW i \in Jobs(d),
                      ~IsPrefix(DirOf[d], Dest(d, i))
               PROVE  touched[d] = {}
    BY DEF AllOrNothingChecked
  <2>1. Unsafe(d, i)
    BY UnsafeIsOutside
  <2> QED
    BY <2>1 DEF IInv, SafeInv
<1> QED
  BY <1>1, Invariance, PTL

(* When Download returns nil every file of the manifest is there and       *)
(* begins with the whole content of one of the jobs that opened it, also   *)
(* where two files of one manifest, or of two downloads that both returned *)
(* nil, have the same path and were written at once. It is that content    *)
(* exactly, unless another of these jobs had a longer one.                 *)
THEOREM NilIsWhole == Spec => []NilMeansWhole
<1>1. IInv => NilMeansWhole
  <2> SUFFICES ASSUME IInv, NEW d \in Downloads, NEW i \in Jobs(d), NEW p,
                      p = Dest(d, i), pc[d] = "nil",
                      \A e \in Downloads : p \in touched[e] => pc[e] = "nil"
               PROVE  /\ p \in DOMAIN files
                      /\ \E e \in Downloads : \E j \in Jobs(e) :
                            /\ Opened(e, j, p) /\ IsPrefix(Content(e, j), files[p])
                            /\ \/ files[p] = Content(e, j)
                               \/ \E f \in Downloads : \E k \in Jobs(f) :
                                     /\ Opened(f, k, p)
                                     /\ Len(Content(f, k)) > Len(Content(e, j))
    BY DEF NilMeansWhole
  <2>1. TypeOK /\ FilesInv /\ NilInv
    BY DEF IInv
  <2>2. p \in DOMAIN files /\ files[p] \in Seq(Bytes)
    BY <2>1 DEF FilesInv, NilInv, TypeOK
  <2>3. PICK e \in Downloads : \E j \in Jobs(e) :
            /\ Opened(e, j, p)
            /\ \/ job[e][j] \in {"open", "fail"}
               \/ job[e][j] = "ok" /\ IsPrefix(Content(e, j), files[p])
    BY <2>1, <2>2 DEF FilesInv, Answered
  <2>4. PICK j \in Jobs(e) :
            /\ Opened(e, j, p)
            /\ \/ job[e][j] \in {"open", "fail"}
               \/ job[e][j] = "ok" /\ IsPrefix(Content(e, j), files[p])
    BY <2>3
  <2>5. job[e][j] = "ok"
    BY <2>1, <2>4 DEF NilInv, Opened
  <2>6. PICK f \in Downloads : \E k \in Jobs(f) :
            Opened(f, k, p) /\ Len(files[p]) <= Len(Content(f, k))
    BY <2>1, <2>2 DEF FilesInv, Bounded
  <2>7. PICK k \in Jobs(f) :
            Opened(f, k, p) /\ Len(files[p]) <= Len(Content(f, k))
    BY <2>6
  <2>8. Content(e, j) \in Seq(Bytes) /\ Content(f, k) \in Seq(Bytes)
    BY ContentAssumption
  <2> DEFINE content == Content(e, j)
  <2>9. Len(content) <= Len(files[p])
        /\ SubSeq(content, 1, Len(content)) = SubSeq(files[p], 1, Len(content))
    BY <2>4, <2>5 DEF IsPrefix
  <2>10. CASE Len(content) = Len(files[p])
    <3>1. SubSeq(content, 1, Len(content)) = content
      BY <2>8
    <3>2. SubSeq(files[p], 1, Len(files[p])) = files[p]
      BY <2>2
    <3>3. files[p] = content
      BY <2>9, <2>10, <3>1, <3>2
    <3> QED
      BY <2>2, <2>4, <2>5, <3>3
  <2>11. CASE Len(content) # Len(files[p])
    <3>1. Len(Content(f, k)) > Len(Content(e, j))
      BY <2>2, <2>7, <2>8, <2>9, <2>11
    <3> QED
      BY <2>2, <2>4, <2>5, <2>7, <3>1
  <2> QED
    BY <2>10, <2>11
<1> QED
  BY <1>1, Invariance, PTL

Inside ==
    \A d \in Downloads : \A p \in touched[d] : IsPrefix(DirOf[d], p)

(* No download ever opens a file outside its own directory, whatever the   *)
(* paths of its manifest are.                                              *)
THEOREM NothingOutside == Spec => []Inside
<1>1. Init => Inside
  BY DEF Init, Inside
<1>2. IInv /\ Inside /\ [Next]_vars => Inside'
  <2> SUFFICES ASSUME IInv, Inside, [Next]_vars PROVE Inside'
    OBVIOUS
  <2>1. CASE UNCHANGED touched
    BY <2>1 DEF Inside
  <2>2. ASSUME NEW d \in Downloads, NEW i \in Jobs(d), OpenFile(d, i)
        PROVE  Inside'
    <3>1. /\ pc[d] = "jobs"
          /\ touched' = [touched EXCEPT ![d] = @ \cup {Dest(d, i)}]
      BY <2>2 DEF OpenFile, Moves
    <3>2. IsPrefix(DirOf[d], Dest(d, i))
      BY <3>1, UnsafeIsOutside DEF IInv, SafeInv
    <3>3. touched \in [Downloads -> SUBSET Paths]
      BY DEF IInv, TypeOK
    <3>4. ASSUME NEW e \in Downloads, NEW p \in touched'[e]
          PROVE  IsPrefix(DirOf[e], p)
      <4>1. p \in touched[e] \/ (e = d /\ p = Dest(d, i))
        BY <3>1, <3>3
      <4> QED
        BY <3>2, <4>1 DEF Inside
    <3> QED
      BY <3>4 DEF Inside
  <2> QED
    BY <2>1, <2>2 DEF Next, Step, Terminated, Get, Return, Fetch, MkdirAll,
                      WriteFile, JobFails, vars
<1> QED
  BY <1>1, <1>2, Invariance, PTL DEF Spec

=============================================================================
