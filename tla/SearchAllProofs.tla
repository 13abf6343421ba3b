--------------------------- MODULE SearchAllProofs ---------------------------
(***************************************************************************)
(* Proofs about SearchAll for every index, every page size and start, and  *)
(* any number of changes: what the changes of the index can do to the      *)
(* result, and what they cannot.                                           *)
(*                                                                         *)
(* The second part is about NodeEdit, where the nodes a search finds are   *)
(* edited, for any nodes, any editors, any edits and any names: the loops  *)
(* over lists and paths first, then what each edit, the way to the server  *)
(* and a lookup do, then the steps. The two share no state.                *)
(***************************************************************************)
EXTENDS SearchAll, NodeEdit, WellFoundedInduction, TLAPS

-----------------------------------------------------------------------------
(* What the library's operators on sequences yield, element by element.    *)

LEMMA PlusZero ==
    ASSUME NEW x \in Nat, NEW z, z = x, NEW y, y = 0
    PROVE  z = x + y
  OBVIOUS

LEMMA ConcatFacts ==
    ASSUME NEW S, NEW s \in Seq(S), NEW t \in Seq(S)
    PROVE  /\ s \o t \in Seq(S)
           /\ Len(s \o t) = Len(s) + Len(t)
           /\ \A j \in 1..(Len(s) + Len(t)) :
                (s \o t)[j] = IF j <= Len(s) THEN s[j] ELSE t[j - Len(s)]
  OBVIOUS

LEMMA InsertAtFacts ==
    ASSUME NEW S, NEW s \in Seq(S), NEW e \in S, NEW i \in 1..(Len(s) + 1)
    PROVE  /\ InsertAt(s, i, e) \in Seq(S)
           /\ Len(InsertAt(s, i, e)) = Len(s) + 1
           /\ InsertAt(s, i, e)[i] = e
           /\ \A j \in 1..(i - 1) : InsertAt(s, i, e)[j] = s[j]
           /\ \A j \in (i + 1)..(Len(s) + 1) : InsertAt(s, i, e)[j] = s[j - 1]
  <1> DEFINE a == SubSeq(s, 1, i - 1)
             b == SubSeq(s, i, Len(s))
  <1>1. /\ a \in Seq(S) /\ Len(a) = i - 1
        /\ \A j \in 1..(i - 1) : a[j] = s[j]
    OBVIOUS
  <1>2. /\ b \in Seq(S) /\ Len(b) = Len(s) + 1 - i
        /\ \A j \in 1..(Len(s) + 1 - i) : b[j] = s[i - 1 + j]
    OBVIOUS
  <1>3. InsertAt(s, i, e) = (a \o <<e>>) \o b
    BY DEF InsertAt
  <1> HIDE DEF a, b
  <1>4. /\ a \o <<e>> \in Seq(S) /\ Len(a \o <<e>>) = i
        /\ \A j \in 1..i : (a \o <<e>>)[j] = IF j < i THEN s[j] ELSE e
    BY <1>1
  <1> DEFINE c == a \o <<e>>
  <1>5. c \in Seq(S) /\ Len(c) = i
        /\ \A j \in 1..i : c[j] = IF j < i THEN s[j] ELSE e
    BY <1>4
  <1> HIDE DEF c
  <1>6. /\ c \o b \in Seq(S) /\ Len(c \o b) = Len(s) + 1
        /\ \A j \in 1..(Len(s) + 1) :
            (c \o b)[j] = IF j <= i THEN c[j] ELSE b[j - i]
    <2>1. /\ c \o b \in Seq(S) /\ Len(c \o b) = Len(c) + Len(b)
          /\ \A j \in 1..(Len(c) + Len(b)) :
                (c \o b)[j] = IF j <= Len(c) THEN c[j] ELSE b[j - Len(c)]
      BY <1>2, <1>5, ConcatFacts
    <2>2. Len(c) + Len(b) = Len(s) + 1
      BY <1>2, <1>5
    <2> QED BY <2>1, <2>2, <1>5
  <1>7. \A j \in 1..(Len(s) + 1) :
            (c \o b)[j] = IF j < i THEN s[j]
                          ELSE IF j = i THEN e ELSE s[j - 1]
    BY <1>2, <1>5, <1>6
  <1> DEFINE r == InsertAt(s, i, e)
  <1>8. /\ r \in Seq(S) /\ Len(r) = Len(s) + 1
        /\ \A j \in 1..(Len(s) + 1) :
            r[j] = IF j < i THEN s[j] ELSE IF j = i THEN e ELSE s[j - 1]
    BY <1>3, <1>6, <1>7 DEF c
  <1> HIDE DEF r
  <1>9. Len(s) \in Nat /\ i \in 1..(Len(s) + 1)
    OBVIOUS
  <1>10. r[i] = e
    BY <1>8, <1>9
  <1>11. ASSUME NEW j \in 1..(i - 1) PROVE r[j] = s[j]
    BY <1>8, <1>9
  <1>12. ASSUME NEW j \in (i + 1)..(Len(s) + 1) PROVE r[j] = s[j - 1]
    BY <1>8, <1>9
  <1> QED BY <1>8, <1>10, <1>11, <1>12 DEF r

LEMMA RemoveAtFacts ==
    ASSUME NEW S, NEW s \in Seq(S), NEW i \in 1..Len(s)
    PROVE  /\ RemoveAt(s, i) \in Seq(S)
           /\ Len(RemoveAt(s, i)) = Len(s) - 1
           /\ \A j \in 1..(Len(s) - 1) :
                RemoveAt(s, i)[j] = IF j < i THEN s[j] ELSE s[j + 1]
  <1> DEFINE a == SubSeq(s, 1, i - 1)
             b == SubSeq(s, i + 1, Len(s))
  <1>1. /\ a \in Seq(S) /\ Len(a) = i - 1
        /\ \A j \in 1..(i - 1) : a[j] = s[j]
    OBVIOUS
  <1>2. /\ b \in Seq(S) /\ Len(b) = Len(s) - i
        /\ \A j \in 1..(Len(s) - i) : b[j] = s[i + j]
    OBVIOUS
  <1>3. RemoveAt(s, i) = a \o b
    BY DEF RemoveAt
  <1> HIDE DEF a, b
  <1>4. /\ a \o b \in Seq(S) /\ Len(a \o b) = Len(s) - 1
        /\ \A j \in 1..(Len(s) - 1) :
            (a \o b)[j] = IF j <= i - 1 THEN a[j] ELSE b[j - (i - 1)]
    <2>1. /\ a \o b \in Seq(S) /\ Len(a \o b) = Len(a) + Len(b)
          /\ \A j \in 1..(Len(a) + Len(b)) :
                (a \o b)[j] = IF j <= Len(a) THEN a[j] ELSE b[j - Len(a)]
      BY <1>1, <1>2, ConcatFacts
    <2>2. Len(a) + Len(b) = Len(s) - 1
      BY <1>1, <1>2
    <2> QED BY <2>1, <2>2, <1>1
  <1>5. \A j \in 1..(Len(s) - 1) :
            (a \o b)[j] = IF j < i THEN s[j] ELSE s[j + 1]
    BY <1>1, <1>2, <1>4
  <1> QED BY <1>3, <1>4, <1>5

(* A page is a stretch of the index.                                       *)
LEMMA PageFacts ==
    ASSUME TypeOK, NEW n \in PageLengths
    PROVE  /\ n \in Nat
           /\ n > 0 => offset + n <= Len(index)
           /\ n = 0 /\ rows > 0 => offset >= Len(index)
           /\ all \o SubSeq(index, offset + 1, offset + n) \in Seq(Docs)
           /\ Len(all \o SubSeq(index, offset + 1, offset + n))
                = Len(all) + n
           /\ \A j \in 1..(Len(all) + n) :
                (all \o SubSeq(index, offset + 1, offset + n))[j] =
                    IF j <= Len(all) THEN all[j]
                    ELSE index[offset + j - Len(all)]
  <1> DEFINE page == SubSeq(index, offset + 1, offset + n)
  <1>1. n \in Nat /\ Len(index) \in Nat /\ offset \in Nat
    BY DEF PageLengths, TypeOK
  <1>2. /\ n > 0 => offset + n <= Len(index)
        /\ n = 0 /\ rows > 0 => offset >= Len(index)
    BY <1>1 DEF PageLengths, TypeOK
  <1>3. page \in Seq(Docs) /\ Len(page) = n
    BY <1>1, <1>2 DEF TypeOK
  <1>4. \A j \in 1..n : page[j] = index[offset + j]
    BY <1>1, <1>2 DEF TypeOK
  <1> HIDE DEF page
  <1>5. /\ all \o page \in Seq(Docs)
        /\ Len(all \o page) = Len(all) + n
        /\ \A j \in 1..(Len(all) + n) :
            (all \o page)[j] = IF j <= Len(all) THEN all[j]
                               ELSE page[j - Len(all)]
    BY <1>1, <1>3 DEF TypeOK
  <1>6. \A j \in 1..(Len(all) + n) :
            (all \o page)[j] = IF j <= Len(all) THEN all[j]
                               ELSE index[offset + j - Len(all)]
    BY <1>1, <1>4, <1>5 DEF TypeOK
  <1> QED BY <1>1, <1>2, <1>5, <1>6 DEF page

(* Being in the set of a sequence, by position.                            *)
LEMMA ToSetPos ==
    ASSUME NEW S, NEW s \in Seq(S), NEW d
    PROVE  d \in ToSet(s) <=> \E j \in 1..Len(s) : s[j] = d
  BY DEF ToSet

-----------------------------------------------------------------------------
(* The inductive invariant, action by action.                              *)

LEMMA InitIInv == Init => IInv
  <1> SUFFICES ASSUME Init PROVE IInv OBVIOUS
  <1>1. TypeOK
    BY InitialAssumption, MaxChangesAssumption DEF Init, TypeOK
  <1>2. IndexInv
    BY InitialAssumption DEF Init, IndexInv, IsInjective
  <1> QED
    BY <1>1, <1>2 DEF Init, IInv, IdleInv, StableInv, MissInv, TwiceInv, Complete,
                      ExactWhenStable, NothingMissed, NothingTwice

LEMMA CallIInv ==
    ASSUME IInv, Call
    PROVE  IInv'
  <1>1. TypeOK'
    BY OptionsAssumption DEF IInv, TypeOK, Call
  <1>2. IndexInv'
    BY DEF IInv, IndexInv, Call
  <1>3. all' = <<>> /\ offset' = start' /\ pc' = "paging" /\ index' = index
    BY DEF Call, IInv, IdleInv
  <1>4. StableInv'
    <2>1. Len(all') = 0
      BY <1>3
    <2>2. start' \in Nat
      BY <1>1 DEF TypeOK
    <2>5. offset' = start'
      BY <1>3
    <2>3. offset' = start' + Len(all')
      BY <2>1, <2>2, <2>5, PlusZero
    <2>4. \A i \in 1..Len(all') : all'[i] = index'[start' + i]
      BY <2>1
    <2> QED BY <1>3, <2>3, <2>4 DEF StableInv
  <1>5. MissInv'
    <2>1. wanted' \subseteq ToSet(index')
      BY <1>3 DEF Call, ToSet, IInv, TypeOK
    <2>2. ASSUME NEW i \in 1..Len(index'), i <= offset', index'[i] \in wanted'
          PROVE  FALSE
      <3>1. PICK j \in DOMAIN index : j > start' /\ index[j] = index[i]
        BY <2>2, <1>3 DEF Call
      <3>2. j = i
        BY <3>1, <1>3 DEF IInv, IndexInv, TypeOK
      <3> QED BY <3>1, <3>2, <2>2, <1>3, <1>1 DEF TypeOK
    <2> QED BY <2>1, <2>2 DEF MissInv
  <1>6. TwiceInv'
    BY <1>3 DEF TwiceInv, ToSet
  <1>7. ExactWhenStable' /\ NothingMissed' /\ NothingTwice'
    BY <1>3 DEF ExactWhenStable, NothingMissed, NothingTwice, Complete
  <1> QED BY <1>1, <1>2, <1>3, <1>4, <1>5, <1>6, <1>7 DEF IInv, IdleInv

LEMMA QueryIInv ==
    ASSUME IInv, NEW n \in 0..rows, Query(n)
    PROVE  IInv'
  <1> DEFINE page == SubSeq(index, offset + 1, offset + n)
             last == n = 0 \/ offset + n >= Len(index)
  <1>0. /\ pc = "paging" /\ n \in PageLengths
        /\ all' = all \o page
        /\ offset' = offset + n
        /\ pc' = IF last THEN "done" ELSE "paging"
        /\ UNCHANGED <<start, rows, index, changes, wanted, added, gone>>
    BY DEF Query, TakePage
  <1>t. TypeOK
    BY DEF IInv
  <1>1. /\ n \in Nat
        /\ n > 0 => offset + n <= Len(index)
        /\ n = 0 /\ rows > 0 => offset >= Len(index)
        /\ all' \in Seq(Docs)
        /\ Len(all') = Len(all) + n
        /\ \A j \in 1..(Len(all) + n) :
            all'[j] = IF j <= Len(all) THEN all[j]
                      ELSE index[offset + j - Len(all)]
    BY <1>0, <1>t, PageFacts
  <1>2. TypeOK'
    BY <1>0, <1>1, <1>t DEF TypeOK
  <1>3. IndexInv'
    BY <1>0 DEF IInv, IndexInv
  <1>4. /\ Len(all) \in Nat /\ Len(index) \in Nat /\ offset \in Nat
        /\ start \in Nat /\ rows \in Nat
    BY <1>t DEF TypeOK
  <1> HIDE DEF page
  (* What the sequence invariants say after the page, in either state.     *)
  <1>5. ASSUME added = {}, gone = {}
        PROVE  /\ offset' = start + Len(all')
               /\ all' # <<>> => offset' <= Len(index)
               /\ \A i \in 1..Len(all') : all'[i] = index[start + i]
    <2>1. /\ offset = start + Len(all)
          /\ all # <<>> => offset <= Len(index)
          /\ \A i \in 1..Len(all) : all[i] = index[start + i]
      BY <1>5, <1>0 DEF IInv, StableInv
    <2>2. offset' = start + Len(all')
      BY <2>1, <1>0, <1>1, <1>4
    <2>3. all' # <<>> => offset' <= Len(index)
      <3>1. CASE n = 0
        <4>1. Len(all') = Len(all)
          BY <3>1, <1>1, <1>4
        <4>2. all' # <<>> => all # <<>>
          BY <4>1, <1>1, <1>t DEF TypeOK
        <4> QED BY <4>2, <2>1, <3>1, <1>0, <1>4
      <3>2. CASE n > 0
        BY <3>2, <1>0, <1>1
      <3> QED BY <3>1, <3>2, <1>1
    <2>4. ASSUME NEW i \in 1..Len(all') PROVE all'[i] = index[start + i]
      <3>1. CASE i <= Len(all)
        <4>1. i \in 1..(Len(all) + n) /\ i \in 1..Len(all)
          BY <3>1, <1>1, <1>4
        <4>2. all'[i] = all[i]
          BY <3>1, <4>1, <1>1
        <4> QED BY <4>1, <4>2, <2>1
      <3>2. CASE i > Len(all)
        <4>1. offset + i - Len(all) = start + i
          BY <2>1, <1>4
        <4>2. i \in 1..(Len(all) + n) /\ ~(i <= Len(all))
          BY <3>2, <1>1, <1>4
        <4>3. all'[i] = index[offset + i - Len(all)]
          BY <4>2, <1>1
        <4> QED BY <4>1, <4>3
      <3> QED BY <3>1, <3>2, <1>4
    <2> QED BY <2>2, <2>3, <2>4
  <1>6. ToSet(all) \subseteq ToSet(all')
    <2>1. ASSUME NEW j \in 1..Len(all) PROVE all[j] = all'[j] /\ j \in 1..Len(all')
      BY <1>1, <1>4
    <2> QED BY <2>1, <1>1, <1>t, ToSetPos DEF ToSet, TypeOK
  <1>7. ASSUME gone = {}
        PROVE  /\ wanted \subseteq ToSet(index)
               /\ \A i \in 1..Len(index) :
                    i <= offset' /\ index[i] \in wanted
                        => index[i] \in ToSet(all')
    <2>1. /\ wanted \subseteq ToSet(index)
          /\ \A i \in 1..Len(index) :
                i <= offset /\ index[i] \in wanted => index[i] \in ToSet(all)
      BY <1>7, <1>0 DEF IInv, MissInv
    <2>2. ASSUME NEW i \in 1..Len(index), i <= offset', index[i] \in wanted
          PROVE  index[i] \in ToSet(all')
      <3>1. CASE i <= offset
        BY <3>1, <2>1, <2>2, <1>6
      <3>2. CASE i > offset
        <4> DEFINE j == Len(all) + (i - offset)
        <4>1. j \in 1..Len(all') /\ j > Len(all) /\ j \in 1..(Len(all) + n)
          BY <3>2, <2>2, <1>0, <1>1, <1>4
        <4>2. offset + j - Len(all) = i
          BY <1>4
        <4>3. ~(j <= Len(all))
          BY <4>1, <1>4
        <4> HIDE DEF j
        <4>4. all'[j] = index[offset + j - Len(all)]
          BY <4>1, <4>3, <1>1
        <4>5. all'[j] = index[i]
          BY <4>2, <4>4
        <4> QED BY <4>1, <4>5, <1>1, ToSetPos
      <3> QED BY <3>1, <3>2, <1>4
    <2> QED BY <2>1, <2>2
  <1>8. ASSUME added = {}
        PROVE  /\ \A i, j \in 1..Len(all') : all'[i] = all'[j] => i = j
               /\ \A i \in 1..Len(index) :
                    i > offset' => index[i] \notin ToSet(all')
    <2>1. /\ \A i, j \in 1..Len(all) : all[i] = all[j] => i = j
          /\ \A i \in 1..Len(index) : i > offset => index[i] \notin ToSet(all)
      BY <1>8, <1>0 DEF IInv, TwiceInv
    <2>2. \A i, j \in 1..Len(index) : index[i] = index[j] => i = j
      BY DEF IInv, IndexInv
    (* The position in the index of a row of the page.                     *)
    <2>3. ASSUME NEW i \in 1..Len(all'), i > Len(all)
          PROVE  /\ offset + i - Len(all) \in 1..Len(index)
                 /\ offset + i - Len(all) > offset
                 /\ offset + i - Len(all) <= offset'
                 /\ all'[i] = index[offset + i - Len(all)]
      BY <2>3, <1>0, <1>1, <1>4
    <2>4. ASSUME NEW i \in 1..Len(all') , i <= Len(all)
          PROVE  /\ i \in 1..Len(all)
                 /\ all'[i] = all[i]
                 /\ all'[i] \in ToSet(all)
      <3>1. i \in 1..Len(all) /\ all'[i] = all[i]
        BY <2>4, <1>1, <1>4
      <3>2. all[i] \in ToSet(all)
        BY <3>1, <1>t, ToSetPos DEF TypeOK
      <3> QED BY <3>1, <3>2
    <2>5. ASSUME NEW i \in 1..Len(all'), NEW j \in 1..Len(all'),
                 all'[i] = all'[j]
          PROVE  i = j
      <3>1. CASE i <= Len(all) /\ j <= Len(all)
        BY <3>1, <2>1, <2>4, <2>5
      <3>2. CASE i > Len(all) /\ j > Len(all)
        <4>1. offset + i - Len(all) = offset + j - Len(all)
          BY <3>2, <2>2, <2>3, <2>5
        <4> QED BY <4>1, <1>4
      <3>3. CASE i <= Len(all) /\ j > Len(all)
        BY <3>3, <2>1, <2>3, <2>4, <2>5
      <3>4. CASE i > Len(all) /\ j <= Len(all)
        BY <3>4, <2>1, <2>3, <2>4, <2>5
      <3> QED BY <3>1, <3>2, <3>3, <3>4, <1>4
    <2>6. ASSUME NEW i \in 1..Len(index), i > offset'
          PROVE  index[i] \notin ToSet(all')
      <3>1. SUFFICES ASSUME NEW j \in 1..Len(all'), all'[j] = index[i]
                     PROVE  FALSE
        BY <1>1, ToSetPos
      <3>2. CASE j <= Len(all)
        BY <3>1, <3>2, <2>1, <2>4, <2>6, <1>0, <1>1, <1>4
      <3>3. CASE j > Len(all)
        <4>1. offset + j - Len(all) = i
          BY <3>1, <3>3, <2>2, <2>3
        <4> QED BY <4>1, <3>3, <2>3, <2>6, <1>0, <1>1, <1>4
      <3> QED BY <3>2, <3>3, <1>4
    <2> QED BY <2>5, <2>6
  <1>9. StableInv' /\ MissInv' /\ TwiceInv'
    BY <1>0, <1>5, <1>7, <1>8 DEF StableInv, MissInv, TwiceInv
  <1>10. pc' = "done" /\ rows > 0 => offset' >= Len(index)
    BY <1>0, <1>1, <1>4
  <1>11. ExactWhenStable'
    <2> SUFFICES ASSUME pc' = "done", rows > 0, added = {}, gone = {}
                 PROVE  all' = SubSeq(index, start + 1, Len(index))
      BY <1>0 DEF ExactWhenStable, Complete
    <2>1. /\ offset' = start + Len(all')
          /\ all' # <<>> => offset' <= Len(index)
          /\ \A i \in 1..Len(all') : all'[i] = index[start + i]
          /\ offset' >= Len(index)
      BY <1>5, <1>10
    <2>2. CASE all' = <<>>
      <3>1. start >= Len(index)
        BY <2>1, <2>2, <1>4
      <3>2. SubSeq(index, start + 1, Len(index)) = <<>>
        BY <3>1, <1>4, <1>t DEF TypeOK
      <3> QED BY <2>2, <3>2
    <2>3. CASE all' # <<>>
      <3>1. Len(index) = start + Len(all')
        BY <2>1, <2>3, <1>0, <1>1, <1>4
      <3> DEFINE rest == SubSeq(index, start + 1, Len(index))
      <3>2. /\ rest \in Seq(Docs) /\ Len(rest) = Len(all')
            /\ \A i \in 1..Len(all') : rest[i] = index[start + i]
        BY <3>1, <1>1, <1>4, <1>t DEF TypeOK
      <3> HIDE DEF rest
      <3>3. \A i \in 1..Len(all') : rest[i] = all'[i]
        BY <3>2, <2>1
      <3>4. rest = all'
        BY <3>2, <3>3, <1>1
      <3> QED BY <3>4 DEF rest
    <2> QED BY <2>2, <2>3
  <1>12. NothingMissed'
    <2> SUFFICES ASSUME pc' = "done", rows > 0, gone = {}, NEW d \in wanted
                 PROVE  d \in ToSet(all')
      BY <1>0 DEF NothingMissed, Complete
    <2>1. PICK i \in 1..Len(index) : index[i] = d
      BY <1>7, <1>t, ToSetPos DEF TypeOK
    <2>2. i <= offset'
      BY <1>10, <1>0, <1>1, <1>4
    <2> QED BY <2>1, <2>2, <1>7
  <1>13. NothingTwice'
    <2> SUFFICES ASSUME added = {} PROVE IsInjective(all')
      BY <1>0 DEF NothingTwice
    <2>1. \A i, j \in 1..Len(all') : all'[i] = all'[j] => i = j
      BY <1>8
    <2>2. DOMAIN all' = 1..Len(all')
      BY <1>1
    <2> QED BY <2>1, <2>2 DEF IsInjective
  <1> QED BY <1>0, <1>2, <1>3, <1>9, <1>11, <1>12, <1>13 DEF IInv, IdleInv

LEMMA QueryErrorIInv ==
    ASSUME IInv, QueryError
    PROVE  IInv'
  <1>1. TypeOK'
    BY DEF IInv, TypeOK, QueryError
  <1>2. IndexInv'
    BY DEF IInv, IndexInv, QueryError
  <1>3. pc' = "failed"
    BY DEF QueryError
  <1> QED
    BY <1>1, <1>2, <1>3 DEF IInv, IdleInv, StableInv, MissInv, TwiceInv,
        ExactWhenStable, NothingMissed, NothingTwice, Complete

(* A new document takes no position before the offset away from a row that *)
(* is wanted.                                                              *)
LEMMA InsertIInv ==
    ASSUME IInv, NEW d \in Docs, NEW k \in 1..(Len(index) + 1), Insert(d, k)
    PROVE  IInv'
  <1>t. TypeOK
    BY DEF IInv
  <1>0. /\ d \notin ToSet(index)
        /\ index' = InsertAt(index, k, d)
        /\ changes < MaxChanges /\ changes' = changes + 1
        /\ added' = added \cup {d}
        /\ UNCHANGED <<pc, start, rows, offset, all, wanted, gone>>
    BY DEF Insert, clientVars
  <1>1. /\ index' \in Seq(Docs) /\ Len(index') = Len(index) + 1
        /\ \A j \in 1..(Len(index) + 1) :
            index'[j] = IF j < k THEN index[j]
                        ELSE IF j = k THEN d ELSE index[j - 1]
    <2>1. index \in Seq(Docs)
      BY <1>t DEF TypeOK
    <2>2. /\ index' \in Seq(Docs)
          /\ Len(index') = Len(index) + 1
          /\ index'[k] = d
          /\ \A j \in 1..(k - 1) : index'[j] = index[j]
          /\ \A j \in (k + 1)..(Len(index) + 1) : index'[j] = index[j - 1]
      <3>1. InsertAt(index, k, d) \in Seq(Docs)
        BY <2>1, InsertAtFacts
      <3>2. Len(InsertAt(index, k, d)) = Len(index) + 1
        BY <2>1, InsertAtFacts
      <3>3. InsertAt(index, k, d)[k] = d
        BY <2>1, InsertAtFacts
      <3>4. \A j \in 1..(k - 1) : InsertAt(index, k, d)[j] = index[j]
        BY <2>1, InsertAtFacts
      <3>5. \A j \in (k + 1)..(Len(index) + 1) :
                InsertAt(index, k, d)[j] = index[j - 1]
        BY <2>1, InsertAtFacts
      <3> QED BY <1>0, <3>1, <3>2, <3>3, <3>4, <3>5
    <2> QED BY <2>1, <2>2
  <1>2. TypeOK'
    BY <1>0, <1>1, <1>t, MaxChangesAssumption DEF TypeOK
  <1>3. Len(index) \in Nat /\ offset \in Nat
    BY <1>t DEF TypeOK
  <1>4. \A j \in 1..Len(index) : index[j] # d
    BY <1>0, <1>t, ToSetPos DEF TypeOK
  (* Where a document of the new index was before.                         *)
  <1>5. ASSUME NEW j \in 1..Len(index')
        PROVE  \/ j = k /\ index'[j] = d
               \/ j < k /\ j \in 1..Len(index) /\ index'[j] = index[j]
               \/ /\ j > k /\ j - 1 \in 1..Len(index)
                  /\ index'[j] = index[j - 1]
    <2>1. j \in 1..(Len(index) + 1)
      BY <1>1
    <2>2. index'[j] = IF j < k THEN index[j]
                      ELSE IF j = k THEN d ELSE index[j - 1]
      BY <1>1, <2>1
    <2>3. CASE j < k
      BY <2>2, <2>3, <1>3
    <2>4. CASE j = k
      BY <2>2, <2>4
    <2>5. CASE j > k
      <3>1. j - 1 \in 1..Len(index)
        BY <2>1, <2>5, <1>3
      <3>2. ~(j < k) /\ j # k
        BY <2>1, <2>5, <1>3
      <3> QED BY <2>2, <2>5, <3>1, <3>2
    <2> QED BY <2>1, <2>3, <2>4, <2>5, <1>3
  <1>6. IndexInv'
    <2> SUFFICES ASSUME NEW i \in 1..Len(index'), NEW j \in 1..Len(index'),
                        index'[i] = index'[j]
                 PROVE  i = j
      BY DEF IndexInv
    <2>1. \A p, q \in 1..Len(index) : index[p] = index[q] => p = q
      BY DEF IInv, IndexInv
    <2>2. CASE j = k
      <3>1. index'[j] = d /\ index'[i] = d
        BY <1>5, <2>2
      <3>2. i = k
        BY <1>4, <1>5, <3>1
      <3> QED BY <2>2, <3>2
    <2>3. CASE j < k
      BY <1>5, <1>4, <2>1, <2>3, <1>3
    <2>4. CASE j > k
      BY <1>5, <1>4, <2>1, <2>4, <1>3
    <2> QED BY <2>2, <2>3, <2>4, <1>1, <1>3
  <1>7. added' # {}
    BY <1>0
  <1>8. StableInv' /\ TwiceInv' /\ ExactWhenStable' /\ NothingTwice'
    BY <1>7 DEF StableInv, TwiceInv, ExactWhenStable, NothingTwice
  <1>9. NothingMissed' /\ IdleInv'
    BY <1>0 DEF IInv, NothingMissed, Complete, IdleInv
  <1>10. MissInv'
    <2> SUFFICES ASSUME pc = "paging", gone = {} PROVE
            /\ wanted \subseteq ToSet(index')
            /\ \A i \in 1..Len(index') :
                i <= offset /\ index'[i] \in wanted => index'[i] \in ToSet(all)
      BY <1>0 DEF MissInv
    <2>1. /\ wanted \subseteq ToSet(index)
          /\ \A i \in 1..Len(index) :
                i <= offset /\ index[i] \in wanted => index[i] \in ToSet(all)
      BY DEF IInv, MissInv
    <2>2. ASSUME NEW w \in wanted PROVE w \in ToSet(index')
      <3>1. PICK p \in 1..Len(index) : index[p] = w
        BY <2>1, <2>2, <1>t, ToSetPos DEF TypeOK
      <3>2. CASE p < k
        <4>1. p \in 1..Len(index') /\ index'[p] = w
          BY <3>1, <3>2, <1>1, <1>3
        <4> QED BY <4>1, <1>1, ToSetPos
      <3>3. CASE p >= k
        <4>1. p + 1 \in 1..Len(index') /\ index'[p + 1] = w
          BY <3>1, <3>3, <1>1, <1>3
        <4> QED BY <4>1, <1>1, ToSetPos
      <3> QED BY <3>2, <3>3, <1>3
    <2>3. ASSUME NEW i \in 1..Len(index'), i <= offset, index'[i] \in wanted
          PROVE  index'[i] \in ToSet(all)
      <3>1. d \notin wanted
        BY <2>1, <1>0
      <3>2. CASE i < k
        BY <3>2, <2>1, <2>3, <1>5, <1>3
      <3>3. CASE i > k
        <4>1. i - 1 \in 1..Len(index) /\ i - 1 <= offset
          BY <3>3, <2>3, <1>5, <1>3
        <4>2. index'[i] = index[i - 1]
          BY <3>3, <1>5, <1>3
        <4> QED BY <4>1, <4>2, <2>1, <2>3
      <3>4. CASE i = k
        BY <3>1, <3>4, <2>3, <1>5, <1>3
      <3> QED BY <3>2, <3>3, <3>4, <1>1, <1>3
    <2> QED BY <2>2, <2>3
  <1> QED BY <1>2, <1>6, <1>8, <1>9, <1>10 DEF IInv

(* A deletion moves no row that was collected behind the offset.           *)
LEMMA DeleteIInv ==
    ASSUME IInv, NEW k \in 1..Len(index), Delete(k)
    PROVE  IInv'
  <1>t. TypeOK
    BY DEF IInv
  <1>0. /\ index' = RemoveAt(index, k)
        /\ changes < MaxChanges /\ changes' = changes + 1
        /\ gone' = gone \cup {index[k]}
        /\ UNCHANGED <<pc, start, rows, offset, all, wanted, added>>
    BY DEF Delete, clientVars
  <1>1. /\ index' \in Seq(Docs) /\ Len(index') = Len(index) - 1
        /\ \A j \in 1..(Len(index) - 1) :
            index'[j] = IF j < k THEN index[j] ELSE index[j + 1]
    BY <1>0, <1>t, RemoveAtFacts DEF TypeOK
  <1>2. Len(index) \in Nat /\ offset \in Nat /\ index[k] \in Docs
    BY <1>t DEF TypeOK
  <1>3. TypeOK'
    BY <1>0, <1>1, <1>2, <1>t, MaxChangesAssumption DEF TypeOK
  <1>4. ASSUME NEW j \in 1..Len(index')
        PROVE  \/ j < k /\ j \in 1..Len(index) /\ index'[j] = index[j]
               \/ /\ j >= k /\ j + 1 \in 1..Len(index)
                  /\ index'[j] = index[j + 1]
    BY <1>1, <1>2
  <1>5. \A p, q \in 1..Len(index) : index[p] = index[q] => p = q
    BY DEF IInv, IndexInv
  <1>6. IndexInv'
    <2> SUFFICES ASSUME NEW i \in 1..Len(index'), NEW j \in 1..Len(index'),
                        index'[i] = index'[j]
                 PROVE  i = j
      BY DEF IndexInv
    <2>1. CASE j < k
      BY <1>4, <1>5, <2>1, <1>2
    <2>2. CASE j >= k
      BY <1>4, <1>5, <2>2, <1>2
    <2> QED BY <2>1, <2>2, <1>2
  <1>7. gone' # {}
    BY <1>0
  <1>8. StableInv' /\ MissInv' /\ ExactWhenStable' /\ NothingMissed'
    BY <1>7 DEF StableInv, MissInv, ExactWhenStable, NothingMissed
  <1>9. NothingTwice' /\ IdleInv'
    BY <1>0 DEF IInv, NothingTwice, Complete, IdleInv
  <1>10. TwiceInv'
    <2> SUFFICES ASSUME pc = "paging", added = {} PROVE
            /\ \A i, j \in 1..Len(all) : all[i] = all[j] => i = j
            /\ \A i \in 1..Len(index') : i > offset => index'[i] \notin ToSet(all)
      BY <1>0 DEF TwiceInv
    <2>1. /\ \A i, j \in 1..Len(all) : all[i] = all[j] => i = j
          /\ \A i \in 1..Len(index) : i > offset => index[i] \notin ToSet(all)
      BY DEF IInv, TwiceInv
    <2>2. ASSUME NEW i \in 1..Len(index'), i > offset
          PROVE  index'[i] \notin ToSet(all)
      <3>1. CASE i < k
        BY <3>1, <2>1, <2>2, <1>4, <1>2
      <3>2. CASE i >= k
        <4>1. i + 1 \in 1..Len(index) /\ i + 1 > offset
          BY <3>2, <2>2, <1>4, <1>2
        <4>2. index'[i] = index[i + 1]
          BY <3>2, <1>4, <1>2
        <4> QED BY <4>1, <4>2, <2>1
      <3> QED BY <3>1, <3>2, <1>2
    <2> QED BY <2>1, <2>2
  <1> QED BY <1>3, <1>6, <1>8, <1>9, <1>10 DEF IInv

-----------------------------------------------------------------------------
(* The invariant holds in every state of SearchAll and of its index.       *)
THEOREM Invariance == Spec => []IInv
  <1>1. IInv /\ [Next]_vars => IInv'
    <2> SUFFICES ASSUME IInv, [Next]_vars PROVE IInv' OBVIOUS
    <2>1. CASE Call
      BY <2>1, CallIInv
    <2>2. CASE QueryError
      BY <2>2, QueryErrorIInv
    <2>3. ASSUME NEW n \in 0..rows, Query(n) PROVE IInv'
      BY <2>3, QueryIInv
    <2>4. ASSUME NEW d \in Docs, NEW i \in 1..(Len(index) + 1), Insert(d, i)
          PROVE  IInv'
      BY <2>4, InsertIInv
    <2>5. ASSUME NEW i \in 1..Len(index), Delete(i) PROVE IInv'
      BY <2>5, DeleteIInv
    <2>6. CASE UNCHANGED vars
      BY <2>6 DEF vars, clientVars, IInv, TypeOK, IdleInv, IndexInv,
            StableInv, MissInv, TwiceInv, Complete, ExactWhenStable,
            NothingMissed, NothingTwice
    <2> QED
      BY <2>1, <2>2, <2>3, <2>4, <2>5, <2>6
         DEF Next, Search, Change, Terminated
  <1> QED BY <1>1, InitIInv, PTL DEF Spec

(* The variables of SearchAll keep their types: the offset and the rows    *)
(* collected stay well formed however the index changes.                   *)
THEOREM TypeCorrect == Spec => []TypeOK
  <1>1. IInv => TypeOK
    BY DEF IInv
  <1> QED BY <1>1, Invariance, PTL

(* Over an index that does not change, SearchAll returns exactly the rows  *)
(* from the start offset on, in order, for all page sizes.                 *)
THEOREM StableIsExact == Spec => []ExactWhenStable
  <1>1. IInv => ExactWhenStable
    BY DEF IInv
  <1> QED BY <1>1, Invariance, PTL

(* However many documents are indexed between the pages, SearchAll misses  *)
(* none that was there when it began.                                      *)
THEOREM InsertionsAreSafe == Spec => []NothingMissed
  <1>1. IInv => NothingMissed
    BY DEF IInv
  <1> QED BY <1>1, Invariance, PTL

(* However many documents are deleted between the pages, SearchAll returns *)
(* none twice.                                                             *)
THEOREM DeletionsDoNotRepeat == Spec => []NothingTwice
  <1>1. IInv => NothingTwice
    BY DEF IInv
  <1> QED BY <1>1, Invariance, PTL

-----------------------------------------------------------------------------
(* NodeEdit: a set of naturals that is not empty has a least one.          *)

LEMMA LeastNat ==
    ASSUME NEW T \in SUBSET Nat, T # {}
    PROVE  \E x \in T : \A y \in T : x <= y
<1>1. PICK x \in T : \A y \in T : ~ (<<y, x>> \in OpToRel(<, Nat))
  BY WFMin, NatLessThanWellFounded
<1>2. \A y \in T : ~ (y < x)
  BY <1>1 DEF OpToRel
<1> QED
  BY <1>2

-----------------------------------------------------------------------------
(* NodeEdit: loops over a sequence. Omit, appendMissing, Dig and Entries   *)
(* are loops that take one element after the other into an accumulator,    *)
(* each with a step of its own.                                            *)

One(op, arg, acc, x) ==
    CASE op = "omit" -> IF x \in arg THEN acc ELSE Append(acc, x)
      [] op = "append" -> appendOne(acc, x)
      [] op = "dig" -> IF acc.type = "map" /\ x \in DOMAIN acc.map
                       THEN acc.map[x] ELSE Missing
      [] op = "deep" -> UNION {Below(p) : p \in {q \in acc :
                                                    q.value.type = "map"}}

Folding(op, arg, init, list, n, g) ==
    g = [m \in 0..n |-> IF m = 0 THEN init
                        ELSE One(op, arg, g[m - 1], list[m])]

LEMMA FoldingExists ==
    ASSUME NEW op, NEW arg, NEW init, NEW list, NEW n \in Nat
    PROVE  \E g : Folding(op, arg, init, list, n, g)
<1> DEFINE T == {m \in Nat : ~\E g : Folding(op, arg, init, list, m, g)}
<1> SUFFICES ASSUME T # {} PROVE FALSE
  OBVIOUS
<1>1. PICK m \in T : \A y \in T : m <= y
  BY LeastNat
<1>2. CASE m = 0
  <2> DEFINE g == [k \in 0..0 |-> init]
  <2>1. Folding(op, arg, init, list, 0, g)
    BY DEF Folding
  <2> QED
    BY <1>1, <1>2, <2>1
<1>3. CASE m # 0
  <2>1. m - 1 \in Nat /\ m - 1 \notin T
    BY <1>1, <1>3
  <2>2. PICK g : Folding(op, arg, init, list, m - 1, g)
    BY <2>1
  <2> DEFINE h == [k \in 0..m |-> IF k = m THEN One(op, arg, g[m - 1], list[m])
                                  ELSE g[k]]
  <2>3. ASSUME NEW k \in 0..m
        PROVE  h[k] = IF k = 0 THEN init ELSE One(op, arg, h[k - 1], list[k])
    <3>1. CASE k = m
      BY <1>3, <2>1, <3>1
    <3>2. CASE k # m
      <4>1. k \in 0..(m - 1) /\ h[k] = g[k]
        BY <2>1, <3>2
      <4>2. k # 0 => k - 1 \in 0..(m - 1) /\ h[k - 1] = g[k - 1]
        BY <2>1, <4>1
      <4> HIDE DEF h
      <4> QED
        BY <2>2, <4>1, <4>2 DEF Folding
    <3> QED
      BY <3>1, <3>2
  <2>4. Folding(op, arg, init, list, m, h)
    BY <2>3 DEF Folding
  <2> QED
    BY <1>1, <2>4
<1> QED
  BY <1>2, <1>3

(* What the loop has made of the first n elements depends on these alone.  *)
LEMMA FoldingAgrees ==
    ASSUME NEW op, NEW arg, NEW init, NEW s, NEW t, NEW n \in Nat,
           NEW k \in Nat, n <= k, \A m \in 1..n : s[m] = t[m],
           NEW g, Folding(op, arg, init, s, n, g),
           NEW h, Folding(op, arg, init, t, k, h)
    PROVE  g[n] = h[n]
<1> DEFINE T == {m \in 0..n : g[m] # h[m]}
<1>1. ASSUME T # {} PROVE FALSE
  <2>1. PICK m \in T : \A y \in T : m <= y
    <3>1. T \in SUBSET Nat
      OBVIOUS
    <3> QED
      BY <1>1, <3>1, LeastNat
  <2>2. /\ g[m] = IF m = 0 THEN init ELSE One(op, arg, g[m - 1], s[m])
        /\ h[m] = IF m = 0 THEN init ELSE One(op, arg, h[m - 1], t[m])
    <3>1. m \in 0..n /\ m \in 0..k
      BY <2>1
    <3> HIDE DEF T
    <3> QED
      BY <3>1 DEF Folding
  <2>3. m # 0 => g[m - 1] = h[m - 1] /\ s[m] = t[m]
    <3> SUFFICES ASSUME m # 0 PROVE g[m - 1] = h[m - 1] /\ s[m] = t[m]
      OBVIOUS
    <3>1. m - 1 \in 0..n /\ m - 1 \notin T /\ m \in 1..n
      BY <2>1
    <3> QED
      BY <3>1
  <2>4. g[m] = h[m]
    BY <2>2, <2>3
  <2> QED
    BY <2>1, <2>4
<1> QED
  BY <1>1

Fold(op, arg, init, list) ==
    (CHOOSE g : Folding(op, arg, init, list, Len(list), g))[Len(list)]

LEMMA FoldIs ==
    ASSUME NEW op, NEW arg, NEW init, NEW list, Len(list) \in Nat,
           NEW g, Folding(op, arg, init, list, Len(list), g)
    PROVE  Fold(op, arg, init, list) = g[Len(list)]
<1> DEFINE h == CHOOSE f : Folding(op, arg, init, list, Len(list), f)
<1>1. Folding(op, arg, init, list, Len(list), h)
  OBVIOUS
<1>2. Fold(op, arg, init, list) = h[Len(list)]
  BY DEF Fold
<1> HIDE DEF h
<1> QED
  BY <1>1, <1>2, FoldingAgrees

LEMMA FoldEmpty ==
    ASSUME NEW op, NEW arg, NEW init
    PROVE  Fold(op, arg, init, <<>>) = init
<1>1. Len(<<>>) = 0
  OBVIOUS
<1>2. PICK g : Folding(op, arg, init, <<>>, 0, g)
  <2>1. 0 \in Nat
    OBVIOUS
  <2> QED
    BY <2>1, FoldingExists
<1>3. g[0] = init
  BY <1>2 DEF Folding
<1> QED
  BY <1>1, <1>2, <1>3, FoldIs

LEMMA FoldAppend ==
    ASSUME NEW op, NEW arg, NEW init, NEW S, NEW s \in Seq(S), NEW x \in S
    PROVE  Fold(op, arg, init, Append(s, x)) =
               One(op, arg, Fold(op, arg, init, s), x)
<1> DEFINE t == Append(s, x)
           n == Len(s)
<1>1. /\ n \in Nat /\ Len(t) = n + 1 /\ t[n + 1] = x
      /\ \A m \in 1..n : s[m] = t[m]
  OBVIOUS
<1> HIDE DEF t, n
<1>2. PICK g : Folding(op, arg, init, s, n, g)
  BY <1>1, FoldingExists
<1>3. PICK h : Folding(op, arg, init, t, n + 1, h)
  <2>1. n + 1 \in Nat
    BY <1>1
  <2> QED
    BY <2>1, FoldingExists
<1>4. g[n] = h[n]
  <2>1. n <= n + 1 /\ n + 1 \in Nat
    BY <1>1
  <2> QED
    BY <1>1, <1>2, <1>3, <2>1, FoldingAgrees
<1>5. h[n + 1] = One(op, arg, h[n], x)
  <2>1. n + 1 \in 0..(n + 1) /\ n + 1 # 0 /\ (n + 1) - 1 = n
    BY <1>1
  <2>2. h[n + 1] = One(op, arg, h[(n + 1) - 1], t[n + 1])
    BY <1>3, <2>1 DEF Folding
  <2> QED
    BY <1>1, <2>1, <2>2
<1>6. Fold(op, arg, init, s) = g[n] /\ Fold(op, arg, init, t) = h[n + 1]
  <2>1. n + 1 \in Nat
    BY <1>1
  <2>2. Fold(op, arg, init, s) = g[Len(s)]
    BY <1>1, <1>2, FoldIs DEF n
  <2>3. Fold(op, arg, init, t) = h[Len(t)]
    BY <1>1, <1>3, <2>1, FoldIs
  <2> QED
    BY <1>1, <2>2, <2>3 DEF n
<1> QED
  BY <1>4, <1>5, <1>6 DEF t

(* The model's loops are loops of this kind.                               *)
LEMMA OmitIsFold ==
    ASSUME NEW list, NEW set
    PROVE  Omit(list, set) = Fold("omit", set, <<>>, list)
BY DEF Omit, Fold, Folding, One

LEMMA appendMissingIsFold ==
    ASSUME NEW list, NEW items
    PROVE  appendMissing(list, items) = Fold("append", <<>>, list, items)
BY DEF appendMissing, Fold, Folding, One

LEMMA DigIsFold ==
    ASSUME NEW m, NEW path, path # <<>>
    PROVE  Dig(m, path) = Fold("dig", <<>>, Map(m), path)
BY DEF Dig, Fold, Folding, One

-----------------------------------------------------------------------------
(* NodeEdit: lists.                                                        *)

LEMMA OmitAppend ==
    ASSUME NEW S, NEW s \in Seq(S), NEW x \in S, NEW V
    PROVE  /\ Omit(<<>>, V) = <<>>
           /\ Omit(Append(s, x), V) = IF x \in V THEN Omit(s, V)
                                      ELSE Append(Omit(s, V), x)
BY FoldEmpty, FoldAppend, OmitIsFold DEF One

LEMMA appendMissingAppend ==
    ASSUME NEW S, NEW list, NEW s \in Seq(S), NEW x \in S
    PROVE  /\ appendMissing(list, <<>>) = list
           /\ appendMissing(list, Append(s, x)) =
                  appendOne(appendMissing(list, s), x)
BY FoldEmpty, FoldAppend, appendMissingIsFold DEF One

LEMMA ContainsIsIn ==
    ASSUME NEW S, NEW s \in Seq(S), NEW m
    PROVE  Contains(s, m) <=> m \in ToSet(s)
BY DEF Contains, ToSet

LEMMA AppendSet ==
    ASSUME NEW S, NEW s \in Seq(S), NEW m \in S
    PROVE  /\ Append(s, m) \in Seq(S)
           /\ ToSet(Append(s, m)) = ToSet(s) \cup {m}
           /\ IsInjective(Append(s, m)) <=> IsInjective(s) /\ m \notin ToSet(s)
<1> DEFINE t == Append(s, m)
<1>1. t \in Seq(S) /\ Len(t) = Len(s) + 1 /\ t[Len(s) + 1] = m
      /\ \A i \in 1..Len(s) : t[i] = s[i]
  OBVIOUS
<1>2. DOMAIN s = 1..Len(s) /\ DOMAIN t = 1..(Len(s) + 1) /\ Len(s) \in Nat
  BY <1>1
<1> HIDE DEF t
<1>3. ToSet(t) = ToSet(s) \cup {m}
  BY <1>1, <1>2 DEF ToSet
<1>4. ASSUME IsInjective(s), m \notin ToSet(s) PROVE IsInjective(t)
  BY <1>1, <1>2, <1>4 DEF ToSet, IsInjective
<1>5. ASSUME IsInjective(t) PROVE IsInjective(s) /\ m \notin ToSet(s)
  <2>1. IsInjective(s)
    BY <1>1, <1>2, <1>5 DEF IsInjective
  <2>2. ASSUME NEW i \in 1..Len(s), s[i] = m PROVE FALSE
    BY <1>1, <1>2, <1>5, <2>2 DEF IsInjective
  <2> QED
    BY <1>2, <2>1, <2>2 DEF ToSet
<1> QED
  BY <1>1, <1>3, <1>4, <1>5 DEF t

LEMMA SubSeqFacts ==
    ASSUME NEW S, NEW s \in Seq(S), NEW k \in 0..Len(s)
    PROVE  /\ SubSeq(s, 1, k) \in Seq(S) /\ Len(SubSeq(s, 1, k)) = k
           /\ \A i \in 1..k : SubSeq(s, 1, k)[i] = s[i]
  OBVIOUS

(* A sequence is empty or has a last element.                              *)
LEMMA SeqEnds ==
    ASSUME NEW S, NEW s \in Seq(S), s # <<>>
    PROVE  \E t \in Seq(S), x \in S : s = Append(t, x) /\ Len(s) = Len(t) + 1
<1> DEFINE t == SubSeq(s, 1, Len(s) - 1)
<1>1. /\ t \in Seq(S) /\ s[Len(s)] \in S /\ Len(s) = Len(t) + 1
      /\ \A i \in 1..Len(t) : t[i] = s[i]
  <2>1. Len(s) \in Nat \ {0} /\ Len(s) - 1 \in 0..Len(s)
    OBVIOUS
  <2>2. t \in Seq(S) /\ Len(t) = Len(s) - 1
        /\ \A i \in 1..(Len(s) - 1) : t[i] = s[i]
    BY <2>1, SubSeqFacts
  <2> HIDE DEF t
  <2> QED
    BY <2>1, <2>2
<1> HIDE DEF t
<1> DEFINE u == Append(t, s[Len(s)])
<1>2. /\ u \in Seq(S) /\ Len(u) = Len(s) /\ u[Len(s)] = s[Len(s)]
      /\ \A i \in 1..Len(t) : u[i] = s[i]
  BY <1>1
<1> HIDE DEF u
<1>3. \A i \in 1..Len(s) : u[i] = s[i]
  BY <1>1, <1>2
<1>4. s = u
  BY <1>2, <1>3
<1> QED
  BY <1>1, <1>4 DEF u

(* What Omit leaves: the other entries, in their order, none of them twice *)
(* that was there once; and omitting twice is omitting both.               *)
Omits(S, s, V, W) ==
    /\ Omit(s, V) \in Seq(S)
    /\ ToSet(Omit(s, V)) = ToSet(s) \ V
    /\ IsInjective(s) => IsInjective(Omit(s, V))
    /\ Omit(Omit(s, V), W) = Omit(s, V \cup W)
    /\ ToSet(s) \cap V = {} => Omit(s, V) = s

LEMMA OmitStep ==
    ASSUME NEW S, NEW s \in Seq(S), NEW x \in S, NEW V, NEW W,
           Omits(S, s, V, W)
    PROVE  Omits(S, Append(s, x), V, W)
<1> DEFINE t == Append(s, x)
           o == Omit(s, V)
<1>1. /\ t \in Seq(S) /\ ToSet(t) = ToSet(s) \cup {x}
      /\ IsInjective(t) => IsInjective(s) /\ x \notin ToSet(s)
  BY AppendSet
<1>2. /\ Omit(t, V) = IF x \in V THEN o ELSE Append(o, x)
      /\ Omit(t, V \cup W) = IF x \in V \cup W THEN Omit(s, V \cup W)
                             ELSE Append(Omit(s, V \cup W), x)
  BY OmitAppend
<1>3. /\ o \in Seq(S) /\ ToSet(o) = ToSet(s) \ V
      /\ IsInjective(s) => IsInjective(o)
      /\ Omit(o, W) = Omit(s, V \cup W)
      /\ ToSet(s) \cap V = {} => o = s
  BY DEF Omits
<1>4. CASE x \in V
  <2>1. Omit(t, V) = o /\ Omit(t, V \cup W) = Omit(s, V \cup W)
    BY <1>2, <1>4
  <2> HIDE DEF t, o
  <2>2. Omits(S, t, V, W)
    BY <1>1, <1>3, <1>4, <2>1 DEF Omits
  <2> QED
    BY <2>2 DEF t
<1>5. CASE x \notin V
  <2>1. /\ Append(o, x) \in Seq(S) /\ ToSet(Append(o, x)) = ToSet(o) \cup {x}
        /\ IsInjective(o) /\ x \notin ToSet(o) => IsInjective(Append(o, x))
    BY <1>3, AppendSet
  <2>2. Omit(Append(o, x), W) = IF x \in W THEN Omit(o, W)
                                ELSE Append(Omit(o, W), x)
    <3>1. o \in Seq(S)
      BY <1>3
    <3> HIDE DEF o
    <3> QED
      BY <3>1, OmitAppend
  <2>3. Omit(t, V) = Append(o, x)
    BY <1>2, <1>5
  <2>4. ToSet(t) \cap V = {} => Append(o, x) = t
    BY <1>1, <1>3
  <2> HIDE DEF t, o
  <2>5. Omit(Append(o, x), W) = Omit(t, V \cup W)
    BY <1>2, <1>3, <1>5, <2>2
  <2>6. Omits(S, t, V, W)
    BY <1>1, <1>3, <1>5, <2>1, <2>3, <2>4, <2>5 DEF Omits
  <2> QED
    BY <2>6 DEF t
<1> QED
  BY <1>4, <1>5

LEMMA EmptyFacts ==
    /\ \A S : <<>> \in Seq(S)
    /\ ToSet(<<>>) = {} /\ IsInjective(<<>>) /\ Len(<<>>) = 0
BY DEF ToSet, IsInjective

LEMMA OmitFacts ==
    ASSUME NEW S, NEW s \in Seq(S), NEW V, NEW W
    PROVE  Omits(S, s, V, W)
<1> DEFINE T == {n \in Nat : \E t \in Seq(S) : Len(t) = n /\ ~Omits(S, t, V, W)}
<1>1. ASSUME T # {} PROVE FALSE
  <2>1. PICK n \in T : \A y \in T : n <= y
    BY <1>1, LeastNat
  <2>2. PICK t \in Seq(S) : Len(t) = n /\ ~Omits(S, t, V, W)
    BY <2>1
  <2>3. CASE t = <<>>
    <3>1. Omit(<<>>, V) = <<>> /\ Omit(<<>>, W) = <<>>
          /\ Omit(<<>>, V \cup W) = <<>>
      BY FoldEmpty, OmitIsFold
    <3>2. Omits(S, <<>>, V, W)
      BY <3>1, EmptyFacts DEF Omits
    <3> QED
      BY <2>2, <2>3, <3>2
  <2>4. CASE t # <<>>
    <3>1. PICK u \in Seq(S), x \in S : t = Append(u, x) /\ Len(t) = Len(u) + 1
      BY <2>4, SeqEnds
    <3>2. Len(u) \in Nat /\ ~(n <= Len(u))
      BY <2>2, <3>1
    <3>3. Omits(S, u, V, W)
      BY <2>1, <3>2
    <3> QED
      BY <2>2, <3>1, <3>3, OmitStep
  <2> QED
    BY <2>3, <2>4
<1>2. Len(s) \in Nat
  OBVIOUS
<1> QED
  BY <1>1, <1>2

(* What appendMissing adds: what is missing, once, behind the rest.        *)
Appends(S, list, items, V) ==
    /\ appendMissing(list, items) \in Seq(S)
    /\ ToSet(appendMissing(list, items)) = ToSet(list) \cup ToSet(items)
    /\ IsInjective(list) => IsInjective(appendMissing(list, items))
    /\ ToSet(items) \subseteq V =>
           Omit(appendMissing(list, items), V) = Omit(list, V)

LEMMA AppendsStep ==
    ASSUME NEW S, NEW list \in Seq(S), NEW s \in Seq(S), NEW x \in S, NEW V,
           Appends(S, list, s, V)
    PROVE  Appends(S, list, Append(s, x), V)
<1> DEFINE t == Append(s, x)
           out == appendMissing(list, s)
<1>1. t \in Seq(S) /\ ToSet(t) = ToSet(s) \cup {x}
  BY AppendSet
<1>2. appendMissing(list, t) = appendOne(out, x)
  BY appendMissingAppend
<1>3. /\ out \in Seq(S) /\ ToSet(out) = ToSet(list) \cup ToSet(s)
      /\ IsInjective(list) => IsInjective(out)
      /\ ToSet(s) \subseteq V => Omit(out, V) = Omit(list, V)
  BY DEF Appends
<1>4. Contains(out, x) <=> x \in ToSet(out)
  BY <1>3, ContainsIsIn
<1>5. /\ Append(out, x) \in Seq(S) /\ ToSet(Append(out, x)) = ToSet(out) \cup {x}
      /\ IsInjective(out) /\ x \notin ToSet(out) => IsInjective(Append(out, x))
  BY <1>3, AppendSet
<1>6. x \in V => Omit(Append(out, x), V) = Omit(out, V)
  BY <1>3, OmitAppend
<1> HIDE DEF t, out
<1>7. CASE x \in ToSet(out)
  <2>1. appendMissing(list, t) = out
    BY <1>2, <1>4, <1>7 DEF appendOne
  <2>2. Appends(S, list, t, V)
    BY <1>1, <1>3, <1>7, <2>1 DEF Appends
  <2> QED
    BY <2>2 DEF t
<1>8. CASE x \notin ToSet(out)
  <2>1. appendMissing(list, t) = Append(out, x)
    BY <1>2, <1>4, <1>8 DEF appendOne
  <2>2. Appends(S, list, t, V)
    BY <1>1, <1>3, <1>5, <1>6, <1>8, <2>1 DEF Appends
  <2> QED
    BY <2>2 DEF t
<1> QED
  BY <1>7, <1>8

LEMMA AppendsFacts ==
    ASSUME NEW S, NEW list \in Seq(S), NEW s \in Seq(S), NEW V
    PROVE  Appends(S, list, s, V)
<1> DEFINE T == {n \in Nat : \E t \in Seq(S) :
                     Len(t) = n /\ ~Appends(S, list, t, V)}
<1>1. ASSUME T # {} PROVE FALSE
  <2>1. PICK n \in T : \A y \in T : n <= y
    BY <1>1, LeastNat
  <2>2. PICK t \in Seq(S) : Len(t) = n /\ ~Appends(S, list, t, V)
    BY <2>1
  <2>3. CASE t = <<>>
    <3>1. appendMissing(list, <<>>) = list
      BY FoldEmpty, appendMissingIsFold
    <3>2. Appends(S, list, <<>>, V)
      BY <3>1, EmptyFacts DEF Appends
    <3> QED
      BY <2>2, <2>3, <3>2
  <2>4. CASE t # <<>>
    <3>1. PICK u \in Seq(S), x \in S : t = Append(u, x) /\ Len(t) = Len(u) + 1
      BY <2>4, SeqEnds
    <3>2. Len(u) \in Nat /\ ~(n <= Len(u))
      BY <2>2, <3>1
    <3>3. Appends(S, list, u, V)
      BY <2>1, <3>2
    <3> QED
      BY <2>2, <3>1, <3>3, AppendsStep
  <2> QED
    BY <2>3, <2>4
<1>2. Len(s) \in Nat
  OBVIOUS
<1> QED
  BY <1>1, <1>2

-----------------------------------------------------------------------------
(* NodeEdit: nodes, and what the edits and the server do to them.          *)

Kept(n, m) ==
    /\ m.automatic = n.automatic /\ m.override = n.override
    /\ m.default = n.default /\ m.settings = n.settings

LEMMA SetTagsFacts ==
    ASSUME NEW n, IsNode(n), NEW tags \in Seq(Strings), NEW m, m = SetTags(n, tags)
    PROVE  /\ IsNode(m) /\ Tags(m) = tags /\ m.runList = n.runList /\ Kept(n, m)
           /\ DOMAIN m.normal = DOMAIN n.normal \cup {"tags"}
           /\ \A k \in DOMAIN n.normal : k # "tags" => m.normal[k] = n.normal[k]
           /\ m.normal["tags"] = StringSlice(tags)
<1> DEFINE new == [k \in DOMAIN n.normal \cup {"tags"} |->
                      IF k = "tags" THEN StringSlice(tags) ELSE n.normal[k]]
<1>1. m = [runList |-> n.runList, automatic |-> n.automatic,
           override |-> n.override, normal |-> new, default |-> n.default,
           settings |-> n.settings]
  BY DEF IsNode, SetTags
<1>2. /\ DOMAIN new = DOMAIN n.normal \cup {"tags"}
      /\ \A k \in DOMAIN n.normal : k # "tags" => new[k] = n.normal[k]
      /\ new["tags"] = StringSlice(tags)
      /\ new = [k \in DOMAIN new |-> new[k]]
  OBVIOUS
<1> HIDE DEF new
<1>3. /\ m.normal = new /\ m.runList = n.runList /\ Kept(n, m)
      /\ m = [runList |-> m.runList, automatic |-> m.automatic,
              override |-> m.override, normal |-> m.normal,
              default |-> m.default, settings |-> m.settings]
  BY <1>1 DEF Kept
<1>4. Tags(m) = tags
  BY <1>2, <1>3 DEF Tags, StringSlice
<1>5. \A k \in DOMAIN new : new[k].type = "strings" => k = "tags"
  BY <1>2 DEF IsNode
<1>6. IsNode(m)
  <2>1. n.runList \in Seq(Strings)
    BY DEF IsNode
  <2> QED
    BY <1>2, <1>3, <1>4, <1>5, <2>1 DEF IsNode
<1> QED
  BY <1>2, <1>3, <1>4, <1>6

(* The way to the server and back changes the shape of the tags, nothing   *)
(* else.                                                                   *)
LEMMA StoredFacts ==
    ASSUME NEW n, IsNode(n), NEW m, m = Stored(n)
    PROVE  /\ IsNode(m) /\ IsJson(m)
           /\ Tags(m) = Tags(n) /\ m.runList = n.runList /\ Kept(n, m)
           /\ DOMAIN m.normal = DOMAIN n.normal
           /\ \A k \in DOMAIN n.normal :
                 IF n.normal[k].type = "strings"
                 THEN /\ k = "tags"
                      /\ m.normal[k] = Array([i \in DOMAIN Tags(n) |->
                                                  String(Tags(n)[i])])
                 ELSE m.normal[k] = n.normal[k]
<1> DEFINE new == [k \in DOMAIN n.normal |->
               IF n.normal[k].type = "strings"
               THEN Array([i \in DOMAIN n.normal[k].strings |->
                              String(n.normal[k].strings[i])])
               ELSE n.normal[k]]
<1>1. m = [runList |-> n.runList, automatic |-> n.automatic,
           override |-> n.override, normal |-> new, default |-> n.default,
           settings |-> n.settings]
  BY DEF IsNode, Stored
<1>2. /\ DOMAIN new = DOMAIN n.normal
      /\ \A k \in DOMAIN n.normal :
            new[k] = IF n.normal[k].type = "strings"
                     THEN Array([i \in DOMAIN n.normal[k].strings |->
                                    String(n.normal[k].strings[i])])
                     ELSE n.normal[k]
      /\ new = [k \in DOMAIN new |-> new[k]]
  OBVIOUS
<1> HIDE DEF new
<1>3. /\ m.normal = new /\ m.runList = n.runList /\ Kept(n, m)
      /\ m = [runList |-> m.runList, automatic |-> m.automatic,
              override |-> m.override, normal |-> m.normal,
              default |-> m.default, settings |-> m.settings]
  BY <1>1 DEF Kept
<1>4. ASSUME NEW k \in DOMAIN n.normal
      PROVE  IF n.normal[k].type = "strings"
             THEN /\ k = "tags" /\ n.normal[k].strings = Tags(n)
                  /\ new[k] = Array([i \in DOMAIN Tags(n) |->
                                         String(Tags(n)[i])])
             ELSE new[k] = n.normal[k]
  <2>1. CASE n.normal[k].type = "strings"
    <3>1. k = "tags"
      BY <2>1 DEF IsNode
    <3>2. n.normal[k].strings = Tags(n)
      BY <2>1, <3>1 DEF Tags
    <3> QED
      BY <1>2, <2>1, <3>1, <3>2
  <2>2. CASE n.normal[k].type # "strings"
    BY <1>2, <2>2
  <2> QED
    BY <2>1, <2>2
<1>5. ASSUME NEW k \in DOMAIN n.normal PROVE new[k].type # "strings"
  <2>1. CASE n.normal[k].type = "strings"
    <3>1. \E x : new[k] = Array(x)
      BY <1>4, <2>1
    <3> QED
      BY <3>1 DEF Array
  <2>2. CASE n.normal[k].type # "strings"
    BY <1>4, <2>2
  <2> QED
    BY <2>1, <2>2
<1>6. Tags(m) = Tags(n)
  <2>1. CASE "tags" \in DOMAIN n.normal /\ n.normal["tags"].type = "strings"
    <3> DEFINE values == [i \in DOMAIN Tags(n) |-> String(Tags(n)[i])]
               StringValues == {String(s) : s \in Strings}
    <3>1. Tags(n) \in Seq(Strings)
      BY DEF IsNode
    <3>2. /\ values \in Seq(StringValues) /\ DOMAIN values = DOMAIN Tags(n)
          /\ \A i \in DOMAIN values :
                values[i].string = Tags(n)[i] /\ values[i].type = "string"
      BY <3>1 DEF String
    <3>3. new["tags"] = Array(values) /\ "tags" \in DOMAIN new
      BY <1>2, <1>4, <2>1
    <3> HIDE DEF values, StringValues
    <3>4. {v \in ToSet(values) : v.type # "string"} = {}
      BY <3>2 DEF ToSet
    <3>5. Omit(values, {}) = values
      <4>1. Omits(StringValues, values, {}, {})
        BY <3>2, OmitFacts
      <4> QED
        BY <4>1 DEF Omits
    <3>6. Tags(m) = [i \in DOMAIN values |-> values[i].string]
      <4> DEFINE raw == IF "tags" \in DOMAIN m.normal THEN m.normal["tags"]
                        ELSE Missing
                 others == {v \in ToSet(raw.values) : v.type # "string"}
                 kept == Omit(raw.values, others)
      <4>1. raw = Array(values)
        BY <1>3, <3>3
      <4>2. raw.type = "array" /\ raw.values = values
        BY <4>1 DEF Array
      <4>3. Tags(m) = CASE raw.type = "strings" -> raw.strings
                        [] raw.type = "array" ->
                               [i \in DOMAIN kept |-> kept[i].string]
                        [] OTHER -> <<>>
        BY DEF Tags
      <4> HIDE DEF raw
      <4>4. kept = values
        BY <3>4, <3>5, <4>2
      <4> HIDE DEF kept
      <4> QED
        BY <4>2, <4>3, <4>4
    <3>7. [i \in DOMAIN values |-> values[i].string] = Tags(n)
      BY <3>1, <3>2
    <3> QED
      BY <3>6, <3>7
  <2>2. CASE "tags" \in DOMAIN n.normal /\ n.normal["tags"].type # "strings"
    <3>1. new["tags"] = n.normal["tags"] /\ "tags" \in DOMAIN new
      BY <1>2, <1>4, <2>2
    <3> QED
      BY <1>3, <2>2, <3>1 DEF Tags
  <2>3. CASE "tags" \notin DOMAIN n.normal
    BY <1>2, <1>3, <2>3 DEF Tags
  <2> QED
    BY <2>1, <2>2, <2>3
<1>7. IsJson(m)
  BY <1>2, <1>3, <1>5 DEF IsJson
<1>8. IsNode(m)
  <2>1. n.runList \in Seq(Strings) /\ Tags(n) \in Seq(Strings)
    BY DEF IsNode
  <2> QED
    BY <1>2, <1>3, <1>5, <1>6, <2>1 DEF IsNode
<1> QED
  BY <1>2, <1>3, <1>4, <1>6, <1>7, <1>8

LEMMA DigOne ==
    ASSUME NEW m, NEW k
    PROVE  Dig(m, <<k>>) = IF k \in DOMAIN m THEN m[k] ELSE Missing
<1>1. ASSUME NEW S, NEW s \in Seq(S), s = <<>>, NEW x \in S, x = k
      PROVE  Fold("dig", <<>>, Map(m), Append(s, x)) =
                 One("dig", <<>>, Fold("dig", <<>>, Map(m), s), x)
  BY FoldAppend
<1>2. \A s, x : s = <<>> /\ x = k =>
          Fold("dig", <<>>, Map(m), Append(s, x)) =
              One("dig", <<>>, Fold("dig", <<>>, Map(m), s), x)
  <2> TAKE s, x
  <2> HAVE s = <<>> /\ x = k
  <2> DEFINE S == {k}
  <2>1. s \in Seq(S) /\ x \in S
    OBVIOUS
  <2> HIDE DEF S
  <2> QED
    BY <1>1, <2>1
<1>3. Fold("dig", <<>>, Map(m), <<k>>) =
          One("dig", <<>>, Fold("dig", <<>>, Map(m), <<>>), k)
  <2>1. Append(<<>>, k) = <<k>>
    OBVIOUS
  <2> QED
    BY <1>2, <2>1, Zenon
<1>4. Fold("dig", <<>>, Map(m), <<>>) = Map(m)
  BY FoldEmpty
<1>5. Dig(m, <<k>>) = Fold("dig", <<>>, Map(m), <<k>>)
  BY DigIsFold
<1> QED
  BY <1>3, <1>4, <1>5 DEF One, Map

-----------------------------------------------------------------------------
(* NodeEdit: one more edit. What the edits so far have done exactly, they  *)
(* have done exactly with the next one.                                    *)

LEMMA MoreEdits ==
    ASSUME NEW edits \in Seq(Edits), NEW edit \in Edits, NEW ops
    PROVE  /\ Append(edits, edit) \in Seq(Edits)
           /\ Len(edits) \in Nat /\ Named(edits, ops) \subseteq 1..Len(edits)
           /\ Append(edits, edit)[Len(edits) + 1] = edit
           /\ \A i \in Named(edits, ops) : Append(edits, edit)[i] = edits[i]
           /\ Named(Append(edits, edit), ops) = Named(edits, ops) \cup
                  (IF edit.op \in ops THEN {Len(edits) + 1} ELSE {})
<1> DEFINE more == Append(edits, edit)
           n == Len(edits)
<1>1. /\ more \in Seq(Edits) /\ n \in Nat /\ Len(more) = n + 1
      /\ more[n + 1] = edit /\ \A i \in 1..n : more[i] = edits[i]
      /\ DOMAIN edits = 1..n /\ DOMAIN more = 1..(n + 1)
  OBVIOUS
<1> HIDE DEF more, n
<1>2. Named(edits, ops) \subseteq 1..n
  BY <1>1 DEF Named
<1>3. Named(more, ops) = Named(edits, ops) \cup
          (IF edit.op \in ops THEN {n + 1} ELSE {})
  BY <1>1 DEF Named
<1>4. \A i \in Named(edits, ops) : more[i] = edits[i]
  BY <1>1, <1>2
<1> QED
  BY <1>1, <1>2, <1>3, <1>4 DEF more, n

LEMMA MoreTouched ==
    ASSUME NEW edits \in Seq(Edits), NEW edit \in Edits, NEW ops
    PROVE  Touched(Append(edits, edit), ops) = Touched(edits, ops) \cup
               (IF edit.op \in ops THEN ToSet(edit.items) ELSE {})
<1> DEFINE more == Append(edits, edit)
           n == Len(edits)
<1>1. /\ n \in Nat /\ Named(edits, ops) \subseteq 1..n /\ more[n + 1] = edit
      /\ \A i \in Named(edits, ops) : more[i] = edits[i]
      /\ Named(more, ops) = Named(edits, ops) \cup
             (IF edit.op \in ops THEN {n + 1} ELSE {})
  BY MoreEdits
<1> HIDE DEF more, n
<1>2. \A x : x \in Touched(more, ops) <=>
              \E i \in Named(more, ops) : x \in ToSet(more[i].items)
  BY DEF Touched
<1>3. \A x : x \in Touched(edits, ops) <=>
              \E i \in Named(edits, ops) : x \in ToSet(edits[i].items)
  BY DEF Touched
<1>4. \A x : x \in Touched(more, ops) <=>
              \/ x \in Touched(edits, ops)
              \/ edit.op \in ops /\ x \in ToSet(edit.items)
  BY <1>1, <1>2, <1>3
<1>5. Touched(more, ops) = Touched(edits, ops) \cup
          (IF edit.op \in ops THEN ToSet(edit.items) ELSE {})
  BY <1>4
<1> QED
  BY <1>5 DEF more

LEMMA ExpectedStep ==
    ASSUME NEW edits \in Seq(Edits), NEW edit \in Edits, NEW add, NEW remove,
           NEW before, NEW s
    PROVE  Expected(Append(edits, edit), add, remove, before, s) <=>
               IF edit.op \in {add, remove} /\ Contains(edit.items, s)
               THEN edit.op = add
               ELSE Expected(edits, add, remove, before, s)
<1> DEFINE more == Append(edits, edit)
           n == Len(edits)
           ops == {add, remove}
           old == {i \in Named(edits, ops) : Contains(edits[i].items, s)}
           new == {i \in Named(more, ops) : Contains(more[i].items, s)}
<1>1. /\ n \in Nat /\ Named(edits, ops) \subseteq 1..n /\ more[n + 1] = edit
      /\ \A i \in Named(edits, ops) : more[i] = edits[i]
      /\ Named(more, ops) = Named(edits, ops) \cup
             (IF edit.op \in ops THEN {n + 1} ELSE {})
  BY MoreEdits
<1>2. Expected(edits, add, remove, before, s) <=>
          IF old = {} THEN Contains(before, s)
          ELSE \E i \in old : edits[i].op = add /\ \A j \in old : j <= i
  BY DEF Expected
<1>3. Expected(more, add, remove, before, s) <=>
          IF new = {} THEN Contains(before, s)
          ELSE \E i \in new : more[i].op = add /\ \A j \in new : j <= i
  BY DEF Expected
<1> HIDE DEF more, n
<1>4. /\ old \subseteq 1..n /\ \A i \in old : more[i] = edits[i]
      /\ new = old \cup (IF edit.op \in ops /\ Contains(edit.items, s)
                         THEN {n + 1} ELSE {})
  BY <1>1
<1> HIDE DEF old, new
<1>5. CASE edit.op \in ops /\ Contains(edit.items, s)
  <2>1. new = old \cup {n + 1} /\ new # {}
    BY <1>4, <1>5
  <2>2. \A j \in new : j <= n + 1
    BY <1>1, <1>4, <2>1
  <2>3. \A i \in old : ~(n + 1 <= i)
    BY <1>1, <1>4
  <2>4. Expected(more, add, remove, before, s) <=> edit.op = add
    BY <1>1, <1>3, <2>1, <2>2, <2>3
  <2> QED
    BY <1>5, <2>4 DEF more
<1>6. CASE ~(edit.op \in ops /\ Contains(edit.items, s))
  <2>1. new = old
    BY <1>4, <1>6
  <2>2. Expected(more, add, remove, before, s) <=>
            Expected(edits, add, remove, before, s)
    BY <1>2, <1>3, <1>4, <2>1
  <2> QED
    BY <1>6, <2>2 DEF more
<1> QED
  BY <1>5, <1>6

Changed(edit, add, remove, list) ==
    IF edit.op = add THEN appendMissing(list, edit.items)
    ELSE IF edit.op = remove THEN without(list, edit.items)
    ELSE list

LEMMA ChangedFacts ==
    ASSUME NEW edit \in Edits, NEW add, NEW remove, NEW list \in Seq(Strings)
    PROVE  /\ Changed(edit, add, remove, list) \in Seq(Strings)
           /\ IsInjective(list) =>
                 IsInjective(Changed(edit, add, remove, list))
<1>1. edit.items \in Seq(Strings)
  BY DEF Edits
<1>2. Appends(Strings, list, edit.items, {})
  BY <1>1, AppendsFacts
<1>3. Omits(Strings, list, ToSet(edit.items), {})
  BY OmitFacts
<1> QED
  BY <1>2, <1>3 DEF Changed, Appends, Omits, without

LEMMA ExactListStep ==
    ASSUME NEW edits \in Seq(Edits), NEW edit \in Edits, NEW add, NEW remove,
           add # remove,
           NEW before \in Seq(Strings), NEW after \in Seq(Strings),
           ExactList(edits, add, remove, before, after)
    PROVE  ExactList(Append(edits, edit), add, remove, before,
                     Changed(edit, add, remove, after))
<1> DEFINE more == Append(edits, edit)
           ops == {add, remove}
           T == Touched(edits, ops)
           I == ToSet(edit.items)
           T2 == Touched(more, ops)
           new == Changed(edit, add, remove, after)
<1>1. edit.items \in Seq(Strings)
  BY DEF Edits
<1>2. T2 = T \cup (IF edit.op \in ops THEN I ELSE {})
  BY MoreTouched
<1>3. /\ Omit(after, T) = Omit(before, T)
      /\ \A s \in Strings :
            Contains(after, s) <=> Expected(edits, add, remove, before, s)
  BY DEF ExactList
<1>4. new \in Seq(Strings)
  BY ChangedFacts
<1>5. \A s : Contains(after, s) <=> s \in ToSet(after)
  BY ContainsIsIn
<1>6. \A s : Contains(edit.items, s) <=> s \in I
  BY <1>1, ContainsIsIn
<1>7. \A s : Contains(new, s) <=> s \in ToSet(new)
  BY <1>4, ContainsIsIn
<1>8. \A s : Expected(more, add, remove, before, s) <=>
               IF edit.op \in ops /\ s \in I THEN edit.op = add
               ELSE Expected(edits, add, remove, before, s)
  BY <1>6, ExpectedStep
<1>9. /\ ToSet(new) = IF edit.op = add THEN ToSet(after) \cup I
                      ELSE IF edit.op = remove THEN ToSet(after) \ I
                      ELSE ToSet(after)
      /\ Omit(new, T2) = Omit(after, T2)
  <2>1. CASE edit.op = add
    <3>1. Appends(Strings, after, edit.items, T2)
      BY <1>1, AppendsFacts
    <3>2. new = appendMissing(after, edit.items)
      BY <2>1 DEF Changed
    <3>3. I \subseteq T2
      BY <1>2, <2>1
    <3> HIDE DEF new, T2
    <3> QED
      BY <2>1, <3>1, <3>2, <3>3 DEF Appends
  <2>2. CASE edit.op = remove
    <3>1. Omits(Strings, after, I, T2)
      BY OmitFacts
    <3>2. new = Omit(after, I)
      BY <2>2 DEF Changed, without
    <3>3. I \cup T2 = T2
      BY <1>2, <2>2
    <3> HIDE DEF new, T2
    <3>4. ToSet(new) = ToSet(after) \ I
      BY <3>1, <3>2 DEF Omits
    <3>5. Omit(new, T2) = Omit(after, T2)
      BY <3>1, <3>2, <3>3 DEF Omits
    <3> QED
      BY <2>2, <3>4, <3>5
  <2>3. CASE edit.op # add /\ edit.op # remove
    BY <2>3 DEF Changed
  <2> QED
    BY <2>1, <2>2, <2>3
<1>10. Omit(after, T2) = Omit(before, T2)
  <2> DEFINE W == IF edit.op \in ops THEN I ELSE {}
  <2>1. Omits(Strings, after, T, W) /\ Omits(Strings, before, T, W)
    BY OmitFacts
  <2> HIDE DEF T, W
  <2>2. Omit(after, T \cup W) = Omit(before, T \cup W)
    BY <1>3, <2>1 DEF Omits
  <2> QED
    BY <1>2, <2>2 DEF W
<1> HIDE DEF new, more, T, T2, I
<1>11. ASSUME NEW s \in Strings
       PROVE  Contains(new, s) <=> Expected(more, add, remove, before, s)
  BY <1>3, <1>5, <1>7, <1>8, <1>9
<1>12. ExactList(more, add, remove, before, new)
  BY <1>9, <1>10, <1>11 DEF ExactList, T2
<1> QED
  BY <1>12 DEF more, new

(* What each edit does to a node.                                          *)
TagOps == {"addTags", "removeTags"}

LEMMA ApplyFacts ==
    ASSUME NEW e \in Editors, NEW edit \in Edits, NEW n, IsNode(n),
           NEW m, m = Apply(e, edit, n)
    PROVE  /\ IsNode(m)
           /\ Tags(m) = Changed(edit, "addTags", "removeTags", Tags(n))
           /\ m.runList = Changed(edit, "addRunList", "removeRunList", n.runList)
           /\ IF edit.op \in TagOps
              THEN \E tags \in Seq(Strings) : m = SetTags(n, tags)
              ELSE m.normal = n.normal
           /\ m.override = n.override /\ m.default = n.default
           /\ m.settings = n.settings
           /\ m.automatic = IF edit.op = "report" THEN ReportOf[e]
                            ELSE n.automatic
<1>1. /\ edit.op \in Ops /\ Tags(n) \in Seq(Strings) /\ n.runList \in Seq(Strings)
      /\ n = [runList |-> n.runList, automatic |-> n.automatic,
              override |-> n.override, normal |-> n.normal,
              default |-> n.default, settings |-> n.settings]
  BY DEF IsNode, Edits
<1>2. CASE edit.op \in TagOps
  <2> DEFINE tags == Changed(edit, "addTags", "removeTags", Tags(n))
  <2>1. m = SetTags(n, tags)
    BY <1>2 DEF Apply, Changed, TagOps
  <2>2. tags \in Seq(Strings)
    BY <1>1, ChangedFacts
  <2> HIDE DEF tags
  <2>3. /\ IsNode(m) /\ Tags(m) = tags /\ m.runList = n.runList /\ Kept(n, m)
    BY <2>1, <2>2, SetTagsFacts
  <2>4. Changed(edit, "addRunList", "removeRunList", n.runList) = n.runList
    BY <1>2 DEF Changed, TagOps
  <2>5. edit.op # "report"
    BY <1>2 DEF TagOps
  <2> QED
    BY <1>2, <2>1, <2>2, <2>3, <2>4, <2>5 DEF Kept, tags
<1>3. CASE edit.op \notin TagOps
  <2> DEFINE list == Changed(edit, "addRunList", "removeRunList", n.runList)
             found == IF edit.op = "report" THEN ReportOf[e] ELSE n.automatic
  <2>1. m = [runList |-> list, automatic |-> found, override |-> n.override,
             normal |-> n.normal, default |-> n.default,
             settings |-> n.settings]
    <3>1. CASE edit.op = "addRunList"
      BY <1>1, <3>1 DEF Apply, Changed
    <3>2. CASE edit.op = "removeRunList"
      BY <1>1, <3>2 DEF Apply, Changed
    <3>3. CASE edit.op = "report"
      BY <1>1, <3>3 DEF Apply, Changed
    <3> QED
      BY <1>1, <1>3, <3>1, <3>2, <3>3 DEF Ops, TagOps
  <2>2. list \in Seq(Strings)
    BY <1>1, ChangedFacts
  <2>3. Changed(edit, "addTags", "removeTags", Tags(n)) = Tags(n)
    BY <1>3 DEF Changed, TagOps
  <2> HIDE DEF list, found
  <2>4. /\ m.runList = list /\ m.automatic = found /\ m.override = n.override
        /\ m.normal = n.normal /\ m.default = n.default
        /\ m.settings = n.settings
        /\ m = [runList |-> m.runList, automatic |-> m.automatic,
                override |-> m.override, normal |-> m.normal,
                default |-> m.default, settings |-> m.settings]
    BY <2>1
  <2>5. Tags(m) = Tags(n)
    BY <2>4 DEF Tags
  <2>6. IsNode(m)
    BY <2>2, <2>4, <2>5 DEF IsNode
  <2> QED
    BY <1>3, <2>3, <2>4, <2>5, <2>6 DEF list, found
<1> QED
  BY <1>2, <1>3

Same(m, n, k) == Dig(m.normal, <<k>>) = Dig(n.normal, <<k>>)

LEMMA ExactStep ==
    ASSUME NEW e \in Editors, NEW edits \in Seq(Edits), NEW edit \in Edits,
           NEW before, IsNode(before), NEW n, IsNode(n),
           Exact(edits, before, n)
    PROVE  Exact(Append(edits, edit), before, Apply(e, edit, n))
<1> DEFINE more == Append(edits, edit)
           m == Apply(e, edit, n)
           tagged(es) == Named(es, {"addTags", "removeTags"}) # {}
           keys(x) == DOMAIN before.normal \cup DOMAIN x.normal
<1>1. /\ IsNode(m)
      /\ Tags(m) = Changed(edit, "addTags", "removeTags", Tags(n))
      /\ m.runList = Changed(edit, "addRunList", "removeRunList", n.runList)
      /\ IF edit.op \in TagOps
         THEN \E tags \in Seq(Strings) : m = SetTags(n, tags)
         ELSE m.normal = n.normal
      /\ m.override = n.override /\ m.default = n.default
      /\ m.settings = n.settings
      /\ m.automatic = IF edit.op = "report" THEN ReportOf[e] ELSE n.automatic
  BY ApplyFacts
<1>2. /\ ExactList(edits, "addTags", "removeTags", Tags(before), Tags(n))
      /\ ExactList(edits, "addRunList", "removeRunList", before.runList,
                   n.runList)
      /\ \A k \in keys(n) \ (IF tagged(edits) THEN {"tags"} ELSE {}) :
            Same(n, before, k)
      /\ n.override = before.override /\ n.default = before.default
      /\ n.settings = before.settings
      /\ Named(edits, {"report"}) = {} => n.automatic = before.automatic
  BY DEF Exact, Same
<1>3. /\ Tags(before) \in Seq(Strings) /\ Tags(n) \in Seq(Strings)
      /\ before.runList \in Seq(Strings) /\ n.runList \in Seq(Strings)
  BY DEF IsNode
<1> HIDE DEF m
<1>4. ExactList(more, "addTags", "removeTags", Tags(before), Tags(m))
  <2>1. "addTags" # "removeTags"
    OBVIOUS
  <2> QED
    BY <1>1, <1>2, <1>3, <2>1, ExactListStep
<1>5. ExactList(more, "addRunList", "removeRunList", before.runList, m.runList)
  <2>1. "addRunList" # "removeRunList"
    OBVIOUS
  <2> QED
    BY <1>1, <1>2, <1>3, <2>1, ExactListStep
<1>6. /\ tagged(more) <=> tagged(edits) \/ edit.op \in TagOps
      /\ Named(more, {"report"}) = {} <=>
            Named(edits, {"report"}) = {} /\ edit.op # "report"
  <2>1. Named(more, TagOps) = Named(edits, TagOps) \cup
            (IF edit.op \in TagOps THEN {Len(edits) + 1} ELSE {})
    BY MoreEdits
  <2>2. Named(more, {"report"}) = Named(edits, {"report"}) \cup
            (IF edit.op \in {"report"} THEN {Len(edits) + 1} ELSE {})
    BY MoreEdits
  <2> HIDE DEF more
  <2> QED
    BY <2>1, <2>2 DEF TagOps
<1> HIDE DEF more
<1>7. ASSUME NEW k \in keys(m) \ (IF tagged(more) THEN {"tags"} ELSE {})
      PROVE  Same(m, before, k)
  <2>1. CASE edit.op \in TagOps
    <3>1. PICK tags \in Seq(Strings) : m = SetTags(n, tags)
      BY <1>1, <2>1
    <3>2. /\ DOMAIN m.normal = DOMAIN n.normal \cup {"tags"}
          /\ \A i \in DOMAIN n.normal : i # "tags" =>
                m.normal[i] = n.normal[i]
      BY <3>1, SetTagsFacts
    <3>3. k # "tags"
      BY <1>6, <1>7, <2>1
    <3>4. k \in keys(n)
      BY <1>7, <3>2, <3>3
    <3>5. Same(n, before, k)
      BY <1>2, <3>3, <3>4
    <3>6. Dig(m.normal, <<k>>) = Dig(n.normal, <<k>>)
      BY <3>2, <3>3, DigOne
    <3> QED
      BY <3>5, <3>6 DEF Same
  <2>2. CASE edit.op \notin TagOps
    <3>1. m.normal = n.normal
      BY <1>1, <2>2
    <3>2. k \in keys(n) \ (IF tagged(edits) THEN {"tags"} ELSE {})
      BY <1>6, <1>7, <2>2, <3>1
    <3>3. Same(n, before, k)
      BY <1>2, <3>2
    <3> QED
      BY <3>1, <3>3 DEF Same
  <2> QED
    BY <2>1, <2>2
<1>8. Named(more, {"report"}) = {} => m.automatic = before.automatic
  BY <1>1, <1>2, <1>6
<1>9. Exact(more, before, m)
  BY <1>1, <1>2, <1>4, <1>5, <1>7, <1>8 DEF Exact, Same
<1> QED
  BY <1>9 DEF more, m

LEMMA ExactBegins == ASSUME NEW n, IsNode(n) PROVE Exact(<<>>, n, n)
<1>1. \A ops : Named(<<>>, ops) = {}
  BY DEF Named
<1>2. \A add, remove, list, s :
          Expected(<<>>, add, remove, list, s) <=> Contains(list, s)
  BY <1>1 DEF Expected
<1> QED
  BY <1>1, <1>2 DEF Exact, ExactList

(* ... and as well on the server.                                          *)
LEMMA ExactStored ==
    ASSUME NEW edits, NEW before, IsNode(before), IsJson(before),
           NEW n, IsNode(n), Exact(edits, before, n)
    PROVE  Exact(edits, before, Stored(n))
<1> DEFINE m == Stored(n)
           tagged == Named(edits, {"addTags", "removeTags"}) # {}
           dropped == IF tagged THEN {"tags"} ELSE {}
<1>1. /\ Tags(m) = Tags(n) /\ m.runList = n.runList /\ Kept(n, m)
      /\ DOMAIN m.normal = DOMAIN n.normal
      /\ \A k \in DOMAIN n.normal :
            IF n.normal[k].type = "strings"
            THEN /\ k = "tags"
                 /\ m.normal[k] = Array([i \in DOMAIN Tags(n) |->
                                             String(Tags(n)[i])])
            ELSE m.normal[k] = n.normal[k]
  BY StoredFacts
<1>2. \A k \in (DOMAIN before.normal \cup DOMAIN n.normal) \ dropped :
          Same(n, before, k)
  BY DEF Exact, Same
<1> HIDE DEF m, dropped
<1>3. ASSUME NEW k \in (DOMAIN before.normal \cup DOMAIN m.normal) \ dropped
      PROVE  Same(m, before, k)
  <2>1. Same(n, before, k)
    BY <1>1, <1>2, <1>3
  <2>2. CASE k \in DOMAIN n.normal
    <3>1. n.normal[k].type # "strings"
      <4>1. n.normal[k] = IF k \in DOMAIN before.normal THEN before.normal[k]
                          ELSE Missing
        BY <2>1, <2>2, DigOne DEF Same
      <4>2. Missing.type # "strings"
        BY DEF Missing
      <4> QED
        BY <4>1, <4>2 DEF IsJson
    <3>2. m.normal[k] = n.normal[k]
      BY <1>1, <2>2, <3>1
    <3> QED
      BY <1>1, <2>1, <2>2, <3>2, DigOne DEF Same
  <2>3. CASE k \notin DOMAIN n.normal
    BY <1>1, <2>1, <2>3, DigOne DEF Same
  <2> QED
    BY <2>2, <2>3
<1>4. Exact(edits, before, m)
  BY <1>1, <1>3 DEF Exact, Same, Kept, dropped
<1> QED
  BY <1>4 DEF m

-----------------------------------------------------------------------------
(* NodeEdit: lookups. Dig walks one path, Entries all of them at once.     *)

Root(m) == [path |-> <<>>, value |-> Map(m)]
Count(d) == [i \in 1..d |-> i]

LEMMA EntriesAre ==
    ASSUME NEW m, NEW d \in Nat
    PROVE  /\ Entries(m, 0) = {Root(m)}
           /\ \A r : r \in Entries(m, d + 1) <=>
                 \E p \in Entries(m, d) :
                     /\ p.value.type = "map"
                     /\ \E k \in DOMAIN p.value.map :
                          r = [path |-> Append(p.path, k),
                               value |-> p.value.map[k]]
<1>1. ASSUME NEW n \in Nat
      PROVE  /\ Count(n) \in Seq(Nat) /\ Len(Count(n)) = n
             /\ Entries(m, n) = Fold("deep", <<>>, {Root(m)}, Count(n))
  <2>1. Count(n) \in Seq(Nat) /\ Len(Count(n)) = n
    BY DEF Count
  <2>2. Entries(m, n) = Fold("deep", <<>>, {Root(m)}, Count(n))
    BY <2>1 DEF Entries, Fold, Folding, One, Root
  <2> QED
    BY <2>1, <2>2
<1>2. Entries(m, 0) = {Root(m)}
  <2>1. Count(0) = <<>>
    BY DEF Count
  <2>2. Entries(m, 0) = Fold("deep", <<>>, {Root(m)}, Count(0))
    BY <1>1
  <2> QED
    BY <2>1, <2>2, FoldEmpty
<1>3. Count(d + 1) = Append(Count(d), d + 1)
  BY DEF Count
<1> DEFINE maps == {q \in Entries(m, d) : q.value.type = "map"}
<1>4. Entries(m, d + 1) = UNION {Below(p) : p \in maps}
  <2>1. d + 1 \in Nat
    OBVIOUS
  <2> DEFINE c == Count(d)
             e == d + 1
             roots == {Root(m)}
  <2>2. /\ c \in Seq(Nat) /\ Entries(m, d) = Fold("deep", <<>>, roots, c)
        /\ Entries(m, e) = Fold("deep", <<>>, roots, Append(c, e))
    BY <1>1, <1>3, <2>1
  <2>3. e \in Nat
    BY <2>1
  <2> HIDE DEF c, e, roots
  <2>4. Fold("deep", <<>>, roots, Append(c, e)) =
            One("deep", <<>>, Fold("deep", <<>>, roots, c), e)
    BY <2>2, <2>3, FoldAppend
  <2>5. Entries(m, e) = One("deep", <<>>, Entries(m, d), e)
    BY <2>2, <2>4
  <2> QED
    BY <2>5 DEF One, e
<1>5. \A r : r \in Entries(m, d + 1) <=> \E p \in maps : r \in Below(p)
  BY <1>4
<1> QED
  BY <1>2, <1>5 DEF Below

LEMMA AppendsDiffer ==
    ASSUME NEW S, NEW s \in Seq(S), NEW t \in Seq(S), NEW x \in S, NEW y \in S,
           Append(s, x) = Append(t, y)
    PROVE  s = t /\ x = y
<1> DEFINE a == Append(s, x)
           b == Append(t, y)
<1>1. /\ Len(a) = Len(s) + 1 /\ a[Len(s) + 1] = x
      /\ \A i \in 1..Len(s) : a[i] = s[i]
  OBVIOUS
<1>2. /\ Len(b) = Len(t) + 1 /\ b[Len(t) + 1] = y
      /\ \A i \in 1..Len(t) : b[i] = t[i]
  OBVIOUS
<1>3. a = b
  OBVIOUS
<1> HIDE DEF a, b
<1>4. Len(s) = Len(t) /\ Len(s) \in Nat
  BY <1>1, <1>2, <1>3
<1>5. x = y /\ \A i \in 1..Len(s) : s[i] = t[i]
  BY <1>1, <1>2, <1>3, <1>4
<1> QED
  BY <1>4, <1>5

LEMMA PrefixAppends ==
    ASSUME NEW S, NEW s \in Seq(S), NEW d \in 0..(Len(s) - 1)
    PROVE  /\ SubSeq(s, 1, d) \in Seq(S) /\ s[d + 1] \in S
           /\ SubSeq(s, 1, d + 1) = Append(SubSeq(s, 1, d), s[d + 1])
<1> DEFINE a == SubSeq(s, 1, d)
           b == SubSeq(s, 1, d + 1)
           c == Append(a, s[d + 1])
<1>1. d \in 0..Len(s) /\ d + 1 \in 0..Len(s) /\ d + 1 \in 1..Len(s)
  OBVIOUS
<1>2. a \in Seq(S) /\ Len(a) = d /\ \A i \in 1..d : a[i] = s[i]
  BY <1>1, SubSeqFacts
<1>3. b \in Seq(S) /\ Len(b) = d + 1 /\ \A i \in 1..(d + 1) : b[i] = s[i]
  BY <1>1, SubSeqFacts
<1>4. s[d + 1] \in S
  BY <1>1
<1> HIDE DEF a, b
<1>5. /\ c \in Seq(S) /\ Len(c) = d + 1 /\ c[d + 1] = s[d + 1]
      /\ \A i \in 1..d : c[i] = a[i]
  BY <1>2, <1>4
<1> HIDE DEF c
<1>6. \A i \in 1..(d + 1) : c[i] = b[i]
  BY <1>1, <1>2, <1>3, <1>5
<1>7. b = c
  BY <1>3, <1>5, <1>6
<1> QED
  BY <1>2, <1>4, <1>7 DEF a, b, c

(* After d keys of a name: Dig is where Entries has the path, or nowhere.  *)
Walked(m, name, d) == Fold("dig", <<>>, Map(m), SubSeq(name, 1, d))

InStep(m, name, d) ==
    /\ \A p \in Entries(m, d) :
        /\ p.path \in Seq(Keys)
        /\ p.value.type = "map" => DOMAIN p.value.map \subseteq Keys
        /\ p.path = SubSeq(name, 1, d) =>
               p.value = Walked(m, name, d) /\ p.value # Missing
    /\ Walked(m, name, d) # Missing =>
          [path |-> SubSeq(name, 1, d), value |-> Walked(m, name, d)]
              \in Entries(m, d)

LEMMA InStepNext ==
    ASSUME NEW m, IsScope(m), NEW name \in Names, NEW d \in 0..(Len(name) - 1),
           InStep(m, name, d)
    PROVE  InStep(m, name, d + 1)
<1> DEFINE here == SubSeq(name, 1, d)
           next == SubSeq(name, 1, d + 1)
           key == name[d + 1]
           v == Walked(m, name, d)
           w == Walked(m, name, d + 1)
<1>0. name \in Seq(Keys) /\ d \in Nat /\ d + 1 \in 1..Len(name)
  BY NamesAssumption
<1>1. here \in Seq(Keys) /\ key \in Keys /\ next = Append(here, key)
  BY <1>0, PrefixAppends
<1>2. w = IF v.type = "map" /\ key \in DOMAIN v.map THEN v.map[key] ELSE Missing
  <2>1. w = Fold("dig", <<>>, Map(m), next) /\ v = Fold("dig", <<>>, Map(m), here)
    BY DEF Walked
  <2> HIDE DEF here, next, key, v, w
  <2>2. w = One("dig", <<>>, v, key)
    BY <1>1, <2>1, FoldAppend
  <2> QED
    BY <2>2 DEF One
<1>3. \A p \in Entries(m, d + 1) : IsValue(p.value)
  BY <1>0 DEF IsScope
<1>4. \A r : r \in Entries(m, d + 1) <=>
           \E p \in Entries(m, d) :
               /\ p.value.type = "map"
               /\ \E k \in DOMAIN p.value.map :
                    r = [path |-> Append(p.path, k), value |-> p.value.map[k]]
  BY <1>0, EntriesAre
<1>5. /\ \A p \in Entries(m, d) :
           /\ p.path \in Seq(Keys)
           /\ p.value.type = "map" => DOMAIN p.value.map \subseteq Keys
           /\ p.path = here => p.value = v /\ p.value # Missing
      /\ v # Missing => [path |-> here, value |-> v] \in Entries(m, d)
  BY DEF InStep
<1> HIDE DEF here, next, key, v, w
<1>6. ASSUME NEW r \in Entries(m, d + 1)
      PROVE  /\ r.path \in Seq(Keys)
             /\ r.value.type = "map" => DOMAIN r.value.map \subseteq Keys
             /\ r.path = next => r.value = w /\ r.value # Missing
  <2>1. PICK p \in Entries(m, d) :
            /\ p.value.type = "map"
            /\ \E k \in DOMAIN p.value.map :
                 r = [path |-> Append(p.path, k), value |-> p.value.map[k]]
    BY <1>4
  <2>2. PICK k \in DOMAIN p.value.map :
            r = [path |-> Append(p.path, k), value |-> p.value.map[k]]
    BY <2>1
  <2>3. k \in Keys /\ p.path \in Seq(Keys)
        /\ r.path = Append(p.path, k) /\ r.value = p.value.map[k]
    BY <1>5, <2>1, <2>2
  <2>4. r.path \in Seq(Keys)
    BY <2>3
  <2>5. r.value # Missing
        /\ (r.value.type = "map" => DOMAIN r.value.map \subseteq Keys)
    BY <1>3 DEF IsValue
  <2>6. ASSUME r.path = next PROVE r.value = w
    <3> DEFINE path == p.path
    <3>1. /\ path \in Seq(Keys) /\ here \in Seq(Keys) /\ k \in Keys
          /\ key \in Keys /\ Append(path, k) = Append(here, key)
      BY <1>1, <2>3, <2>6
    <3> HIDE DEF path
    <3>2. path = here /\ k = key
      BY <3>1, AppendsDiffer
    <3>3. p.path = here
      BY <3>2 DEF path
    <3>4. p.value = v
      BY <1>5, <3>3
    <3> QED
      BY <1>2, <2>1, <2>2, <2>3, <3>2, <3>4
  <2> QED
    BY <2>4, <2>5, <2>6
<1>7. ASSUME w # Missing PROVE [path |-> next, value |-> w] \in Entries(m, d + 1)
  <2>1. v.type = "map" /\ key \in DOMAIN v.map /\ w = v.map[key]
    BY <1>2, <1>7
  <2>2. v # Missing
    BY <2>1 DEF Missing
  <2> DEFINE p == [path |-> here, value |-> v]
  <2>3. p \in Entries(m, d) /\ p.value = v /\ p.path = here
    BY <1>5, <2>2
  <2> HIDE DEF p
  <2> QED
    BY <1>1, <1>4, <2>1, <2>3
<1>8. InStep(m, name, d + 1)
  BY <1>6, <1>7 DEF InStep, next, w
<1> QED
  BY <1>8

LEMMA DigFinds ==
    ASSUME NEW m, IsScope(m), NEW name \in Names
    PROVE  /\ HasPath(m, name) <=> Dig(m, name) # Missing
           /\ Dig(m, name) # Missing =>
                 /\ [path |-> name, value |-> Dig(m, name)]
                        \in Entries(m, Len(name))
                 /\ IsValue(Dig(m, name))
<1> DEFINE T == {d \in 0..Len(name) : ~InStep(m, name, d)}
<1>0. name \in Seq(Keys) /\ name # <<>> /\ Len(name) \in Nat \ {0}
  BY NamesAssumption
<1>1. ASSUME T # {} PROVE FALSE
  <2>1. PICK d \in T : \A y \in T : d <= y
    <3>1. T \in SUBSET Nat
      OBVIOUS
    <3> QED
      BY <1>1, <3>1, LeastNat
  <2>2. CASE d = 0
    <3>1. SubSeq(name, 1, 0) = <<>>
      BY <1>0
    <3>2. Walked(m, name, 0) = Map(m)
      BY <3>1, FoldEmpty DEF Walked
    <3>3. 0 \in Nat
      OBVIOUS
    <3>4. Entries(m, 0) = {Root(m)}
      BY <3>3, EntriesAre
    <3>5. Map(m) # Missing /\ Map(m).map = m
      BY DEF Map, Missing
    <3>6. DOMAIN m \subseteq Keys
      BY DEF IsScope
    <3>7. Root(m).path = <<>> /\ Root(m).value = Map(m)
          /\ Root(m) = [path |-> <<>>, value |-> Map(m)]
      BY DEF Root
    <3>8. <<>> \in Seq(Keys)
      OBVIOUS
    <3>9. InStep(m, name, 0)
      BY <3>1, <3>2, <3>4, <3>5, <3>6, <3>7, <3>8 DEF InStep
    <3> QED
      BY <2>1, <2>2, <3>9
  <2>3. CASE d # 0
    <3>1. d - 1 \in 0..(Len(name) - 1) /\ d - 1 \notin T /\ (d - 1) + 1 = d
          /\ d - 1 \in 0..Len(name)
      BY <1>0, <2>1, <2>3
    <3>2. InStep(m, name, d - 1)
      BY <3>1
    <3>3. InStep(m, name, (d - 1) + 1)
      <4> HIDE DEF T
      <4> QED
        BY <3>1, <3>2, InStepNext
    <3> QED
      BY <2>1, <3>1, <3>3
  <2> QED
    BY <2>2, <2>3
<1>2. InStep(m, name, Len(name))
  BY <1>0, <1>1
<1>3. SubSeq(name, 1, Len(name)) = name
  BY <1>0
<1>4. Walked(m, name, Len(name)) = Dig(m, name)
  BY <1>0, <1>3, DigIsFold DEF Walked
<1>5. /\ \A p \in Entries(m, Len(name)) :
            p.path = name => p.value = Dig(m, name) /\ p.value # Missing
      /\ Dig(m, name) # Missing =>
            [path |-> name, value |-> Dig(m, name)] \in Entries(m, Len(name))
  BY <1>2, <1>3, <1>4 DEF InStep
<1>6. \A p \in Entries(m, Len(name)) : IsValue(p.value)
  BY <1>0 DEF IsScope
<1> DEFINE p0 == [path |-> name, value |-> Dig(m, name)]
<1>7. p0.path = name /\ p0.value = Dig(m, name)
  OBVIOUS
<1>8. Dig(m, name) # Missing => p0 \in Entries(m, Len(name))
  BY <1>5
<1> HIDE DEF p0
<1> QED
  BY <1>5, <1>6, <1>7, <1>8 DEF HasPath

(* A value that is no map may be put into a scope: what is in it, at any   *)
(* depth, was there before or is that value.                               *)
LEMMA ScopeChanges ==
    ASSUME NEW m, IsScope(m), NEW m2,
           \A k \in DOMAIN m2 :
               \/ k \in DOMAIN m /\ m2[k] = m[k]
               \/ k \in Keys /\ IsValue(m2[k]) /\ m2[k].type # "map"
    PROVE  IsScope(m2)
<1> DEFINE Known(d) == \A p \in Entries(m2, d) :
               \/ \E q \in Entries(m, d) : q.value = p.value
               \/ IsValue(p.value) /\ p.value.type # "map"
           T == {d \in Nat : ~Known(d + 1)}
<1>1. Known(1)
  <2>1. /\ 0 \in Nat /\ 0 + 1 = 1
        /\ \A x : Root(x).value.type = "map" /\ Root(x).value.map = x
    BY DEF Root, Map
  <2> SUFFICES ASSUME NEW p \in Entries(m2, 1)
               PROVE  \/ \E q \in Entries(m, 1) : q.value = p.value
                      \/ IsValue(p.value) /\ p.value.type # "map"
    OBVIOUS
  <2>2. Entries(m2, 0) = {Root(m2)} /\ Entries(m, 0) = {Root(m)}
    BY <2>1, EntriesAre
  <2>3. \E k \in DOMAIN m2 : p.value = m2[k]
    BY <2>1, <2>2, EntriesAre
  <2>4. ASSUME NEW k \in DOMAIN m
        PROVE  \E q \in Entries(m, 1) : q.value = m[k]
    <3> DEFINE root == Root(m)
               q == [path |-> Append(root.path, k), value |-> root.value.map[k]]
    <3>1. /\ root \in Entries(m, 0) /\ root.value.type = "map"
          /\ k \in DOMAIN root.value.map /\ q.value = m[k]
      BY <2>1, <2>2
    <3> HIDE DEF root
    <3>2. q \in Entries(m, 0 + 1)
      BY <2>1, <3>1, EntriesAre
    <3> HIDE DEF q
    <3> QED
      BY <2>1, <3>1, <3>2
  <2> QED
    BY <2>3, <2>4
<1>2. ASSUME NEW d \in Nat, Known(d) PROVE Known(d + 1)
  <2> SUFFICES ASSUME NEW p \in Entries(m2, d + 1)
               PROVE  \E q \in Entries(m, d + 1) : q.value = p.value
    OBVIOUS
  <2>1. PICK p2 \in Entries(m2, d) :
            /\ p2.value.type = "map"
            /\ \E k \in DOMAIN p2.value.map : p.value = p2.value.map[k]
    BY EntriesAre
  <2>2. PICK q2 \in Entries(m, d) : q2.value = p2.value
    BY <1>2, <2>1
  <2>3. \A k \in DOMAIN q2.value.map :
            [path |-> Append(q2.path, k), value |-> q2.value.map[k]]
                \in Entries(m, d + 1)
    BY <2>1, <2>2, EntriesAre
  <2> QED
    BY <2>1, <2>2, <2>3
<1> HIDE DEF Known
<1>3. ASSUME T # {} PROVE FALSE
  <2>1. PICK d \in T : \A y \in T : d <= y
    <3>1. T \in SUBSET Nat
      OBVIOUS
    <3> QED
      BY <1>3, <3>1, LeastNat
  <2>2. d # 0
    BY <1>1, <2>1
  <2>3. d - 1 \in Nat /\ d \in Nat /\ (d - 1) + 1 = d /\ ~(d <= d - 1)
    BY <2>1, <2>2
  <2>4. Known((d - 1) + 1)
    BY <2>1, <2>3
  <2> QED
    BY <1>2, <2>1, <2>3, <2>4
<1>4. ASSUME NEW name \in Names, NEW d \in 1..Len(name),
             NEW p \in Entries(m2, d)
      PROVE  IsValue(p.value)
  <2>1. d - 1 \in Nat /\ (d - 1) + 1 = d
    BY NamesAssumption
  <2>2. Known(d)
    BY <1>3, <2>1
  <2> QED
    BY <2>2 DEF Known, IsScope
<1> QED
  BY <1>4 DEF IsScope

LEMMA ReadableIs ==
    ASSUME NEW n
    PROVE  Readable(n) <=> /\ IsScope(n.automatic) /\ IsScope(n.override)
                           /\ IsScope(n.normal) /\ IsScope(n.default)
<1>1. /\ Scopes(n)[1] = n.automatic /\ Scopes(n)[2] = n.override
      /\ Scopes(n)[3] = n.normal /\ Scopes(n)[4] = n.default
  BY DEF Scopes
<1>2. 1..4 = {1, 2, 3, 4}
  OBVIOUS
<1> QED
  BY <1>1, <1>2 DEF Readable

LEMMA ApplyIsReadable ==
    ASSUME NEW e \in Editors, NEW edit \in Edits, NEW n, IsNode(n), Readable(n)
    PROVE  Readable(Apply(e, edit, n))
<1> DEFINE m == Apply(e, edit, n)
<1>1. /\ IF edit.op \in TagOps
         THEN \E tags \in Seq(Strings) : m = SetTags(n, tags)
         ELSE m.normal = n.normal
      /\ m.override = n.override /\ m.default = n.default
      /\ m.settings = n.settings
      /\ m.automatic = IF edit.op = "report" THEN ReportOf[e]
                       ELSE n.automatic
  BY ApplyFacts
<1> HIDE DEF m
<1>2. IsScope(m.normal)
  <2>1. CASE edit.op \in TagOps
    <3>1. PICK tags \in Seq(Strings) : m = SetTags(n, tags)
      BY <1>1, <2>1
    <3>2. /\ DOMAIN m.normal = DOMAIN n.normal \cup {"tags"}
          /\ \A k \in DOMAIN n.normal : k # "tags" =>
                m.normal[k] = n.normal[k]
          /\ m.normal["tags"] = StringSlice(tags)
      BY <3>1, SetTagsFacts
    <3>3. IsValue(StringSlice(tags)) /\ StringSlice(tags).type # "map"
      BY DEF IsValue, StringSlice, Missing
    <3>4. "tags" \in Keys
      BY NamesAssumption
    <3> QED
      BY ReadableIs, <3>2, <3>3, <3>4, ScopeChanges
  <2>2. CASE edit.op \notin TagOps
    BY ReadableIs, <1>1, <2>2
  <2> QED
    BY <2>1, <2>2
<1> QED
  BY ReadableIs, NodesAssumption, <1>1, <1>2 DEF m

LEMMA StoredIsReadable ==
    ASSUME NEW n, IsNode(n), Readable(n)
    PROVE  Readable(Stored(n))
<1> DEFINE m == Stored(n)
           value == Array([i \in DOMAIN Tags(n) |-> String(Tags(n)[i])])
<1>1. /\ Kept(n, m) /\ DOMAIN m.normal = DOMAIN n.normal
      /\ \A k \in DOMAIN n.normal :
            IF n.normal[k].type = "strings"
            THEN k = "tags" /\ m.normal[k] = value
            ELSE m.normal[k] = n.normal[k]
  BY StoredFacts
<1>2. IsValue(value) /\ value.type # "map"
  <2> DEFINE values == [i \in DOMAIN Tags(n) |-> String(Tags(n)[i])]
  <2>1. Tags(n) \in Seq(Strings)
    BY DEF IsNode
  <2>2. values # <<>> =>
            values[1].string \in Strings /\ values[1].type = "string"
    <3> DEFINE t == Tags(n)
    <3>1. t \in Seq(Strings)
      BY <2>1
    <3> HIDE DEF t
    <3> DEFINE list == [i \in DOMAIN t |-> String(t[i])]
    <3>2. ASSUME list # <<>>
          PROVE  list[1].string \in Strings /\ list[1].type = "string"
      <4>1. t # <<>>
        BY <3>1, <3>2
      <4>2. 1 \in DOMAIN t /\ t[1] \in Strings
        BY <3>1, <4>1
      <4>3. list[1] = String(t[1])
        BY <4>2
      <4> HIDE DEF list
      <4> QED
        BY <4>2, <4>3 DEF String
    <3> QED
      BY <3>2 DEF t
  <2> HIDE DEF values
  <2>3. IsValue(Array(values)) /\ Array(values).type # "map"
    BY <2>2 DEF IsValue, Array, Missing
  <2> QED
    BY <2>3 DEF values
<1>3. "tags" \in Keys
  BY NamesAssumption
<1> HIDE DEF m, value
<1>4. IsScope(m.normal)
  BY ReadableIs, <1>1, <1>2, <1>3, ScopeChanges
<1> QED
  BY ReadableIs, <1>1, <1>4 DEF Kept, m

(* The first scope that has the name is the one Attribute takes.           *)
Looked(n, name) ==
    LET having == {i \in 1..4 : HasPath(Scopes(n)[i], name)}
        value == Attribute(n, name)
    IN  /\ having = {} <=> value = Missing
        /\ \A i \in having : (\A j \in having : i <= j) =>
            [path |-> name, value |-> value]
                \in Entries(Scopes(n)[i], Len(name))
        /\ AttributeString(n, name) = NoString <=>
               having = {} \/ value = Array(<<>>)

LEMMA LookedIs ==
    ASSUME NEW n, Readable(n), NEW name \in Names
    PROVE  Looked(n, name)
<1> DEFINE having == {i \in 1..4 : HasPath(Scopes(n)[i], name)}
           value == Attribute(n, name)
<1>1. \A i \in 1..4 :
          /\ HasPath(Scopes(n)[i], name) <=> Dig(Scopes(n)[i], name) # Missing
          /\ Dig(Scopes(n)[i], name) # Missing =>
                /\ [path |-> name, value |-> Dig(Scopes(n)[i], name)]
                       \in Entries(Scopes(n)[i], Len(name))
                /\ IsValue(Dig(Scopes(n)[i], name))
  BY DigFinds DEF Readable
<1>2. having = {i \in 1..4 : Dig(Scopes(n)[i], name) # Missing}
  BY <1>1
<1>3. value = IF having = {} THEN Missing ELSE Dig(Scopes(n)[Min(having)], name)
  BY <1>2 DEF Attribute, First
<1>4. AttributeString(n, name) = IF value = Missing THEN NoString
                                 ELSE attributeToString(value)
  BY DEF AttributeString
<1>5. having \subseteq 1..4
  OBVIOUS
<1>6. \A i \in having :
          /\ Dig(Scopes(n)[i], name) # Missing
          /\ [path |-> name, value |-> Dig(Scopes(n)[i], name)]
                 \in Entries(Scopes(n)[i], Len(name))
          /\ IsValue(Dig(Scopes(n)[i], name))
  BY <1>1
<1> HIDE DEF having, value
<1>7. CASE having = {}
  <2>1. value = Missing /\ AttributeString(n, name) = NoString
    BY <1>3, <1>4, <1>7
  <2> QED
    BY <1>7, <2>1 DEF Looked, having, value
<1>8. CASE having # {}
  <2>1. Min(having) \in having /\ \A j \in having : Min(having) <= j
    <3>1. having \in SUBSET Nat
      BY <1>5
    <3>2. \E x \in having : \A y \in having : x <= y
      BY <1>8, <3>1, LeastNat
    <3> QED
      BY <3>2 DEF Min
  <2>2. \A i \in having : (\A j \in having : i <= j) => i = Min(having)
    <3> DEFINE least == Min(having)
    <3>1. least \in 1..4 /\ \A j \in having : least <= j
      BY <1>5, <2>1
    <3>2. least \in having
      BY <2>1
    <3> HIDE DEF least
    <3>3. \A i \in having : (\A j \in having : i <= j) => i = least
      BY <1>5, <3>1, <3>2
    <3> QED
      BY <3>3 DEF least
  <2>3. /\ value = Dig(Scopes(n)[Min(having)], name)
        /\ value # Missing /\ IsValue(value)
    BY <1>3, <1>6, <1>8, <2>1
  <2>4. attributeToString(value) = NoString <=> value = Array(<<>>)
    <3>1. \A x : Sprint(x) # NoString
      BY DEF Sprint, NoString
    <3>2. CASE value.type = "string"
      BY <2>3, <3>2, StringAssumption DEF IsValue, attributeToString, Array
    <3>3. CASE value.type = "array" /\ value.values = <<>>
      BY <2>3, <3>3 DEF IsValue, attributeToString
    <3>4. CASE value.type = "array" /\ value.values # <<>>
      <4>1. value # Array(<<>>)
        BY <3>4 DEF Array
      <4>2. attributeToString(value) =
                IF value.values[1].type = "string"
                THEN value.values[1].string ELSE Sprint(value.values[1])
        BY <3>4 DEF attributeToString
      <4> QED
        BY <2>3, <3>1, <3>4, <4>1, <4>2, StringAssumption DEF IsValue
    <3>5. CASE value.type \notin {"string", "array"}
      <4>1. attributeToString(value) = Sprint(value)
        BY <3>5 DEF attributeToString
      <4> QED
        BY <3>1, <3>5, <4>1 DEF Array
    <3> QED
      BY <3>2, <3>3, <3>4, <3>5
  <2>5. \A i \in having : (\A j \in having : i <= j) =>
            [path |-> name, value |-> value]
                \in Entries(Scopes(n)[i], Len(name))
    BY <1>6, <2>1, <2>2, <2>3
  <2> QED
    BY <1>4, <1>8, <2>3, <2>4, <2>5 DEF Looked, having, value
<1> QED
  BY <1>7, <1>8

-----------------------------------------------------------------------------
(* NodeEdit: the inductive invariant.                                      *)

Good(n) == IsNode(n) /\ Distinct(n) /\ Readable(n)

LEMMA NewNodeFacts == Good(NewNode) /\ IsJson(NewNode)
<1>1. /\ DOMAIN EmptyMap = {}
      /\ EmptyMap = [k \in DOMAIN EmptyMap |-> EmptyMap[k]]
  BY DEF EmptyMap
<1>2. /\ NewNode.normal = EmptyMap /\ NewNode.runList = <<>>
      /\ NewNode = [runList |-> NewNode.runList,
                    automatic |-> NewNode.automatic,
                    override |-> NewNode.override, normal |-> NewNode.normal,
                    default |-> NewNode.default,
                    settings |-> NewNode.settings]
  BY DEF NewNode
<1>3. Tags(NewNode) = <<>>
  BY <1>1, <1>2 DEF Tags, Missing
<1>4. IsNode(NewNode) /\ IsJson(NewNode)
  BY <1>1, <1>2, <1>3 DEF IsNode, IsJson
<1>5. Distinct(NewNode)
  BY <1>2, <1>3, EmptyFacts DEF Distinct
<1>6. \A i \in 1..4 : Scopes(NewNode)[i] = EmptyMap
  BY DEF Scopes, NewNode
<1>7. IsScope(EmptyMap)
  <2> DEFINE T == {d \in Nat : Entries(EmptyMap, d + 1) # {}}
  <2>1. ASSUME T # {} PROVE FALSE
    <3>1. PICK d \in T : \A y \in T : d <= y
      <4>1. T \in SUBSET Nat
        OBVIOUS
      <4> QED
        BY <2>1, <4>1, LeastNat
    <3>2. PICK p \in Entries(EmptyMap, d) :
              p.value.type = "map" /\ DOMAIN p.value.map # {}
      BY <3>1, EntriesAre
    <3>3. CASE d = 0
      <4>1. p = Root(EmptyMap)
        BY <3>2, <3>3, EntriesAre
      <4> QED
        BY <1>1, <3>2, <4>1 DEF Root, Map
    <3>4. CASE d # 0
      <4>1. d - 1 \in Nat /\ (d - 1) + 1 = d /\ ~(d <= d - 1)
        BY <3>1, <3>4
      <4> QED
        BY <3>1, <3>2, <4>1
    <3> QED
      BY <3>3, <3>4
  <2>2. ASSUME NEW name \in Names, NEW d \in 1..Len(name)
        PROVE  Entries(EmptyMap, d) = {}
    <3>1. d - 1 \in Nat /\ (d - 1) + 1 = d
      BY NamesAssumption
    <3> QED
      BY <2>1, <3>1
  <2> QED
    BY <1>1, <2>2 DEF IsScope
<1>8. Readable(NewNode)
  BY <1>6, <1>7 DEF Readable
<1> QED
  BY <1>4, <1>5, <1>8 DEF Good

LEMMA StoredIsGood ==
    ASSUME NEW n, Good(n)
    PROVE  Good(Stored(n)) /\ IsJson(Stored(n))
<1>1. IsNode(n) /\ Distinct(n) /\ Readable(n)
  BY DEF Good
<1>2. /\ IsNode(Stored(n)) /\ IsJson(Stored(n))
      /\ Tags(Stored(n)) = Tags(n) /\ Stored(n).runList = n.runList
  BY <1>1, StoredFacts
<1>3. Readable(Stored(n))
  BY <1>1, StoredIsReadable
<1> QED
  BY <1>1, <1>2, <1>3 DEF Good, Distinct

LEMMA ApplyIsGood ==
    ASSUME NEW e \in Editors, NEW edit \in Edits, NEW n, Good(n)
    PROVE  Good(Apply(e, edit, n))
<1> DEFINE m == Apply(e, edit, n)
<1>1. IsNode(n) /\ Distinct(n) /\ Readable(n)
  BY DEF Good
<1>2. /\ IsNode(m)
      /\ Tags(m) = Changed(edit, "addTags", "removeTags", Tags(n))
      /\ m.runList = Changed(edit, "addRunList", "removeRunList", n.runList)
  BY <1>1, ApplyFacts
<1>3. Tags(n) \in Seq(Strings) /\ n.runList \in Seq(Strings)
  BY <1>1 DEF IsNode
<1>4. Readable(m)
  BY <1>1, ApplyIsReadable
<1> HIDE DEF m
<1>5. Distinct(m)
  BY <1>1, <1>2, <1>3, ChangedFacts DEF Distinct
<1>6. Good(m)
  BY <1>2, <1>4, <1>5 DEF Good
<1> QED
  BY <1>6 DEF m

(* The invariant again, in terms of good nodes.                            *)
GoodInv ==
    /\ phase \in [Editors -> {"idle", "get", "edit", "done", "failed"}]
    /\ at \in [Editors -> Nat] /\ present \in BOOLEAN
    /\ disturbed \in [Editors -> BOOLEAN]
    /\ DOMAIN copy = Editors /\ copy = [e \in Editors |-> copy[e]]
    /\ DOMAIN base = Editors /\ base = [e \in Editors |-> base[e]]
    /\ Good(node) /\ IsJson(node)
    /\ \A e \in Editors :
          /\ at[e] <= Len(EditsOf[e])
          /\ Good(copy[e]) /\ IsNode(base[e]) /\ Distinct(base[e])
          /\ IsJson(base[e])
    /\ LateInv /\ EditedInv /\ NodeEditIsExact

LEMMA GoodInvIs == GoodInv <=> NodeInv
BY DEF NodeInv, NodeTypeOK, JsonInv, DistinctInv, NothingListedTwice,
       ReadableInv, Good, GoodInv

LEMMA GoodInvBegins == NodeInit => GoodInv
<1> SUFFICES ASSUME NodeInit PROVE GoodInv
  OBVIOUS
<1> USE DEF NodeInit
<1>1. Good(node) /\ IsJson(node)
  BY NodesAssumption DEF Good
<1>2. /\ LateInv /\ NodeEditIsExact
      /\ EditedInv
  BY DEF LateInv, NodeEditIsExact, EditedInv
<1>3. /\ Good(NewNode) /\ IsJson(NewNode)
      /\ IsNode(NewNode) /\ Distinct(NewNode)
  BY NewNodeFacts DEF Good
<1>4. \A e \in Editors : EditsOf[e] \in Seq(Edits) /\ 0 <= Len(EditsOf[e])
  BY EditorAssumption
<1> QED
  BY <1>1, <1>2, <1>3, <1>4 DEF GoodInv

LEMMA BeginKeeps ==
    ASSUME GoodInv, NEW e \in Editors, Begin(e)
    PROVE  GoodInv'
<1> USE DEF Begin, Goto
<1>1. phase' \in [Editors -> {"idle", "get", "edit", "done", "failed"}]
  BY DEF GoodInv
<1>2. LateInv' /\ NodeEditIsExact'
  BY DEF GoodInv, LateInv, NodeEditIsExact
<1>3. EditedInv'
  <2> SUFFICES ASSUME NEW f \in Editors
               PROVE  /\ phase'[f] \in {"idle", "get"} =>
                           /\ at[f] = 0
                           /\ base[f] = NewNode /\ copy[f] = NewNode
                      /\ phase'[f] = "edit" =>
                           Exact(SubSeq(EditsOf[f], 1, at[f]), base[f], copy[f])
    BY DEF EditedInv
  <2>1. CASE f # e
    <3>1. phase'[f] = phase[f]
      BY <2>1 DEF GoodInv
    <3> QED
      BY <3>1 DEF GoodInv, EditedInv
  <2>2. CASE f = e
    <3>1. at[e] = 0 /\ base[e] = NewNode /\ copy[e] = NewNode
      BY DEF GoodInv, EditedInv
    <3>2. SubSeq(EditsOf[e], 1, 0) = <<>>
      OBVIOUS
    <3>3. Exact(<<>>, NewNode, NewNode)
      BY NewNodeFacts, ExactBegins DEF Good
    <3> QED
      BY <2>2, <3>1, <3>2, <3>3
  <2> QED
    BY <2>1, <2>2
<1> QED
  BY <1>1, <1>2, <1>3 DEF GoodInv

LEMMA GetKeeps ==
    ASSUME GoodInv, NEW e \in Editors, Get(e)
    PROVE  GoodInv'
<1> USE DEF Get, Goto
<1>1. phase' \in [Editors -> {"idle", "get", "edit", "done", "failed"}]
  BY DEF GoodInv
<1>2. LateInv' /\ NodeEditIsExact'
  BY DEF GoodInv, LateInv, NodeEditIsExact
<1>3. \A f \in Editors : f # e =>
          phase'[f] = phase[f] /\ copy'[f] = copy[f] /\ base'[f] = base[f]
  BY DEF GoodInv
<1>4. CASE phase'[e] = "edit"
  <2>1. /\ copy' = [copy EXCEPT ![e] = node]
        /\ base' = [base EXCEPT ![e] = node]
    BY <1>4 DEF GoodInv
  <2>2. copy'[e] = node /\ base'[e] = node /\ at[e] = 0
    BY <2>1 DEF GoodInv, EditedInv
  <2>3. /\ DOMAIN copy' = Editors /\ copy' = [f \in Editors |-> copy'[f]]
        /\ DOMAIN base' = Editors /\ base' = [f \in Editors |-> base'[f]]
    BY <2>1 DEF GoodInv
  <2>4. EditedInv'
    <3>1. SubSeq(EditsOf[e], 1, 0) = <<>>
      OBVIOUS
    <3>2. Exact(<<>>, node, node)
      BY ExactBegins DEF GoodInv, Good
    <3> QED
      BY <1>3, <1>4, <2>2, <3>1, <3>2 DEF GoodInv, EditedInv
  <2>5. IsNode(node) /\ Distinct(node)
    BY DEF GoodInv, Good
  <2> QED
    BY <1>1, <1>2, <1>3, <2>2, <2>3, <2>4, <2>5 DEF GoodInv
<1>5. CASE phase'[e] # "edit"
  <2>1. phase'[e] = "failed" /\ UNCHANGED <<copy, base>>
    BY <1>5 DEF GoodInv
  <2>2. EditedInv'
    BY <1>3, <2>1 DEF GoodInv, EditedInv
  <2> QED
    BY <1>1, <1>2, <2>1, <2>2 DEF GoodInv
<1> QED
  BY <1>4, <1>5

LEMMA EditKeeps ==
    ASSUME GoodInv, NEW e \in Editors, Edit(e)
    PROVE  GoodInv'
<1> DEFINE edits == EditsOf[e]
           n == at[e]
           edit == edits[n + 1]
           new == Apply(e, edit, copy[e])
<1>1. /\ edits \in Seq(Edits) /\ n \in 0..(Len(edits) - 1)
      /\ phase[e] = "edit"
  <2>1. edits \in Seq(Edits)
    BY EditorAssumption
  <2>2. n \in Nat /\ n < Len(edits) /\ phase[e] = "edit"
    BY DEF GoodInv, Edit
  <2> HIDE DEF edits, n
  <2>3. Len(edits) \in Nat
    BY <2>1
  <2> QED
    BY <2>1, <2>2, <2>3
<1>2. /\ SubSeq(edits, 1, n) \in Seq(Edits) /\ edit \in Edits
      /\ SubSeq(edits, 1, n + 1) = Append(SubSeq(edits, 1, n), edit)
  BY <1>1, PrefixAppends
<1>3. n \in Nat /\ n + 1 \in Nat /\ n + 1 <= Len(edits)
  BY <1>1
<1>4. Good(copy[e]) /\ Good(new)
  BY <1>2, ApplyIsGood DEF GoodInv
<1>5. Exact(SubSeq(edits, 1, n), base[e], copy[e])
  BY <1>1 DEF GoodInv, EditedInv
<1>6. Exact(SubSeq(edits, 1, n + 1), base[e], new)
  <2>1. IsNode(base[e]) /\ IsNode(copy[e])
    BY <1>4 DEF GoodInv, Good
  <2> HIDE DEF edits, n, edit
  <2> QED
    BY <1>2, <1>5, <2>1, ExactStep
<1> HIDE DEF new
<1>7. /\ at' = [at EXCEPT ![e] = n + 1] /\ copy' = [copy EXCEPT ![e] = new]
      /\ UNCHANGED <<phase, present, node, late, base, disturbed>>
  BY DEF Edit, new
<1>8. /\ \A f \in Editors : f # e => copy'[f] = copy[f] /\ at'[f] = at[f]
      /\ copy'[e] = new /\ at'[e] = n + 1
      /\ DOMAIN copy' = Editors /\ copy' = [f \in Editors |-> copy'[f]]
      /\ at' \in [Editors -> Nat]
  BY <1>3, <1>7 DEF GoodInv
<1>9. EditedInv'
  BY <1>1, <1>6, <1>7, <1>8 DEF GoodInv, EditedInv
<1>10. LateInv' /\ NodeEditIsExact'
  BY <1>7 DEF GoodInv, LateInv, NodeEditIsExact
<1> QED
  BY <1>3, <1>4, <1>7, <1>8, <1>9, <1>10 DEF GoodInv

(* A request writes a good node, exactly edited.                           *)
LEMMA RequestFacts ==
    ASSUME GoodInv, NEW e \in Editors, phase[e] = "edit",
           at[e] = Len(EditsOf[e])
    PROVE  /\ Request(e).editor = e /\ Request(e).method = MethodOf[e]
           /\ Good(Request(e).node) /\ IsJson(Request(e).node)
           /\ Exact(EditsOf[e], base[e], Request(e).node)
<1>1. /\ Request(e).editor = e /\ Request(e).method = MethodOf[e]
      /\ Request(e).node = Stored(copy[e])
  BY DEF Request
<1>2. Good(copy[e]) /\ IsNode(base[e]) /\ IsJson(base[e])
  BY DEF GoodInv
<1>3. Exact(EditsOf[e], base[e], copy[e])
  <2> DEFINE edits == EditsOf[e]
  <2>1. edits \in Seq(Edits)
    BY EditorAssumption
  <2> HIDE DEF edits
  <2>2. SubSeq(edits, 1, Len(edits)) = edits
    BY <2>1
  <2>3. Exact(SubSeq(edits, 1, Len(edits)), base[e], copy[e])
    BY DEF GoodInv, EditedInv, edits
  <2> QED
    BY <2>2, <2>3 DEF edits
<1> QED
  BY <1>1, <1>2, <1>3, StoredIsGood, ExactStored DEF Good

(* What the server has once it has done what a good request asks for.      *)
LEMMA ServeFacts ==
    ASSUME GoodInv, NEW q, Good(q.node), IsJson(q.node), Serve(q)
    PROVE  /\ present' \in BOOLEAN /\ disturbed' \in [Editors -> BOOLEAN]
           /\ Good(node') /\ IsJson(node')
           /\ q.method # "remove" => node' = q.node
           /\ \A f \in Editors : f # q.editor /\ phase[f] = "done" =>
                 disturbed'[f]
BY NewNodeFacts DEF GoodInv, Serve

LEMMA WriteKeeps ==
    ASSUME GoodInv, NEW e \in Editors, Write(e)
    PROVE  GoodInv'
<1> DEFINE q == Request(e)
<1>1. /\ phase[e] = "edit" /\ at[e] = Len(EditsOf[e]) /\ Serve(q)
      /\ \E step \in {"done", "failed"} : phase' = [phase EXCEPT ![e] = step]
      /\ UNCHANGED <<at, copy, late, base>>
  BY DEF Write, Goto
<1>2. /\ q.editor = e /\ q.method = MethodOf[e]
      /\ Good(q.node) /\ IsJson(q.node)
      /\ Exact(EditsOf[e], base[e], q.node)
  BY <1>1, RequestFacts
<1> HIDE DEF q
<1>3. /\ present' \in BOOLEAN /\ disturbed' \in [Editors -> BOOLEAN]
      /\ Good(node') /\ IsJson(node')
      /\ q.method # "remove" => node' = q.node
      /\ \A f \in Editors : f # e /\ phase[f] = "done" => disturbed'[f]
  BY <1>1, <1>2, ServeFacts
<1>4. /\ phase' \in [Editors -> {"idle", "get", "edit", "done", "failed"}]
      /\ \A f \in Editors : f # e => phase'[f] = phase[f]
      /\ phase'[e] \in {"done", "failed"}
  BY <1>1 DEF GoodInv
<1>5. LateInv'
  BY <1>1, <1>4 DEF GoodInv, LateInv
<1>6. EditedInv'
  BY <1>1, <1>4 DEF GoodInv, EditedInv
<1>7. NodeEditIsExact'
  BY <1>1, <1>2, <1>3, <1>4 DEF NodeEditIsExact
<1> QED
  BY <1>1, <1>3, <1>4, <1>5, <1>6, <1>7 DEF GoodInv

LEMMA WriteFailsKeeps ==
    ASSUME GoodInv, NEW e \in Editors, WriteFails(e)
    PROVE  GoodInv'
<1>1. /\ phase[e] = "edit" /\ at[e] = Len(EditsOf[e])
      /\ phase' = [phase EXCEPT ![e] = "failed"]
      /\ late' \in {late, late \cup {Request(e)}}
      /\ UNCHANGED <<at, copy, present, node, base, disturbed>>
  BY DEF WriteFails, Goto
<1>2. /\ phase' \in [Editors -> {"idle", "get", "edit", "done", "failed"}]
      /\ \A f \in Editors : f # e => phase'[f] = phase[f]
      /\ phase'[e] = "failed"
  BY <1>1 DEF GoodInv
<1>3. LateInv'
  <2>1. /\ Request(e).editor = e
        /\ Good(Request(e).node) /\ IsJson(Request(e).node)
    BY <1>1, RequestFacts
  <2> QED
    BY <1>1, <1>2, <2>1 DEF GoodInv, LateInv, Good
<1>4. EditedInv' /\ NodeEditIsExact'
  BY <1>1, <1>2 DEF GoodInv, EditedInv, NodeEditIsExact
<1> QED
  BY <1>1, <1>2, <1>3, <1>4 DEF GoodInv

LEMMA ServeLateKeeps ==
    ASSUME GoodInv, NEW q \in late, ServeLate(q)
    PROVE  GoodInv'
<1>1. /\ late' = late \ {q}
      /\ Serve(q) \/ UNCHANGED <<present, node, disturbed>>
      /\ UNCHANGED <<phase, at, copy, base>>
  BY DEF ServeLate
<1>2. /\ q.editor \in Editors /\ phase[q.editor] = "failed"
      /\ Good(q.node) /\ IsJson(q.node)
  BY DEF GoodInv, LateInv, Good
<1>3. LateInv' /\ EditedInv'
  BY <1>1 DEF GoodInv, LateInv, EditedInv
<1>4. CASE Serve(q)
  <2>1. /\ present' \in BOOLEAN /\ disturbed' \in [Editors -> BOOLEAN]
        /\ Good(node') /\ IsJson(node')
        /\ \A f \in Editors : phase[f] = "done" => disturbed'[f]
    BY <1>2, <1>4, ServeFacts
  <2>2. NodeEditIsExact'
    BY <1>1, <2>1 DEF NodeEditIsExact
  <2> QED
    BY <1>1, <1>3, <2>1, <2>2 DEF GoodInv
<1>5. CASE UNCHANGED <<present, node, disturbed>>
  BY <1>1, <1>3, <1>5 DEF GoodInv, NodeEditIsExact
<1> QED
  BY <1>1, <1>4, <1>5

(* Type correctness and all that follows: the invariant is inductive.      *)
THEOREM NodeInvariance == NodeSpec => []NodeInv
<1>1. NodeInit => GoodInv
  BY GoodInvBegins
<1>2. GoodInv /\ [NodeNext]_nodeVars => GoodInv'
  <2> SUFFICES ASSUME GoodInv, [NodeNext]_nodeVars PROVE GoodInv'
    OBVIOUS
  <2>1. ASSUME NEW e \in Editors, Begin(e) PROVE GoodInv'
    BY <2>1, BeginKeeps
  <2>2. ASSUME NEW e \in Editors, Step(e) PROVE GoodInv'
    BY <2>2, GetKeeps, EditKeeps, WriteKeeps, WriteFailsKeeps DEF Step
  <2>3. ASSUME NEW q \in late, ServeLate(q) PROVE GoodInv'
    BY <2>3, ServeLateKeeps
  <2>4. CASE UNCHANGED nodeVars
    BY <2>4 DEF nodeVars, GoodInv, LateInv, EditedInv, NodeEditIsExact
  <2> QED
    BY <2>1, <2>2, <2>3, <2>4 DEF NodeNext, NodeAtRest
<1>3. GoodInv => NodeInv
  BY GoodInvIs
<1> QED
  BY <1>1, <1>2, <1>3, PTL DEF NodeSpec

(* The types of every variable, and the shape of every node: on the server *)
(* (nodes.go:40-90) as in memory.                                          *)
THEOREM NodeTypeCorrect == NodeSpec => []NodeTypeOK
<1>1. NodeInv => NodeTypeOK
  BY DEF NodeInv
<1> QED
  BY <1>1, NodeInvariance, PTL

(* AddTags and AddRunListItems add what is missing only, and nothing else  *)
(* makes a list longer: no tag and no run-list entry is there twice.       *)
THEOREM NodeListsNothingTwice == NodeSpec => []NothingListedTwice
<1>1. NodeInv => NothingListedTwice
  BY DEF NodeInv, DistinctInv
<1> QED
  BY <1>1, NodeInvariance, PTL

(* For any sequence of edits, any node and any others that write to it:    *)
(* the Update of an editor nobody interfered with has made its edits, and  *)
(* no other change.                                                        *)
THEOREM NodeEditsAreExact == NodeSpec => []NodeEditIsExact
<1>1. NodeInv => NodeEditIsExact
  BY DEF NodeInv
<1> QED
  BY <1>1, NodeInvariance, PTL

(* Attribute and AttributeString answer from the highest scope that has    *)
(* all of the path, in every node there is, however deep the path.         *)
THEOREM NodeLookups == NodeSpec => []LookupByPrecedence
<1>1. NodeInv => LookupByPrecedence
  <2> SUFFICES ASSUME NodeInv,
                      NEW n \in {node} \cup {copy[e] : e \in Editors},
                      NEW name \in Names
               PROVE  Looked(n, name)
    BY DEF LookupByPrecedence, Looked
  <2>1. Readable(n)
    BY DEF NodeInv, ReadableInv
  <2> QED
    BY <2>1, LookedIs
<1> QED
  BY <1>1, NodeInvariance, PTL

=============================================================================
