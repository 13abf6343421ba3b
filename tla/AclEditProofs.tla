---------------------------- MODULE AclEditProofs ----------------------------
(***************************************************************************)
(* Proofs about AclEdit, for any actors, groups, editors and arguments.    *)
(* The lists that addMembers and removeMembers return are found by         *)
(* induction on the number of members: were the claim wrong of some        *)
(* prefix, it would be wrong of a shortest one, and the pass of the loop   *)
(* before that contradicts it. What the editors do to the server follows   *)
(* from the invariant that a copy is what Get returned up to where the     *)
(* loop has come.                                                          *)
(***************************************************************************)
EXTENDS AclEdit, SequenceTheorems, WellFoundedInduction, TLAPS

(* A set of naturals has a least element.                                  *)
LEMMA LeastNat ==
    ASSUME NEW T \in SUBSET Nat, T # {}
    PROVE  \E x \in T : \A y \in T : x <= y
<1>1. PICK x \in T : \A y \in T : ~ (<<y, x>> \in OpToRel(<, Nat))
  BY WFMin, NatLessThanWellFounded
<1>2. \A y \in T : ~ (y < x)
  BY <1>1 DEF OpToRel
<1> QED
  BY <1>2

-----------------------------------------------------------------------------
(* Lists of members.                                                       *)

LEMMA ContainsIsIn ==
    ASSUME NEW S, NEW s \in Seq(S), NEW m
    PROVE  Contains(s, m) <=> m \in ToSet(s)
BY DEF Contains, ToSet

LEMMA AppendSet ==
    ASSUME NEW S, NEW s \in Seq(S), NEW m \in S
    PROVE  /\ ToSet(Append(s, m)) = ToSet(s) \cup {m}
           /\ IsInjective(s) /\ m \notin ToSet(s) => IsInjective(Append(s, m))
<1> DEFINE t == Append(s, m)
<1>1. t \in Seq(S) /\ Len(t) = Len(s) + 1 /\ t[Len(s) + 1] = m
      /\ \A i \in 1..Len(s) : t[i] = s[i]
  OBVIOUS
<1>2. DOMAIN s = 1..Len(s) /\ DOMAIN t = 1..(Len(s) + 1) /\ Len(s) \in Nat
  BY <1>1
<1> HIDE DEF t
<1>3. ToSet(t) = ToSet(s) \cup {m}
  BY <1>1, <1>2 DEF ToSet
<1>4. ASSUME IsInjective(s), m \notin ToSet(s) PROVE IsInjective(t)
  BY <1>1, <1>2, <1>4 DEF ToSet, IsInjective
<1> QED
  BY <1>3, <1>4 DEF t

LEMMA RemoveSet ==
    ASSUME NEW S, NEW s \in Seq(S), IsInjective(s), NEW k \in 1..Len(s)
    PROVE  /\ RemoveAt(s, k) \in Seq(S) /\ IsInjective(RemoveAt(s, k))
           /\ ToSet(RemoveAt(s, k)) = ToSet(s) \ {s[k]}
<1> DEFINE a == SubSeq(s, 1, k - 1)
           b == SubSeq(s, k + 1, Len(s))
           t == a \o b
<1>1. /\ a \in Seq(S) /\ Len(a) = k - 1
      /\ \A i \in 1..(k - 1) : a[i] = s[i]
  OBVIOUS
<1>2. /\ b \in Seq(S) /\ Len(b) = Len(s) - k
      /\ \A i \in 1..(Len(s) - k) : b[i] = s[k + i]
  OBVIOUS
<1> HIDE DEF a, b
<1>3. /\ t \in Seq(S) /\ Len(t) = Len(s) - 1
      /\ \A i \in 1..(Len(s) - 1) : t[i] = IF i < k THEN s[i] ELSE s[i + 1]
  <2>1. t \in Seq(S) /\ Len(t) = Len(a) + Len(b)
    BY <1>1, <1>2, ConcatProperties
  <2>2. Len(t) = Len(s) - 1
    BY <1>1, <1>2, <2>1
  <2>3. ASSUME NEW i \in 1..(Len(s) - 1)
        PROVE  t[i] = IF i < k THEN s[i] ELSE s[i + 1]
    <3>1. CASE i < k
      BY <1>1, <1>2, <3>1
    <3>2. CASE ~(i < k)
      <4>1. t[i] = b[i - (k - 1)]
        BY <1>1, <1>2, <3>2
      <4>2. i - (k - 1) \in 1..(Len(s) - k) /\ k + (i - (k - 1)) = i + 1
        BY <3>2
      <4> QED
        BY <1>2, <3>2, <4>1, <4>2
    <3> QED
      BY <3>1, <3>2
  <2> QED
    BY <2>1, <2>2, <2>3
<1>4. DOMAIN s = 1..Len(s) /\ DOMAIN t = 1..(Len(s) - 1) /\ Len(s) \in Nat
  BY <1>3
<1> HIDE DEF t
<1>5. IsInjective(t)
  BY <1>3, <1>4 DEF IsInjective
<1>6. ToSet(t) = ToSet(s) \ {s[k]}
  <2>1. ASSUME NEW i \in 1..(Len(s) - 1)
        PROVE  t[i] \in ToSet(s) \ {s[k]}
    <3>1. PICK j \in 1..Len(s) : j # k /\ t[i] = s[j]
      BY <1>3, <1>4
    <3> QED
      BY <1>4, <3>1 DEF ToSet, IsInjective
  <2>2. ASSUME NEW i \in 1..Len(s), i # k PROVE s[i] \in ToSet(t)
    <3>1. CASE i < k
      BY <1>3, <1>4, <3>1 DEF ToSet
    <3>2. CASE i > k
      <4>1. i - 1 \in DOMAIN t /\ t[i - 1] = s[i]
        BY <1>3, <1>4, <3>2
      <4> QED
        BY <4>1 DEF ToSet
    <3> QED
      BY <2>2, <3>1, <3>2
  <2> QED
    BY <1>4, <2>1, <2>2 DEF ToSet
<1>7. RemoveAt(s, k) = t
  BY DEF RemoveAt, t, a, b
<1> QED
  BY <1>3, <1>5, <1>6, <1>7

LEMMA IndexIs ==
    ASSUME NEW S, NEW s \in Seq(S), NEW m \in ToSet(s)
    PROVE  Index(s, m) \in 1..Len(s) /\ s[Index(s, m)] = m
<1> DEFINE T == {i \in 1..Len(s) : s[i] = m}
<1>1. T \in SUBSET Nat /\ T # {}
  BY DEF ToSet
<1>2. PICK k \in T : \A j \in T : k <= j
  BY <1>1, LeastNat
<1>3. k \in DOMAIN s /\ s[k] = m /\ \A j \in 1..(k - 1) : s[j] # m
  BY <1>2
<1>4. Index(s, m) \in DOMAIN s /\ s[Index(s, m)] = m
  BY <1>3 DEF Index
<1> QED
  BY <1>4

-----------------------------------------------------------------------------
(* addMembers and removeMembers. Their loops are one loop, with the step   *)
(* of the one or of the other.                                             *)

One(op, r, m) == IF op = "add" THEN addMember(r, m) ELSE removeMember(r, m)

Loop(op, list, members, n, g) ==
    g = [k \in 0..n |-> IF k = 0 THEN [list |-> list, changed |-> FALSE]
                                 ELSE One(op, g[k - 1], members[k])]

LEMMA LoopExists ==
    ASSUME NEW op, NEW list, NEW members, NEW n \in Nat
    PROVE  \E g : Loop(op, list, members, n, g)
<1> DEFINE T == {k \in Nat : ~\E g : Loop(op, list, members, k, g)}
<1> SUFFICES ASSUME T # {} PROVE FALSE
  OBVIOUS
<1>1. PICK m \in T : \A y \in T : m <= y
  BY LeastNat
<1>2. CASE m = 0
  <2> DEFINE g == [k \in 0..0 |-> [list |-> list, changed |-> FALSE]]
  <2>1. Loop(op, list, members, 0, g)
    BY DEF Loop
  <2> QED
    BY <1>1, <1>2, <2>1
<1>3. CASE m # 0
  <2>1. m - 1 \in Nat /\ m - 1 \notin T
    BY <1>1, <1>3
  <2>2. PICK g : Loop(op, list, members, m - 1, g)
    BY <2>1
  <2> DEFINE h == [k \in 0..m |-> IF k = m THEN One(op, g[m - 1], members[m])
                                  ELSE g[k]]
  <2>3. ASSUME NEW k \in 0..m
        PROVE  h[k] = IF k = 0 THEN [list |-> list, changed |-> FALSE]
                      ELSE One(op, h[k - 1], members[k])
    <3>1. CASE k = m
      BY <1>3, <2>1, <3>1
    <3>2. CASE k # m
      <4>1. k \in 0..(m - 1) /\ h[k] = g[k]
        BY <2>1, <3>2
      <4>2. k # 0 => k - 1 \in 0..(m - 1) /\ h[k - 1] = g[k - 1]
        BY <2>1, <4>1
      <4> HIDE DEF h
      <4> QED
        BY <2>2, <4>1, <4>2 DEF Loop
    <3> QED
      BY <3>1, <3>2
  <2>4. Loop(op, list, members, m, h)
    BY <2>3 DEF Loop
  <2> QED
    BY <1>1, <2>4
<1> QED
  BY <1>2, <1>3

LEMMA AddIsLoop ==
    ASSUME NEW list, NEW members, Len(members) \in Nat
    PROVE  \E g : /\ Loop("add", list, members, Len(members), g)
                  /\ addMembers(list, members) = g[Len(members)]
<1> DEFINE n == Len(members)
           added == CHOOSE g : g = [k \in 0..n |->
                        IF k = 0 THEN [list |-> list, changed |-> FALSE]
                                 ELSE addMember(g[k - 1], members[k])]
<1>1. addMembers(list, members) = added[n]
  BY DEF addMembers
<1>2. Loop("add", list, members, n, added)
  <2>1. PICK g : Loop("add", list, members, n, g)
    BY LoopExists
  <2>2. g = [k \in 0..n |-> IF k = 0 THEN [list |-> list, changed |-> FALSE]
                            ELSE addMember(g[k - 1], members[k])]
    BY <2>1 DEF Loop, One
  <2>3. added = [k \in 0..n |->
                    IF k = 0 THEN [list |-> list, changed |-> FALSE]
                    ELSE addMember(added[k - 1], members[k])]
    BY <2>2
  <2> HIDE DEF added
  <2> QED
    BY <2>3 DEF Loop, One
<1> QED
  BY <1>1, <1>2

LEMMA RemoveIsLoop ==
    ASSUME NEW list, NEW members, Len(members) \in Nat
    PROVE  \E g : /\ Loop("remove", list, members, Len(members), g)
                  /\ removeMembers(list, members) = g[Len(members)]
<1> DEFINE n == Len(members)
           removed == CHOOSE g : g = [k \in 0..n |->
                        IF k = 0 THEN [list |-> list, changed |-> FALSE]
                                 ELSE removeMember(g[k - 1], members[k])]
<1>1. removeMembers(list, members) = removed[n]
  BY DEF removeMembers
<1>2. Loop("remove", list, members, n, removed)
  <2>1. PICK g : Loop("remove", list, members, n, g)
    BY LoopExists
  <2>2. g = [k \in 0..n |-> IF k = 0 THEN [list |-> list, changed |-> FALSE]
                            ELSE removeMember(g[k - 1], members[k])]
    BY <2>1 DEF Loop, One
  <2>3. removed = [k \in 0..n |->
                      IF k = 0 THEN [list |-> list, changed |-> FALSE]
                      ELSE removeMember(removed[k - 1], members[k])]
    BY <2>2
  <2> HIDE DEF removed
  <2> QED
    BY <2>3 DEF Loop, One
<1> QED
  BY <1>1, <1>2

(* What r owes after the loop has been through the members named.          *)
After(op, list, named) ==
    IF op = "add" THEN ToSet(list) \cup named ELSE ToSet(list) \ named

Correct(op, S, list, named, r) ==
    /\ r \in [list : Seq(S), changed : BOOLEAN]
    /\ IsInjective(r.list)
    /\ ToSet(r.list) = After(op, list, named)
    /\ ~r.changed => r.list = list

LEMMA OneIsCorrect ==
    ASSUME NEW S, NEW list, NEW named, NEW r, NEW m \in S,
           NEW op, Correct(op, S, list, named, r)
    PROVE  Correct(op, S, list, named \cup {m}, One(op, r, m))
<1>1. /\ r.list \in Seq(S) /\ IsInjective(r.list)
      /\ ToSet(r.list) = After(op, list, named)
      /\ r \in [list : Seq(S), changed : BOOLEAN]
  BY DEF Correct
<1>2. Contains(r.list, m) <=> m \in ToSet(r.list)
  BY <1>1, ContainsIsIn
<1>3. CASE op = "add" /\ m \in ToSet(r.list)
  <2>1. One(op, r, m) = r
    BY <1>2, <1>3 DEF One, addMember
  <2>2. After(op, list, named \cup {m}) = ToSet(r.list)
    BY <1>1, <1>3 DEF After
  <2> QED
    BY <2>1, <2>2 DEF Correct
<1>4. CASE op = "add" /\ m \notin ToSet(r.list)
  <2> DEFINE t == Append(r.list, m)
  <2>1. One(op, r, m) = [list |-> t, changed |-> TRUE]
    BY <1>2, <1>4 DEF One, addMember
  <2>2. t \in Seq(S) /\ IsInjective(t) /\ ToSet(t) = ToSet(r.list) \cup {m}
    BY <1>1, <1>4, AppendSet
  <2>3. After(op, list, named \cup {m}) = ToSet(r.list) \cup {m}
    BY <1>1, <1>4 DEF After
  <2> HIDE DEF t
  <2>4. /\ One(op, r, m) \in [list : Seq(S), changed : BOOLEAN]
        /\ One(op, r, m).list = t /\ One(op, r, m).changed = TRUE
    BY <2>1, <2>2
  <2> QED
    BY <2>2, <2>3, <2>4 DEF Correct
<1>5. CASE op # "add" /\ m \notin ToSet(r.list)
  <2>1. One(op, r, m) = r
    BY <1>2, <1>5 DEF One, removeMember
  <2>2. After(op, list, named \cup {m}) = ToSet(r.list)
    BY <1>1, <1>5 DEF After
  <2> QED
    BY <2>1, <2>2 DEF Correct
<1>6. CASE op # "add" /\ m \in ToSet(r.list)
  <2> DEFINE t == RemoveAt(r.list, Index(r.list, m))
  <2>1. One(op, r, m) = [list |-> t, changed |-> TRUE]
    BY <1>2, <1>6 DEF One, removeMember
  <2>2. Index(r.list, m) \in 1..Len(r.list) /\ r.list[Index(r.list, m)] = m
    BY <1>1, <1>6, IndexIs
  <2>3. t \in Seq(S) /\ IsInjective(t) /\ ToSet(t) = ToSet(r.list) \ {m}
    BY <1>1, <2>2, RemoveSet
  <2>4. After(op, list, named \cup {m}) = ToSet(r.list) \ {m}
    BY <1>1, <1>6 DEF After
  <2> HIDE DEF t
  <2>5. /\ One(op, r, m) \in [list : Seq(S), changed : BOOLEAN]
        /\ One(op, r, m).list = t /\ One(op, r, m).changed = TRUE
    BY <2>1, <2>3
  <2> QED
    BY <2>3, <2>4, <2>5 DEF Correct
<1> QED
  BY <1>3, <1>4, <1>5, <1>6

LEMMA LoopIsCorrect ==
    ASSUME NEW S, NEW list \in Seq(S), IsInjective(list),
           NEW members \in Seq(S), NEW op \in {"add", "remove"}, NEW g,
           Loop(op, list, members, Len(members), g)
    PROVE  Correct(op, S, list, ToSet(members), g[Len(members)])
<1> DEFINE first(n) == {members[j] : j \in 1..n}
           T == {n \in 0..Len(members) :
                    ~Correct(op, S, list, first(n), g[n])}
<1>0. Len(members) \in Nat /\ DOMAIN members = 1..Len(members)
  OBVIOUS
<1>1. first(0) = {} /\ first(Len(members)) = ToSet(members)
  BY <1>0 DEF ToSet
<1>2. ASSUME NEW n \in 1..Len(members)
      PROVE  first(n) = first(n - 1) \cup {members[n]}
  <2>1. 1..n = 1..(n - 1) \cup {n}
    OBVIOUS
  <2> QED
    BY <2>1
<1> HIDE DEF first
<1>3. ASSUME T # {} PROVE FALSE
  <2>1. PICK n \in T : \A y \in T : n <= y
    <3>1. T \in SUBSET Nat
      OBVIOUS
    <3> QED
      BY <1>3, <3>1, LeastNat
  <2>2. CASE n = 0
    <3>1. g[0] = [list |-> list, changed |-> FALSE]
      BY <1>0 DEF Loop
    <3>2. After(op, list, {}) = ToSet(list)
      BY DEF After
    <3>3. Correct(op, S, list, {}, g[0])
      BY <3>1, <3>2 DEF Correct
    <3> QED
      BY <1>1, <2>1, <2>2, <3>3
  <2>3. CASE n # 0
    <3>1. n \in 1..Len(members) /\ n - 1 \in 0..Len(members)
      BY <1>0, <2>1, <2>3
    <3>2. n - 1 \notin T
      BY <2>1, <3>1
    <3>3. Correct(op, S, list, first(n - 1), g[n - 1])
      BY <3>1, <3>2
    <3>4. g[n] = One(op, g[n - 1], members[n])
      BY <2>3, <3>1 DEF Loop
    <3>5. members[n] \in S
      BY <3>1
    <3> DEFINE r == g[n - 1]
               m == members[n]
               named == first(n - 1)
    <3>6. Correct(op, S, list, named \cup {m}, One(op, r, m))
      <4>1. Correct(op, S, list, named, r) /\ m \in S
        BY <3>3, <3>5
      <4> HIDE DEF r, m, named, T
      <4> QED
        BY <4>1, OneIsCorrect
    <3>7. first(n) = first(n - 1) \cup {members[n]}
      BY <1>2, <3>1
    <3>8. Correct(op, S, list, first(n), g[n])
      BY <3>4, <3>6, <3>7
    <3> QED
      BY <2>1, <3>8
  <2> QED
    BY <2>2, <2>3
<1>4. Correct(op, S, list, first(Len(members)), g[Len(members)])
  BY <1>0, <1>3
<1> QED
  BY <1>1, <1>4

LEMMA addMembersIs ==
    ASSUME NEW S, NEW list \in Seq(S), IsInjective(list),
           NEW members \in Seq(S)
    PROVE  Correct("add", S, list, ToSet(members), addMembers(list, members))
<1>1. PICK g : /\ Loop("add", list, members, Len(members), g)
               /\ addMembers(list, members) = g[Len(members)]
  BY AddIsLoop
<1> QED
  BY <1>1, LoopIsCorrect

LEMMA removeMembersIs ==
    ASSUME NEW S, NEW list \in Seq(S), IsInjective(list),
           NEW members \in Seq(S)
    PROVE  Correct("remove", S, list, ToSet(members),
                   removeMembers(list, members))
<1>1. PICK g : /\ Loop("remove", list, members, Len(members), g)
               /\ removeMembers(list, members) = g[Len(members)]
  BY RemoveIsLoop
<1> QED
  BY <1>1, LoopIsCorrect

(* What an editor makes of an entry without duplicates: exactly the entry  *)
(* with its members added or removed, without duplicates again, and the    *)
(* very same entry if it says that nothing changed.                        *)
THEOREM EditedIsExact ==
    ASSUME NEW e \in Editors, NEW ace \in ACEs, Unique(ace)
    PROVE  /\ Edited(e, ace).ace \in ACEs /\ Unique(Edited(e, ace).ace)
           /\ Edited(e, ace).changed \in BOOLEAN
           /\ ToSet(Edited(e, ace).ace.actors) =
                  Expected(e, ace.actors, ActorsOf[e])
           /\ ToSet(Edited(e, ace).ace.groups) =
                  Expected(e, ace.groups, GroupsOf[e])
           /\ ~Edited(e, ace).changed => Edited(e, ace).ace = ace
<1>1. /\ OpOf[e] \in {"add", "remove"} /\ ActorsOf[e] \in Seq(Actors)
      /\ GroupsOf[e] \in Seq(Groups)
  BY EditorAssumption
<1>2. /\ ace.actors \in Seq(Actors) /\ IsInjective(ace.actors)
      /\ ace.groups \in Seq(Groups) /\ IsInjective(ace.groups)
      /\ ace = [actors |-> ace.actors, groups |-> ace.groups]
  BY DEF ACEs, Unique
<1>3. ASSUME NEW a, NEW g,
             Correct(OpOf[e], Actors, ace.actors, ToSet(ActorsOf[e]), a),
             Correct(OpOf[e], Groups, ace.groups, ToSet(GroupsOf[e]), g),
             Edited(e, ace) = Both(a, g)
      PROVE  /\ Edited(e, ace).ace \in ACEs /\ Unique(Edited(e, ace).ace)
             /\ Edited(e, ace).changed \in BOOLEAN
             /\ ToSet(Edited(e, ace).ace.actors) =
                    Expected(e, ace.actors, ActorsOf[e])
             /\ ToSet(Edited(e, ace).ace.groups) =
                    Expected(e, ace.groups, GroupsOf[e])
             /\ ~Edited(e, ace).changed => Edited(e, ace).ace = ace
  <2>1. /\ a.list \in Seq(Actors) /\ IsInjective(a.list)
        /\ a.changed \in BOOLEAN /\ (~a.changed => a.list = ace.actors)
        /\ ToSet(a.list) = Expected(e, ace.actors, ActorsOf[e])
    BY <1>1, <1>3 DEF Correct, After, Expected
  <2>2. /\ g.list \in Seq(Groups) /\ IsInjective(g.list)
        /\ g.changed \in BOOLEAN /\ (~g.changed => g.list = ace.groups)
        /\ ToSet(g.list) = Expected(e, ace.groups, GroupsOf[e])
    BY <1>1, <1>3 DEF Correct, After, Expected
  <2>3. /\ Edited(e, ace).ace = [actors |-> a.list, groups |-> g.list]
        /\ Edited(e, ace).changed = (a.changed \/ g.changed)
    BY <1>3 DEF Both
  <2> QED
    BY <1>2, <2>1, <2>2, <2>3 DEF ACEs, Unique
<1>4. CASE OpOf[e] = "add"
  <2>1. Edited(e, ace) = Both(addMembers(ace.actors, ActorsOf[e]),
                              addMembers(ace.groups, GroupsOf[e]))
    BY <1>4 DEF Edited, AddMembers
  <2> QED
    BY <1>1, <1>2, <1>3, <1>4, <2>1, addMembersIs
<1>5. CASE OpOf[e] = "remove"
  <2>1. Edited(e, ace) = Both(removeMembers(ace.actors, ActorsOf[e]),
                              removeMembers(ace.groups, GroupsOf[e]))
    BY <1>5 DEF Edited, RemoveMembers
  <2> QED
    BY <1>1, <1>2, <1>3, <1>5, <2>1, removeMembersIs
<1> QED
  BY <1>1, <1>4, <1>5

LEMMA EditedMayHold ==
    ASSUME NEW e \in Editors, NEW p \in Perms, NEW ace \in ACEs, Unique(ace),
           Contains(Targets(e), p), MayHold(p, ace)
    PROVE  MayHold(p, Edited(e, ace).ace)
<1> DEFINE new == Edited(e, ace).ace
<1>1. /\ ToSet(new.actors) = Expected(e, ace.actors, ActorsOf[e])
      /\ ToSet(new.groups) = Expected(e, ace.groups, GroupsOf[e])
  BY EditedIsExact
<1>2. CASE OpOf[e] = "add"
  <2>1. e \in Granting(p)
    BY <1>2 DEF Granting
  <2>2. /\ ToSet(ActorsOf[e]) \subseteq
               UNION {ToSet(ActorsOf[f]) : f \in Granting(p)}
        /\ ToSet(GroupsOf[e]) \subseteq
               UNION {ToSet(GroupsOf[f]) : f \in Granting(p)}
    BY <2>1
  <2>3. /\ ToSet(new.actors) = ToSet(ace.actors) \cup ToSet(ActorsOf[e])
        /\ ToSet(new.groups) = ToSet(ace.groups) \cup ToSet(GroupsOf[e])
    BY <1>1, <1>2 DEF Expected
  <2> HIDE DEF new
  <2>4. MayHold(p, new)
    BY <2>2, <2>3 DEF MayHold
  <2> QED
    BY <2>4 DEF new
<1>3. CASE OpOf[e] # "add"
  <2>1. /\ ToSet(new.actors) \subseteq ToSet(ace.actors)
        /\ ToSet(new.groups) \subseteq ToSet(ace.groups)
    BY <1>1, <1>3 DEF Expected
  <2> HIDE DEF new
  <2>2. MayHold(p, new)
    BY <2>1 DEF MayHold
  <2> QED
    BY <2>2 DEF new
<1> QED
  BY <1>2, <1>3

(* The permissions of an editor are different ones.                        *)
LEMMA TargetsAre ==
    ASSUME NEW e
    PROVE  /\ Targets(e) \in Seq(Perms) /\ Len(Targets(e)) \in 0..Len(ACLPerms)
           /\ \A i \in 1..Len(Targets(e)) :
                 Targets(e)[i] \in Perms /\ Contains(Targets(e), Targets(e)[i])
           /\ \A i, j \in 1..Len(Targets(e)) :
                 Targets(e)[i] = Targets(e)[j] => i = j
<1> DEFINE t == Targets(e)
<1>1. /\ ACLPerms \in Seq(Perms) /\ Len(ACLPerms) = 5
      /\ \A i, j \in 1..5 : ACLPerms[i] = ACLPerms[j] => i = j
  BY DEF ACLPerms, Perms, ToSet
<1>2. t = ACLPerms \/ t = <<>> \/ \E p \in Perms : t = <<p>>
  <2>1. Contains(ACLPerms, PermOf[e]) => PermOf[e] \in Perms
    BY <1>1, ContainsIsIn DEF Perms
  <2> HIDE DEF t
  <2>2. t = IF PermOf[e] = "all" THEN ACLPerms
            ELSE IF Contains(ACLPerms, PermOf[e]) THEN <<PermOf[e]>> ELSE <<>>
    BY DEF t, Targets, ExpandPerm
  <2> QED
    BY <2>1, <2>2
<1> HIDE DEF t
<1>3. /\ t \in Seq(Perms) /\ Len(t) \in 0..5
      /\ \A i, j \in 1..Len(t) : t[i] = t[j] => i = j
  <2>1. CASE t = ACLPerms
    <3>1. t \in Seq(Perms) /\ Len(t) = 5
      BY <1>1, <2>1
    <3>2. \A i, j \in 1..5 : t[i] = t[j] => i = j
      BY <1>1, <2>1
    <3> QED
      BY <3>1, <3>2
  <2>2. CASE t = <<>>
    BY <2>2
  <2>3. ASSUME NEW p \in Perms, t = <<p>>
        PROVE  /\ t \in Seq(Perms) /\ Len(t) \in 0..5
               /\ \A i, j \in 1..Len(t) : t[i] = t[j] => i = j
    BY <2>3
  <2> QED
    BY <1>2, <2>1, <2>2, <2>3
<1>4. \A i \in 1..Len(t) : t[i] \in Perms /\ Contains(t, t[i])
  BY <1>3 DEF Contains
<1> QED
  BY <1>1, <1>3, <1>4 DEF t

-----------------------------------------------------------------------------
(* The inductive invariant.                                                *)

ExactOf(e) ==
    pc[e] \in {"edit", "put", "done"} =>
        \A p \in Perms \ disturbed[e] :
            /\ (\E i \in 1..(at[e] - 1) : Targets(e)[i] = p) =>
                /\ ToSet(acl[p].actors) =
                       Expected(e, base[e][p].actors, ActorsOf[e])
                /\ ToSet(acl[p].groups) =
                       Expected(e, base[e][p].groups, GroupsOf[e])
            /\ ~Contains(Targets(e), p) => acl[p] = base[e][p]

LEMMA ExactSplit ==
    /\ EditIsExact <=> \A e \in Editors : ExactOf(e)
    /\ EditIsExact' <=> \A e \in Editors : ExactOf(e)'
BY DEF EditIsExact, ExactOf

LEMMA InitIInv ==
    Init => IInv
<1> SUFFICES ASSUME Init PROVE IInv
  OBVIOUS
<1>1. TypeOK
  <2>1. NoACL \in [Perms -> ACEs]
    BY DEF NoACL, ACEs
  <2>2. 1 \in 1..(Len(ACLPerms) + 1)
    BY TargetsAre
  <2> QED
    BY <2>1, <2>2, InitialAssumption DEF Init, TypeOK
<1>2. \A p \in Perms : Unique(NoACL[p]) /\ MayHold(p, NoACL[p])
  BY DEF NoACL, Unique, MayHold, IsInjective, ToSet
<1>3. DuplicatesInv
  BY <1>2, InitialAssumption DEF Init, DuplicatesInv, NoDuplicates
<1>4. GrantedInv
  BY <1>2 DEF Init, GrantedInv, OnlyGranted, MayHold
<1>5. LoopInv /\ EditIsExact
  BY DEF Init, LoopInv, LoopOf, EditIsExact
<1> QED
  BY <1>1, <1>3, <1>4, <1>5 DEF IInv

(* Nothing about an editor changes if it does not move, and an entry that  *)
(* somebody else writes counts as disturbed.                               *)
LEMMA OthersStay ==
    ASSUME TypeOK, NEW f \in Editors, LoopOf(f), ExactOf(f),
           pc'[f] = pc[f], at'[f] = at[f], copy'[f] = copy[f],
           base'[f] = base[f],
           \A p \in Perms : pc[f] \in {"edit", "put", "done"}
               /\ p \notin disturbed'[f] =>
                   p \notin disturbed[f] /\ acl'[p] = acl[p]
    PROVE  LoopOf(f)' /\ ExactOf(f)'
<1>1. \A i \in at[f]..Len(Targets(f)) : Targets(f)[i] \in Perms
  <2>1. at[f] \in 1..(Len(ACLPerms) + 1)
    BY DEF TypeOK
  <2> QED
    BY <2>1, TargetsAre
<1>2. ExactOf(f)'
  BY DEF ExactOf
<1>3. LoopOf(f)'
  BY <1>1 DEF LoopOf, Target
<1> QED
  BY <1>2, <1>3

LEMMA SameEntries ==
    ASSUME DuplicatesInv, GrantedInv, UNCHANGED <<copy, acl, late, base>>
    PROVE  DuplicatesInv' /\ GrantedInv'
BY DEF DuplicatesInv, NoDuplicates, GrantedInv, OnlyGranted

(* Whoever makes a step has no request left behind.                        *)
LEMMA LateStays ==
    ASSUME LoopInv, TypeOK, NEW e \in Editors, pc[e] # "failed",
           \A f \in Editors \ {e} : pc'[f] = pc[f],
           \A q \in late' : q \in late \/ (q.editor = e /\ pc'[e] = "failed")
    PROVE  \A q \in late' : pc'[q.editor] = "failed"
BY DEF LoopInv, TypeOK, Writes

LEMMA ReplaceKeeps ==
    ASSUME TypeOK, NoDuplicates, OnlyGranted, NEW e \in Editors,
           NEW perm \in Perms, NEW ace \in ACEs, Unique(ace),
           MayHold(perm, ace), Replace(e, perm, ace)
    PROVE  /\ acl' \in [Perms -> ACEs] /\ NoDuplicates' /\ OnlyGranted'
           /\ acl'[perm] = ace /\ \A p \in Perms \ {perm} : acl'[p] = acl[p]
           /\ disturbed' \in [Editors -> SUBSET Perms]
           /\ disturbed'[e] = disturbed[e]
           /\ \A f \in Editors : disturbed[f] \subseteq disturbed'[f]
           /\ \A f \in Editors \ {e} :
                 pc[f] \notin {"idle", "get"} => perm \in disturbed'[f]
<1>1. /\ acl' = [acl EXCEPT ![perm] = ace]
      /\ disturbed' = [f \in Editors |->
             IF f # e /\ pc[f] \notin {"idle", "get"}
             THEN disturbed[f] \cup {perm} ELSE disturbed[f]]
  BY DEF Replace
<1>2. /\ acl \in [Perms -> ACEs]
      /\ disturbed \in [Editors -> SUBSET Perms]
  BY DEF TypeOK
<1>3. /\ acl' \in [Perms -> ACEs] /\ acl'[perm] = ace
      /\ \A p \in Perms \ {perm} : acl'[p] = acl[p]
  BY <1>1, <1>2
<1>4. NoDuplicates' /\ OnlyGranted'
  BY <1>3 DEF NoDuplicates, OnlyGranted
<1> QED
  BY <1>1, <1>2, <1>3, <1>4

(* The editors' steps.                                                     *)

LEMMA CallStep ==
    ASSUME IInv, NEW e \in Editors, Call(e) PROVE IInv'
<1>0. TypeOK /\ DuplicatesInv /\ GrantedInv /\ LoopInv /\ EditIsExact
  BY DEF IInv
<1>1. /\ pc[e] = "idle" /\ UNCHANGED <<at, copy, acl, late, base, disturbed>>
      /\ pc' \in [Editors -> {"idle", "get", "edit", "put", "done", "failed"}]
      /\ pc'[e] \in {"failed", "get"}
      /\ \A f \in Editors \ {e} : pc'[f] = pc[f]
  BY <1>0 DEF Call, Goto, TypeOK
<1>2. TypeOK'
  BY <1>0, <1>1 DEF TypeOK
<1>3. DuplicatesInv' /\ GrantedInv'
  BY <1>0, <1>1, SameEntries
<1>4. \A f \in Editors : LoopOf(f)' /\ ExactOf(f)'
  <2>1. LoopOf(e)' /\ ExactOf(e)'
    BY <1>0, <1>1 DEF LoopInv, LoopOf, ExactOf
  <2>2. ASSUME NEW f \in Editors \ {e} PROVE LoopOf(f)' /\ ExactOf(f)'
    BY <1>0, <1>1, OthersStay, ExactSplit DEF LoopInv
  <2> QED
    BY <2>1, <2>2
<1>5. \A q \in late' : pc'[q.editor] = "failed"
  BY <1>0, <1>1, LateStays
<1> QED
  BY <1>2, <1>3, <1>4, <1>5, ExactSplit DEF IInv, LoopInv

LEMMA GetStep ==
    ASSUME IInv, NEW e \in Editors, Get(e) PROVE IInv'
<1>0. TypeOK /\ DuplicatesInv /\ GrantedInv /\ LoopInv /\ EditIsExact
  BY DEF IInv
<1>1. /\ pc[e] = "get" /\ UNCHANGED <<at, acl, late, disturbed>>
      /\ pc' \in [Editors -> {"idle", "get", "edit", "put", "done", "failed"}]
      /\ \A f \in Editors \ {e} : pc'[f] = pc[f]
      /\ \/ /\ pc'[e] = "edit"
            /\ copy' = [copy EXCEPT ![e] = acl]
            /\ base' = [base EXCEPT ![e] = acl]
         \/ pc'[e] = "failed" /\ UNCHANGED <<copy, base>>
  BY <1>0 DEF Get, Goto, TypeOK
<1>2. /\ copy' \in [Editors -> [Perms -> ACEs]]
      /\ base' \in [Editors -> [Perms -> ACEs]]
      /\ \A f \in Editors \ {e} : copy'[f] = copy[f] /\ base'[f] = base[f]
      /\ pc'[e] = "edit" => copy'[e] = acl /\ base'[e] = acl
      /\ pc'[e] # "edit" => copy'[e] = copy[e] /\ base'[e] = base[e]
      /\ at[e] = 1
  BY <1>0, <1>1 DEF TypeOK, LoopInv, LoopOf
<1>3. TypeOK'
  BY <1>0, <1>1, <1>2 DEF TypeOK
<1>4. DuplicatesInv'
  <2>1. ASSUME NEW f \in Editors, NEW p \in Perms
        PROVE  Unique(copy'[f][p]) /\ Unique(base'[f][p])
    BY <1>0, <1>1, <1>2 DEF DuplicatesInv, NoDuplicates
  <2> QED
    BY <1>0, <1>1, <2>1 DEF DuplicatesInv, NoDuplicates
<1>5. GrantedInv'
  <2>1. ASSUME NEW f \in Editors, NEW p \in Perms
        PROVE  MayHold(p, copy'[f][p])
    BY <1>0, <1>1, <1>2 DEF GrantedInv, OnlyGranted
  <2> QED
    BY <1>0, <1>1, <2>1 DEF GrantedInv, OnlyGranted
<1>6. \A f \in Editors : LoopOf(f)' /\ ExactOf(f)'
  <2>1. LoopOf(e)'
    <3>1. Len(Targets(e)) \in Nat
      BY TargetsAre
    <3> QED
      BY <1>1, <1>2, <3>1 DEF LoopOf
  <2>2. ExactOf(e)'
    BY <1>1, <1>2 DEF ExactOf
  <2>3. ASSUME NEW f \in Editors \ {e} PROVE LoopOf(f)' /\ ExactOf(f)'
    BY <1>0, <1>1, <1>2, OthersStay, ExactSplit DEF LoopInv
  <2> QED
    BY <2>1, <2>2, <2>3
<1>7. \A q \in late' : pc'[q.editor] = "failed"
  BY <1>0, <1>1, LateStays
<1> QED
  BY <1>3, <1>4, <1>5, <1>6, <1>7, ExactSplit DEF IInv, LoopInv

LEMMA DoneStep ==
    ASSUME IInv, NEW e \in Editors, Done(e) PROVE IInv'
<1>0. TypeOK /\ DuplicatesInv /\ GrantedInv /\ LoopInv /\ EditIsExact
  BY DEF IInv
<1>1. /\ pc[e] = "edit" /\ UNCHANGED <<at, copy, acl, late, base, disturbed>>
      /\ pc' \in [Editors -> {"idle", "get", "edit", "put", "done", "failed"}]
      /\ pc'[e] = "done" /\ at[e] > Len(Targets(e))
      /\ \A f \in Editors \ {e} : pc'[f] = pc[f]
  BY <1>0 DEF Done, Goto, TypeOK
<1>2. TypeOK'
  BY <1>0, <1>1 DEF TypeOK
<1>3. DuplicatesInv' /\ GrantedInv'
  BY <1>0, <1>1, SameEntries
<1>4. \A f \in Editors : LoopOf(f)' /\ ExactOf(f)'
  <2>1. LoopOf(e)' /\ ExactOf(e)'
    <3>1. LoopOf(e) /\ ExactOf(e)
      BY <1>0, ExactSplit DEF LoopInv
    <3>2. ExactOf(e)'
      BY <1>1, <3>1 DEF ExactOf
    <3>3. LoopOf(e)'
      BY <1>1, <3>1 DEF LoopOf
    <3> QED
      BY <3>2, <3>3
  <2>2. ASSUME NEW f \in Editors \ {e} PROVE LoopOf(f)' /\ ExactOf(f)'
    BY <1>0, <1>1, OthersStay, ExactSplit DEF LoopInv
  <2> QED
    BY <2>1, <2>2
<1>5. \A q \in late' : pc'[q.editor] = "failed"
  BY <1>0, <1>1, LateStays
<1> QED
  BY <1>2, <1>3, <1>4, <1>5, ExactSplit DEF IInv, LoopInv

LEMMA EditStep ==
    ASSUME IInv, NEW e \in Editors, Edit(e) PROVE IInv'
<1> DEFINE t == Target(e)
           edited == Edited(e, copy[e][t])
<1>0. TypeOK /\ DuplicatesInv /\ GrantedInv /\ LoopInv /\ EditIsExact
  BY DEF IInv
<1>1. /\ pc[e] = "edit" /\ UNCHANGED <<acl, late, base, disturbed>>
      /\ at[e] <= Len(Targets(e)) /\ copy' = [copy EXCEPT ![e][t] = edited.ace]
      /\ IF edited.changed THEN pc' = [pc EXCEPT ![e] = "put"] /\ at' = at
                           ELSE at' = [at EXCEPT ![e] = @ + 1] /\ pc' = pc
  BY DEF Edit, Goto, ACEFor
<1>2. /\ at[e] \in 1..Len(Targets(e)) /\ Len(Targets(e)) <= Len(ACLPerms)
      /\ Len(ACLPerms) \in Nat /\ Len(Targets(e)) \in Nat
      /\ t = Targets(e)[at[e]] /\ t \in Perms /\ Contains(Targets(e), t)
  BY <1>0, <1>1, TargetsAre DEF TypeOK, Target
<1>3. LoopOf(e) /\ ExactOf(e)
  BY <1>0, ExactSplit DEF LoopInv
<1>4. copy[e][t] = base[e][t] /\ (t \notin disturbed[e] => acl[t] = base[e][t])
  BY <1>1, <1>2, <1>3 DEF LoopOf
<1>5. copy[e][t] \in ACEs /\ Unique(copy[e][t]) /\ MayHold(t, copy[e][t])
  BY <1>0, <1>2 DEF TypeOK, DuplicatesInv, GrantedInv
<1>6. /\ edited.ace \in ACEs /\ Unique(edited.ace) /\ MayHold(t, edited.ace)
      /\ edited.changed \in BOOLEAN
      /\ ~edited.changed =>
            /\ ToSet(copy[e][t].actors) =
                   Expected(e, copy[e][t].actors, ActorsOf[e])
            /\ ToSet(copy[e][t].groups) =
                   Expected(e, copy[e][t].groups, GroupsOf[e])
  BY <1>2, <1>5, EditedIsExact, EditedMayHold
<1>7. /\ copy' \in [Editors -> [Perms -> ACEs]]
      /\ copy'[e][t] = edited.ace
      /\ \A p \in Perms \ {t} : copy'[e][p] = copy[e][p]
      /\ \A f \in Editors \ {e} : copy'[f] = copy[f]
  BY <1>0, <1>1, <1>2, <1>6 DEF TypeOK
<1>8. edited = Edited(e, base[e][t])
  BY <1>4
<1>9. /\ pc' \in [Editors -> {"idle", "get", "edit", "put", "done", "failed"}]
      /\ at' \in [Editors -> 1..(Len(ACLPerms) + 1)]
      /\ \A f \in Editors \ {e} : pc'[f] = pc[f] /\ at'[f] = at[f]
      /\ edited.changed => pc'[e] = "put" /\ at'[e] = at[e]
      /\ ~edited.changed => pc'[e] = "edit" /\ at'[e] = at[e] + 1
  <2> HIDE DEF t, edited
  <2>1. CASE edited.changed
    <3>1. pc' = [pc EXCEPT ![e] = "put"] /\ at' = at
      BY <1>1, <2>1
    <3>2. pc' \in [Editors -> {"idle", "get", "edit", "put", "done", "failed"}]
          /\ pc'[e] = "put" /\ \A f \in Editors \ {e} : pc'[f] = pc[f]
      BY <1>0, <3>1 DEF TypeOK
    <3> QED
      BY <1>0, <2>1, <3>1, <3>2 DEF TypeOK
  <2>2. CASE ~edited.changed
    <3>1. pc' = pc /\ at' = [at EXCEPT ![e] = @ + 1]
      BY <1>1, <2>2
    <3>2. at[e] + 1 \in 1..(Len(ACLPerms) + 1)
      BY <1>2
    <3>3. at' \in [Editors -> 1..(Len(ACLPerms) + 1)]
          /\ at'[e] = at[e] + 1 /\ \A f \in Editors \ {e} : at'[f] = at[f]
      BY <1>0, <3>1, <3>2 DEF TypeOK
    <3> QED
      BY <1>0, <1>1, <2>2, <3>1, <3>3 DEF TypeOK
  <2> QED
    BY <2>1, <2>2
<1> HIDE DEF t, edited
<1>10. TypeOK'
  BY <1>0, <1>1, <1>7, <1>9 DEF TypeOK
<1>11. DuplicatesInv'
  <2>1. ASSUME NEW f \in Editors, NEW p \in Perms PROVE Unique(copy'[f][p])
    BY <1>0, <1>6, <1>7 DEF DuplicatesInv
  <2> QED
    BY <1>0, <1>1, <2>1 DEF DuplicatesInv, NoDuplicates
<1>12. GrantedInv'
  <2>1. ASSUME NEW f \in Editors, NEW p \in Perms PROVE MayHold(p, copy'[f][p])
    BY <1>0, <1>6, <1>7 DEF GrantedInv
  <2> QED
    BY <1>0, <1>1, <2>1 DEF GrantedInv, OnlyGranted
<1>13. LoopOf(e)'
  <2>1. ASSUME NEW i \in at[e]..Len(Targets(e)), i # at[e]
        PROVE  /\ Targets(e)[i] \in Perms \ {t}
               /\ copy'[e][Targets(e)[i]] = base[e][Targets(e)[i]]
    <3>1. i \in 1..Len(Targets(e))
      BY <1>2
    <3>2. Targets(e)[i] \in Perms \ {t}
      BY <1>2, <2>1, <3>1, TargetsAre
    <3>3. copy[e][Targets(e)[i]] = base[e][Targets(e)[i]]
      BY <1>1, <1>3 DEF LoopOf
    <3> QED
      BY <1>7, <3>2, <3>3
  <2>2. \A i \in at[e]..Len(Targets(e)) :
            Targets(e)[i] \notin disturbed[e] =>
                acl[Targets(e)[i]] = base[e][Targets(e)[i]]
    BY <1>1, <1>3 DEF LoopOf
  <2>3. CASE edited.changed
    <3>1. Target(e)' = t
      BY <1>2, <1>9, <2>3 DEF Target, t
    <3> QED
      BY <1>1, <1>2, <1>7, <1>8, <1>9, <2>1, <2>2, <2>3, <3>1 DEF LoopOf
  <2>4. CASE ~edited.changed
    <3>1. \A i \in at'[e]..Len(Targets(e)) :
              i \in at[e]..Len(Targets(e)) /\ i # at[e]
      BY <1>2, <1>9, <2>4
    <3> QED
      BY <1>1, <1>2, <1>9, <2>1, <2>2, <2>4, <3>1 DEF LoopOf
  <2> QED
    BY <2>3, <2>4
<1>14. ExactOf(e)'
  <2>1. CASE edited.changed
    BY <1>1, <1>3, <1>9, <2>1 DEF ExactOf
  <2>2. CASE ~edited.changed
    <3>1. ASSUME NEW p \in Perms \ disturbed[e],
                 NEW i \in 1..(at'[e] - 1), Targets(e)[i] = p
          PROVE  /\ ToSet(acl[p].actors) =
                        Expected(e, base[e][p].actors, ActorsOf[e])
                 /\ ToSet(acl[p].groups) =
                        Expected(e, base[e][p].groups, GroupsOf[e])
      <4>1. CASE i = at[e]
        BY <1>2, <1>4, <1>6, <2>2, <3>1, <4>1
      <4>2. CASE i # at[e]
        <5>1. i \in 1..(at[e] - 1)
          BY <1>2, <1>9, <2>2, <4>2
        <5> QED
          BY <1>1, <1>3, <3>1, <5>1 DEF ExactOf
      <4> QED
        BY <4>1, <4>2
    <3> QED
      BY <1>1, <1>3, <3>1 DEF ExactOf
  <2> QED
    BY <2>1, <2>2
<1>15. ASSUME NEW f \in Editors \ {e} PROVE LoopOf(f)' /\ ExactOf(f)'
  BY <1>0, <1>1, <1>7, <1>9, OthersStay, ExactSplit DEF LoopInv
<1>16. \A q \in late' : pc'[q.editor] = "failed"
  BY <1>0, <1>1, <1>9, LateStays
<1> QED
  BY <1>10, <1>11, <1>12, <1>13, <1>14, <1>15, <1>16, ExactSplit
  DEF IInv, LoopInv

LEMMA SetPermissionStep ==
    ASSUME IInv, NEW e \in Editors, SetPermission(e) PROVE IInv'
<1> DEFINE t == Target(e)
           ace == copy[e][t]
<1>0. TypeOK /\ DuplicatesInv /\ GrantedInv /\ LoopInv /\ EditIsExact
  BY DEF IInv
<1>1. /\ pc[e] = "put" /\ UNCHANGED <<copy, late, base>> /\ Replace(e, t, ace)
      /\ \/ pc' = [pc EXCEPT ![e] = "edit"] /\ at' = [at EXCEPT ![e] = @ + 1]
         \/ pc' = [pc EXCEPT ![e] = "failed"] /\ at' = at
  BY DEF SetPermission, Goto
<1>2. LoopOf(e) /\ ExactOf(e)
  BY <1>0, ExactSplit DEF LoopInv
<1>3. /\ at[e] \in 1..Len(Targets(e)) /\ Len(Targets(e)) <= Len(ACLPerms)
      /\ Len(ACLPerms) \in Nat /\ Len(Targets(e)) \in Nat
      /\ t = Targets(e)[at[e]] /\ t \in Perms /\ Contains(Targets(e), t)
      /\ ace = Edited(e, base[e][t]).ace
  <2>1. at[e] \in 1..(Len(ACLPerms) + 1) /\ at[e] <= Len(Targets(e))
    BY <1>0, <1>1, <1>2 DEF TypeOK, LoopOf
  <2> QED
    BY <1>1, <1>2, <2>1, TargetsAre DEF Target, LoopOf
<1>4. ace \in ACEs /\ Unique(ace) /\ MayHold(t, ace)
  BY <1>0, <1>3 DEF TypeOK, DuplicatesInv, GrantedInv
<1>5. /\ ToSet(ace.actors) = Expected(e, base[e][t].actors, ActorsOf[e])
      /\ ToSet(ace.groups) = Expected(e, base[e][t].groups, GroupsOf[e])
  BY <1>0, <1>3, EditedIsExact DEF TypeOK, DuplicatesInv
<1> HIDE DEF t, ace
<1>6. /\ acl' \in [Perms -> ACEs] /\ NoDuplicates' /\ OnlyGranted'
      /\ acl'[t] = ace /\ \A p \in Perms \ {t} : acl'[p] = acl[p]
      /\ disturbed' \in [Editors -> SUBSET Perms]
      /\ disturbed'[e] = disturbed[e]
      /\ \A f \in Editors : disturbed[f] \subseteq disturbed'[f]
      /\ \A f \in Editors \ {e} :
            pc[f] \notin {"idle", "get"} => t \in disturbed'[f]
  BY <1>0, <1>1, <1>3, <1>4, ReplaceKeeps DEF DuplicatesInv, GrantedInv
<1>7. /\ pc' \in [Editors -> {"idle", "get", "edit", "put", "done", "failed"}]
      /\ at' \in [Editors -> 1..(Len(ACLPerms) + 1)]
      /\ \A f \in Editors \ {e} : pc'[f] = pc[f] /\ at'[f] = at[f]
      /\ \/ pc'[e] = "edit" /\ at'[e] = at[e] + 1
         \/ pc'[e] = "failed"
  <2>1. CASE pc' = [pc EXCEPT ![e] = "edit"] /\ at' = [at EXCEPT ![e] = @ + 1]
    <3>1. at[e] + 1 \in 1..(Len(ACLPerms) + 1)
      BY <1>3
    <3>2. at' \in [Editors -> 1..(Len(ACLPerms) + 1)]
          /\ at'[e] = at[e] + 1 /\ \A f \in Editors \ {e} : at'[f] = at[f]
      BY <1>0, <2>1, <3>1 DEF TypeOK
    <3>3. pc' \in [Editors -> {"idle", "get", "edit", "put", "done", "failed"}]
          /\ pc'[e] = "edit" /\ \A f \in Editors \ {e} : pc'[f] = pc[f]
      BY <1>0, <2>1 DEF TypeOK
    <3> QED
      BY <3>2, <3>3
  <2>2. CASE pc' = [pc EXCEPT ![e] = "failed"] /\ at' = at
    <3>1. pc' \in [Editors -> {"idle", "get", "edit", "put", "done", "failed"}]
          /\ pc'[e] = "failed" /\ \A f \in Editors \ {e} : pc'[f] = pc[f]
      BY <1>0, <2>2 DEF TypeOK
    <3> QED
      BY <1>0, <2>2, <3>1 DEF TypeOK
  <2> QED
    BY <1>1, <2>1, <2>2
<1>8. TypeOK'
  BY <1>0, <1>1, <1>6, <1>7 DEF TypeOK
<1>9. DuplicatesInv' /\ GrantedInv'
  BY <1>0, <1>1, <1>6 DEF DuplicatesInv, GrantedInv
<1>10. ASSUME NEW i \in 1..Len(Targets(e)), i # at[e]
       PROVE  /\ Targets(e)[i] \in Perms \ {t}
              /\ acl'[Targets(e)[i]] = acl[Targets(e)[i]]
  <2>1. Targets(e)[i] \in Perms \ {t}
    BY <1>3, <1>10, TargetsAre
  <2> QED
    BY <1>6, <2>1
<1>11. LoopOf(e)'
  <2>1. CASE pc'[e] = "failed"
    BY <2>1 DEF LoopOf
  <2>2. CASE pc'[e] = "edit" /\ at'[e] = at[e] + 1
    <3>1. ASSUME NEW i \in at'[e]..Len(Targets(e))
          PROVE  /\ copy'[e][Targets(e)[i]] = base'[e][Targets(e)[i]]
                 /\ Targets(e)[i] \notin disturbed'[e] =>
                       acl'[Targets(e)[i]] = base'[e][Targets(e)[i]]
      <4>1. /\ i \in 1..Len(Targets(e)) /\ i # at[e]
            /\ i \in at[e]..Len(Targets(e))
        BY <1>3, <2>2
      <4>2. /\ copy[e][Targets(e)[i]] = base[e][Targets(e)[i]]
            /\ Targets(e)[i] \notin disturbed[e] =>
                  acl[Targets(e)[i]] = base[e][Targets(e)[i]]
        BY <1>1, <1>2, <4>1 DEF LoopOf
      <4> QED
        BY <1>1, <1>6, <1>10, <4>1, <4>2
    <3>2. at'[e] <= Len(Targets(e)) + 1
      BY <1>3, <2>2
    <3> QED
      BY <2>2, <3>1, <3>2 DEF LoopOf
  <2> QED
    BY <1>7, <2>1, <2>2
<1>12. ExactOf(e)'
  <2>1. CASE pc'[e] = "failed"
    BY <2>1 DEF ExactOf
  <2>2. CASE pc'[e] = "edit" /\ at'[e] = at[e] + 1
    <3>1. ASSUME NEW p \in Perms \ disturbed'[e],
                 NEW i \in 1..(at'[e] - 1), Targets(e)[i] = p
          PROVE  /\ ToSet(acl'[p].actors) =
                        Expected(e, base'[e][p].actors, ActorsOf[e])
                 /\ ToSet(acl'[p].groups) =
                        Expected(e, base'[e][p].groups, GroupsOf[e])
      <4>1. CASE i = at[e]
        BY <1>1, <1>3, <1>5, <1>6, <3>1, <4>1
      <4>2. CASE i # at[e]
        <5>1. i \in 1..(at[e] - 1) /\ i \in 1..Len(Targets(e))
          BY <1>3, <2>2, <4>2
        <5>2. p \in Perms \ disturbed[e] /\ acl'[p] = acl[p]
          BY <1>6, <1>10, <3>1, <4>2, <5>1
        <5> QED
          BY <1>1, <1>2, <3>1, <5>1, <5>2 DEF ExactOf
      <4> QED
        BY <4>1, <4>2
    <3>2. ASSUME NEW p \in Perms \ disturbed'[e], ~Contains(Targets(e), p)
          PROVE  acl'[p] = base'[e][p]
      BY <1>1, <1>2, <1>3, <1>6, <3>2 DEF ExactOf
    <3> QED
      BY <3>1, <3>2 DEF ExactOf
  <2> QED
    BY <1>7, <2>1, <2>2
<1>13. ASSUME NEW f \in Editors \ {e} PROVE LoopOf(f)' /\ ExactOf(f)'
  <2>1. \A p \in Perms : pc[f] \in {"edit", "put", "done"}
            /\ p \notin disturbed'[f] =>
                p \notin disturbed[f] /\ acl'[p] = acl[p]
    BY <1>6
  <2> QED
    BY <1>0, <1>1, <1>7, <2>1, OthersStay, ExactSplit DEF LoopInv
<1>14. \A q \in late' : pc'[q.editor] = "failed"
  BY <1>0, <1>1, <1>7, LateStays
<1> QED
  BY <1>8, <1>9, <1>11, <1>12, <1>13, <1>14, ExactSplit DEF IInv, LoopInv

LEMMA SetFailsStep ==
    ASSUME IInv, NEW e \in Editors, SetFails(e) PROVE IInv'
<1> DEFINE t == Target(e)
           q == [editor |-> e, perm |-> t, ace |-> copy[e][t]]
<1>0. TypeOK /\ DuplicatesInv /\ GrantedInv /\ LoopInv /\ EditIsExact
  BY DEF IInv
<1>1. /\ pc[e] = "put" /\ UNCHANGED <<at, copy, acl, base, disturbed>>
      /\ pc' = [pc EXCEPT ![e] = "failed"]
      /\ late' = late \/ late' = late \cup {q}
  BY DEF SetFails, Goto
<1>2. t \in Perms
  <2>1. at[e] \in 1..(Len(ACLPerms) + 1) /\ at[e] <= Len(Targets(e))
    BY <1>0, <1>1 DEF TypeOK, LoopInv, LoopOf
  <2> QED
    BY <2>1, TargetsAre DEF Target
<1>3. /\ q \in Writes /\ Unique(q.ace) /\ MayHold(q.perm, q.ace)
      /\ q.editor = e
  BY <1>0, <1>2 DEF TypeOK, Writes, DuplicatesInv, GrantedInv
<1>4. /\ pc' \in [Editors -> {"idle", "get", "edit", "put", "done", "failed"}]
      /\ pc'[e] = "failed" /\ \A f \in Editors \ {e} : pc'[f] = pc[f]
  BY <1>0, <1>1 DEF TypeOK
<1> HIDE DEF t, q
<1>5. TypeOK'
  BY <1>0, <1>1, <1>3, <1>4 DEF TypeOK
<1>6. DuplicatesInv' /\ GrantedInv'
  BY <1>0, <1>1, <1>3 DEF DuplicatesInv, NoDuplicates, GrantedInv, OnlyGranted
<1>7. LoopOf(e)' /\ ExactOf(e)'
  BY <1>4 DEF LoopOf, ExactOf
<1>8. ASSUME NEW f \in Editors \ {e} PROVE LoopOf(f)' /\ ExactOf(f)'
  BY <1>0, <1>1, <1>4, OthersStay, ExactSplit DEF LoopInv
<1>9. \A r \in late' : pc'[r.editor] = "failed"
  BY <1>0, <1>1, <1>3, <1>4, LateStays
<1> QED
  BY <1>5, <1>6, <1>7, <1>8, <1>9, ExactSplit DEF IInv, LoopInv

(* A late request belongs to an editor that has failed, and disturbs       *)
(* everybody else.                                                         *)
LEMMA ServeLateStep ==
    ASSUME IInv, NEW q \in late, ServeLate(q) PROVE IInv'
<1> DEFINE e == q.editor
<1>0. TypeOK /\ DuplicatesInv /\ GrantedInv /\ LoopInv /\ EditIsExact
  BY DEF IInv
<1>1. /\ UNCHANGED <<pc, at, copy, base>> /\ Replace(e, q.perm, q.ace)
      /\ late' = late \ {q}
  BY DEF ServeLate
<1>2. /\ e \in Editors /\ q.perm \in Perms /\ q.ace \in ACEs
      /\ Unique(q.ace) /\ MayHold(q.perm, q.ace) /\ pc[e] = "failed"
  BY <1>0 DEF TypeOK, Writes, DuplicatesInv, GrantedInv, LoopInv
<1> HIDE DEF e
<1>3. /\ acl' \in [Perms -> ACEs] /\ NoDuplicates' /\ OnlyGranted'
      /\ \A p \in Perms \ {q.perm} : acl'[p] = acl[p]
      /\ disturbed' \in [Editors -> SUBSET Perms]
      /\ \A f \in Editors : disturbed[f] \subseteq disturbed'[f]
      /\ \A f \in Editors \ {e} :
            pc[f] \notin {"idle", "get"} => q.perm \in disturbed'[f]
  BY <1>0, <1>1, <1>2, ReplaceKeeps DEF DuplicatesInv, GrantedInv
<1>4. TypeOK'
  BY <1>0, <1>1, <1>3 DEF TypeOK
<1>5. DuplicatesInv' /\ GrantedInv'
  BY <1>0, <1>1, <1>3 DEF DuplicatesInv, GrantedInv
<1>6. LoopOf(e)' /\ ExactOf(e)'
  BY <1>1, <1>2 DEF LoopOf, ExactOf
<1>7. ASSUME NEW f \in Editors \ {e} PROVE LoopOf(f)' /\ ExactOf(f)'
  <2>1. \A p \in Perms : pc[f] \in {"edit", "put", "done"}
            /\ p \notin disturbed'[f] =>
                p \notin disturbed[f] /\ acl'[p] = acl[p]
    BY <1>3
  <2> QED
    BY <1>0, <1>1, <2>1, OthersStay, ExactSplit DEF LoopInv
<1>8. \A r \in late' : pc'[r.editor] = "failed"
  BY <1>0, <1>1 DEF LoopInv
<1> QED
  BY <1>2, <1>4, <1>5, <1>6, <1>7, <1>8, ExactSplit DEF IInv, LoopInv

LEMMA NextIInv ==
    IInv /\ [Next]_vars => IInv'
<1> SUFFICES ASSUME IInv, [Next]_vars PROVE IInv'
  OBVIOUS
<1>1. CASE UNCHANGED vars
  <2>0. TypeOK /\ DuplicatesInv /\ GrantedInv /\ LoopInv /\ EditIsExact
    BY DEF IInv
  <2>1. TypeOK'
    BY <1>1, <2>0 DEF TypeOK, vars
  <2>2. DuplicatesInv' /\ GrantedInv'
    BY <1>1, <2>0, SameEntries DEF vars
  <2>3. ASSUME NEW f \in Editors PROVE LoopOf(f)' /\ ExactOf(f)'
    BY <1>1, <2>0, OthersStay, ExactSplit DEF LoopInv, vars
  <2>4. \A q \in late' : pc'[q.editor] = "failed"
    BY <1>1, <2>0 DEF LoopInv, vars
  <2> QED
    BY <2>1, <2>2, <2>3, <2>4, ExactSplit DEF IInv, LoopInv
<1> QED
  BY <1>1, CallStep, GetStep, EditStep, DoneStep, SetPermissionStep,
     SetFailsStep, ServeLateStep
  DEF Next, Step, Terminated

(* For any editors, permissions and lists of members, with requests lost   *)
(* and late in any order.                                                  *)
THEOREM Invariance == Spec => []IInv
BY InitIInv, NextIInv, PTL DEF Spec

(* The variables always have their types.                                  *)
THEOREM TypeCorrect == Spec => []TypeOK
BY Invariance, PTL DEF IInv

(* No entry on the server ever lists a name twice, so removeMembers, which *)
(* deletes the first occurrence, deletes the member.                       *)
THEOREM EntriesAreUnique == Spec => []NoDuplicates
BY Invariance, PTL DEF IInv, DuplicatesInv

(* Nobody gains a permission that no editor grants him.                    *)
THEOREM NothingElseIsGranted == Spec => []OnlyGranted
BY Invariance, PTL DEF IInv, GrantedInv

(* An edit that nobody disturbs does all of its work and nothing else.     *)
THEOREM EditsAreExact == Spec => []EditIsExact
BY Invariance, PTL DEF IInv

=============================================================================
