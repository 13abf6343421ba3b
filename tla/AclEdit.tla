------------------------------- MODULE AclEdit -------------------------------
(***************************************************************************)
(* The read-modify-write of an access-control list that acls.go is made    *)
(* for: ExpandPerm names the permissions, Get fetches the whole ACL, and   *)
(* for each permission ACEFor selects its entry, AddMembers (grant) or     *)
(* RemoveMembers (revoke) edits it in place, and SetPermission writes it   *)
(* back if it changed. Several editors do so at once, on the same object.  *)
(*                                                                         *)
(* The loop around these calls is the caller's, in the order the comments  *)
(* of acls.go give. The server is external: it answers Get with the whole  *)
(* list and replaces one entry with each SetPermission. A SetPermission    *)
(* that failed may have been served, or may be served later.               *)
(***************************************************************************)
EXTENDS Naturals, Sequences, SequencesExt

CONSTANTS
    Actors,            \* names of users and clients
    Groups,            \* names of groups
    Editors,           \* callers that edit the ACL
    PermOf,            \* the permission argument of each: one, "all" or junk
    OpOf,              \* "add" or "remove"
    ActorsOf,          \* the actors it adds or removes, in order
    GroupsOf,          \* and the groups
    InitialACL         \* the ACL on the server at the start

ACLPerms == <<"create", "read", "update", "delete", "grant">>
Perms == ToSet(ACLPerms)

ACEs == [actors : Seq(Actors), groups : Seq(Groups)]
Unique(ace) == IsInjective(ace.actors) /\ IsInjective(ace.groups)

(* No entry lists a name twice at the start; the arguments may.            *)
ASSUME InitialAssumption ==
    /\ InitialACL \in [Perms -> ACEs]
    /\ \A p \in Perms : Unique(InitialACL[p])
ASSUME EditorAssumption ==
    /\ OpOf \in [Editors -> {"add", "remove"}]
    /\ ActorsOf \in [Editors -> Seq(Actors)]
    /\ GroupsOf \in [Editors -> Seq(Groups)]

VARIABLES
    pc,                \* the next step of each editor
    at,                \* position of its loop over the permissions
    copy,              \* the ACL it has fetched and edits in place
    acl,               \* the ACL on the server
    late,              \* writes given up by their call but still under way
    base,              \* history: the ACL as the editor fetched it
    disturbed          \* history: entries others wrote since

vars == <<pc, at, copy, acl, late, base, disturbed>>

Writes == [editor : Editors, perm : Perms, ace : ACEs]

TypeOK ==
    /\ pc \in [Editors -> {"idle", "get", "edit", "put", "done", "failed"}]
    /\ at \in [Editors -> 1..(Len(ACLPerms) + 1)]
    /\ copy \in [Editors -> [Perms -> ACEs]]
    /\ acl \in [Perms -> ACEs]
    /\ late \subseteq Writes
    /\ base \in [Editors -> [Perms -> ACEs]]
    /\ disturbed \in [Editors -> SUBSET Perms]

NoACL == [p \in Perms |-> [actors |-> <<>>, groups |-> <<>>]]

Init ==
    /\ pc = [e \in Editors |-> "idle"]
    /\ at = [e \in Editors |-> 1]
    /\ copy = [e \in Editors |-> NoACL]
    /\ acl = InitialACL
    /\ late = {}
    /\ base = [e \in Editors |-> NoACL]
    /\ disturbed = [e \in Editors |-> {}]

-----------------------------------------------------------------------------
(* The helpers. A list with its "changed" flag is a record.                *)

(* Mutated: no look for the member in the list.                            *)
addMembersTwice(list, members) ==
    [list |-> list \o members, changed |-> members # <<>>]

addMember(r, m) ==
    IF Contains(r.list, m) THEN r
    ELSE [list |-> Append(r.list, m), changed |-> TRUE]

addMembers(list, members) ==
    LET added[n \in 0..Len(members)] ==
            IF n = 0 THEN [list |-> list, changed |-> FALSE]
                     ELSE addMember(added[n - 1], members[n])
    IN  added[Len(members)]

(* slices.Index, of a member that is in the list.                          *)
Index(list, m) ==
    CHOOSE i \in DOMAIN list :
        list[i] = m /\ \A j \in 1..(i - 1) : list[j] # m

(* Only the first occurrence goes.                                         *)
removeMember(r, m) ==
    IF Contains(r.list, m)
    THEN [list |-> RemoveAt(r.list, Index(r.list, m)), changed |-> TRUE]
    ELSE r

removeMembers(list, members) ==
    LET removed[n \in 0..Len(members)] ==
            IF n = 0 THEN [list |-> list, changed |-> FALSE]
                     ELSE removeMember(removed[n - 1], members[n])
    IN  removed[Len(members)]

Both(actors, groups) ==
    [ace |-> [actors |-> actors.list, groups |-> groups.list],
     changed |-> actors.changed \/ groups.changed]

AddMembers(ace, actors, groups) ==
    Both(addMembers(ace.actors, actors), addMembers(ace.groups, groups))

(* Mutated: the groups are looked at only if no actor was removed.         *)
RemoveMembersShort(ace, actors, groups) ==
    LET a == removeMembers(ace.actors, actors)
    IN  IF a.changed
        THEN [ace |-> [ace EXCEPT !.actors = a.list], changed |-> TRUE]
        ELSE Both(a, removeMembers(ace.groups, groups))

RemoveMembers(ace, actors, groups) ==
    Both(removeMembers(ace.actors, actors), removeMembers(ace.groups, groups))

(* "all" is every permission; one that is unknown is an error (none).      *)
ExpandPerm(perm) ==
    IF perm = "all" THEN ACLPerms
    ELSE IF Contains(ACLPerms, perm) THEN <<perm>>
    ELSE <<>>

(* Mutated: two fields are mixed up.                                       *)
ACEForMixedUp(a, perm) == IF perm = "read" THEN a["update"] ELSE a[perm]

ACEFor(a, perm) == a[perm]

(* What editor e makes of the entry of a permission.                       *)
Edited(e, ace) ==
    IF OpOf[e] = "add" THEN AddMembers(ace, ActorsOf[e], GroupsOf[e])
                       ELSE RemoveMembers(ace, ActorsOf[e], GroupsOf[e])

-----------------------------------------------------------------------------
(* The editors.                                                            *)

Goto(e, step) == pc' = [pc EXCEPT ![e] = step]

Targets(e) == ExpandPerm(PermOf[e])
Target(e) == Targets(e)[at[e]]

Call(e) ==
    /\ pc[e] = "idle"
    /\ Goto(e, IF Targets(e) = <<>> THEN "failed" ELSE "get")
    /\ UNCHANGED <<at, copy, acl, late, base, disturbed>>

(* Get is answered, or fails.                                              *)
Get(e) ==
    /\ pc[e] = "get"
    /\ \/ /\ Goto(e, "edit")
          /\ copy' = [copy EXCEPT ![e] = acl]
          /\ base' = [base EXCEPT ![e] = acl]
       \/ Goto(e, "failed") /\ UNCHANGED <<copy, base>>
    /\ UNCHANGED <<at, acl, late, disturbed>>

(* The entry of the next permission is edited, and is written if that      *)
(* changed it.                                                             *)
Edit(e) ==
    /\ pc[e] = "edit"
    /\ at[e] <= Len(Targets(e))
    /\ LET edited == Edited(e, ACEFor(copy[e], Target(e)))
       IN  /\ copy' = [copy EXCEPT ![e][Target(e)] = edited.ace]
           /\ IF edited.changed
              THEN Goto(e, "put") /\ UNCHANGED at
              ELSE at' = [at EXCEPT ![e] = @ + 1] /\ UNCHANGED pc
    /\ UNCHANGED <<acl, late, base, disturbed>>

Done(e) ==
    /\ pc[e] = "edit"
    /\ at[e] > Len(Targets(e))
    /\ Goto(e, "done")
    /\ UNCHANGED <<at, copy, acl, late, base, disturbed>>

(* The server (external) replaces an entry for editor e.                   *)
Replace(e, perm, ace) ==
    /\ acl' = [acl EXCEPT ![perm] = ace]
    /\ disturbed' = [f \in Editors |->
           IF f # e /\ pc[f] \notin {"idle", "get"}
           THEN disturbed[f] \cup {perm} ELSE disturbed[f]]

(* SetPermission is served, and the editor learns of it or does not.       *)
SetPermission(e) ==
    /\ pc[e] = "put"
    /\ Replace(e, Target(e), copy[e][Target(e)])
    /\ \/ Goto(e, "edit") /\ at' = [at EXCEPT ![e] = @ + 1]
       \/ Goto(e, "failed") /\ UNCHANGED at
    /\ UNCHANGED <<copy, late, base>>

(* SetPermission fails, and its request is not served, or not yet.         *)
SetFails(e) ==
    /\ pc[e] = "put"
    /\ Goto(e, "failed")
    /\ late' \in {late, late \cup {[editor |-> e, perm |-> Target(e),
                                    ace |-> copy[e][Target(e)]]}}
    /\ UNCHANGED <<at, copy, acl, base, disturbed>>

(* The server (external) serves a request whose call is over.              *)
ServeLate(q) ==
    /\ Replace(q.editor, q.perm, q.ace)
    /\ late' = late \ {q}
    /\ UNCHANGED <<pc, at, copy, base>>

-----------------------------------------------------------------------------
Step(e) == \/ Get(e) \/ Edit(e) \/ Done(e) \/ SetPermission(e) \/ SetFails(e)

Terminated ==
    /\ \A e \in Editors : pc[e] \in {"idle", "done", "failed"}
    /\ UNCHANGED vars

Next ==
    \/ \E e \in Editors : Call(e) \/ Step(e)
    \/ \E q \in late : ServeLate(q)
    \/ Terminated

Spec == Init /\ [][Next]_vars

-----------------------------------------------------------------------------
(* Correctness.                                                            *)

(* No entry on the server, in whatever order the edits interleave, ever    *)
(* lists a name twice, even if an argument does: removeMembers relies on   *)
(* it, as it deletes one occurrence only.                                  *)
NoDuplicates == \A p \in Perms : Unique(acl[p])

Expected(e, before, members) ==
    IF OpOf[e] = "add" THEN ToSet(before) \cup ToSet(members)
                       ELSE ToSet(before) \ ToSet(members)

(* An edit does all of its work and nothing else. Of the entries nobody    *)
(* else wrote since the editor's Get, those its loop is past hold exactly  *)
(* what they held before with the members added or removed, actors and     *)
(* groups alike, and those it does not name are as they were.              *)
EditIsExact ==
    \A e \in Editors : pc[e] \in {"edit", "put", "done"} =>
        \A p \in Perms \ disturbed[e] :
            /\ (\E i \in 1..(at[e] - 1) : Targets(e)[i] = p) =>
                /\ ToSet(acl[p].actors) =
                       Expected(e, base[e][p].actors, ActorsOf[e])
                /\ ToSet(acl[p].groups) =
                       Expected(e, base[e][p].groups, GroupsOf[e])
            /\ ~Contains(Targets(e), p) => acl[p] = base[e][p]

(* Who may hold permission p, and what an entry of p may list.             *)
Granting(p) == {e \in Editors : OpOf[e] = "add" /\ Contains(Targets(e), p)}

MayHold(p, ace) ==
    /\ ToSet(ace.actors) \subseteq ToSet(InitialACL[p].actors)
           \cup UNION {ToSet(ActorsOf[e]) : e \in Granting(p)}
    /\ ToSet(ace.groups) \subseteq ToSet(InitialACL[p].groups)
           \cup UNION {ToSet(GroupsOf[e]) : e \in Granting(p)}

(* Nobody gets a permission that he did not have at the start and that no  *)
(* editor grants him, whatever is lost, late or overwritten.               *)
OnlyGranted == \A p \in Perms : MayHold(p, acl[p])

-----------------------------------------------------------------------------
(* The inductive invariant: copies and late writes are as good as what is  *)
(* on the server, and an editor's copy is what its Get returned up to the  *)
(* entries its loop has reached.                                           *)

DuplicatesInv ==
    /\ NoDuplicates
    /\ \A e \in Editors, p \in Perms : Unique(copy[e][p]) /\ Unique(base[e][p])
    /\ \A q \in late : Unique(q.ace)

GrantedInv ==
    /\ OnlyGranted
    /\ \A e \in Editors, p \in Perms : MayHold(p, copy[e][p])
    /\ \A q \in late : MayHold(q.perm, q.ace)

LoopOf(e) ==
    /\ pc[e] \in {"idle", "get"} => at[e] = 1
    /\ pc[e] \in {"edit", "put", "done"} =>
        /\ at[e] <= Len(Targets(e)) + 1
        /\ \A i \in at[e]..Len(Targets(e)) : LET p == Targets(e)[i] IN
            /\ pc[e] = "edit" \/ i # at[e] => copy[e][p] = base[e][p]
            /\ p \notin disturbed[e] => acl[p] = base[e][p]
    /\ pc[e] = "put" =>
        /\ at[e] <= Len(Targets(e))
        /\ copy[e][Target(e)] = Edited(e, base[e][Target(e)]).ace

LoopInv ==
    /\ \A e \in Editors : LoopOf(e)
    /\ \A q \in late : pc[q.editor] = "failed"

IInv == TypeOK /\ DuplicatesInv /\ GrantedInv /\ LoopInv /\ EditIsExact

=============================================================================
