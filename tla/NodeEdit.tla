------------------------------ MODULE NodeEdit ------------------------------
(***************************************************************************)
(* Nodes (nodes.go) and their attributes (attributes.go): a node is        *)
(* fetched with Get, or made anew, edited in memory with AddTags,          *)
(* RemoveTags, AddRunListItems and RemoveRunListItems, and written back as *)
(* a whole with Update, or Create. Several editors do so at once; another  *)
(* writes automatic attributes the same way, as a chef-client run does,    *)
(* and one deletes the node.                                               *)
(*                                                                         *)
(* An attribute value is a record with its type. JSON keeps a map, an      *)
(* array and a string what they are, but a []string, which SetTags stores, *)
(* is a []any once it has been to the server and back. The server is       *)
(* external: it stores a node as it gets it. An Update that failed may     *)
(* have been served, or may be served later.                               *)
(***************************************************************************)
EXTENDS Naturals, Sequences, SequencesExt

CONSTANTS
    Strings,           \* tags, run-list entries and other strings
    Keys,              \* keys of attribute maps, "tags" among them
    Editors,           \* callers
    EditsOf,           \* the edits of each, in order
    MethodOf,          \* how each writes: "update", "create" or "remove"
    ReportOf,          \* the automatic attributes a "report" edit sets
    Nodes,             \* nodes the server may hold at the start
    Names              \* attribute names looked up, split at the dots

(* Attribute values, and maps of them; a nil map is an empty one.          *)
String(s) == [type |-> "string", string |-> s]
Array(values) == [type |-> "array", values |-> values]
StringSlice(strings) == [type |-> "strings", strings |-> strings]
Map(m) == [type |-> "map", map |-> m]
Number == [type |-> "number"]
Missing == [type |-> "missing"]
EmptyMap == [k \in {} |-> Missing]
NoString == [type |-> "empty"]
NoSettings == [type |-> "settings"]

Ops == {"addTags", "removeTags", "addRunList", "removeRunList", "report"}
Edits == [op : Ops, items : Seq(Strings)]

ASSUME StringAssumption == NoString \notin Strings
ASSUME EditorAssumption ==
    /\ EditsOf \in [Editors -> Seq(Edits)]
    /\ MethodOf \in [Editors -> {"update", "create", "remove"}]
ASSUME NamesAssumption ==
    "tags" \in Keys /\ Names \subseteq Seq(Keys) \ {<<>>}

VARIABLES
    phase,             \* the next step of each editor
    at,                \* how many of its edits it has made
    copy,              \* the node in its memory
    present,           \* the node exists on the server
    node,              \* the node on the server
    late,              \* writes given up by their call but still under way
    base,              \* history: the node as the editor got it
    disturbed          \* history: others have written since

nodeVars == <<phase, at, copy, present, node, late, base, disturbed>>

(* settings: environment, policy name and policy group.                    *)
NewNode ==
    [runList |-> <<>>, automatic |-> EmptyMap, override |-> EmptyMap,
     normal |-> EmptyMap, default |-> EmptyMap, settings |-> NoSettings]

NodeInit ==
    /\ phase = [e \in Editors |-> "idle"]
    /\ at = [e \in Editors |-> 0]
    /\ copy = [e \in Editors |-> NewNode]
    /\ present = TRUE
    /\ node \in Nodes
    /\ late = {}
    /\ base = [e \in Editors |-> NewNode]
    /\ disturbed = [e \in Editors |-> FALSE]

-----------------------------------------------------------------------------
(* Attributes.                                                             *)

(* The entries of a list that are not in the set, in their order.         *)
Omit(list, set) ==
    LET kept[n \in 0..Len(list)] ==
            IF n = 0 THEN <<>>
            ELSE IF list[n] \in set THEN kept[n - 1]
            ELSE Append(kept[n - 1], list[n])
    IN  kept[Len(list)]

(* The type switch of Tags: strings in either shape, none in any other.    *)
Tags(n) ==
    LET raw == IF "tags" \in DOMAIN n.normal THEN n.normal["tags"] ELSE Missing
        others == {v \in ToSet(raw.values) : v.type # "string"}
        strings == Omit(raw.values, others)
    IN  CASE raw.type = "strings" -> raw.strings
          [] raw.type = "array" -> [i \in DOMAIN strings |-> strings[i].string]
          [] OTHER -> <<>>

(* Mutated: the other normal attributes are dropped.                       *)
SetTagsAlone(n, tags) ==
    [n EXCEPT !.normal = [k \in {"tags"} |-> StringSlice(tags)]]

SetTags(n, tags) ==
    [n EXCEPT !.normal = [k \in DOMAIN @ \cup {"tags"} |->
         IF k = "tags" THEN StringSlice(tags) ELSE @[k]]]

(* Mutated: an item is compared with base only.                            *)
appendMissingOnce(list, items) == list \o Omit(items, ToSet(list))

appendOne(out, item) == IF Contains(out, item) THEN out ELSE Append(out, item)

appendMissing(list, items) ==
    LET out[n \in 0..Len(items)] ==
            IF n = 0 THEN list ELSE appendOne(out[n - 1], items[n])
    IN  out[Len(items)]

without(list, items) == Omit(list, ToSet(items))

(* Dig walks one map per key; a value that is no map ends it.              *)
Dig(m, path) ==
    LET walk[i \in 0..Len(path)] ==
            IF i = 0 THEN Map(m)
            ELSE IF /\ walk[i - 1].type = "map"
                    /\ path[i] \in DOMAIN walk[i - 1].map
                 THEN walk[i - 1].map[path[i]] ELSE Missing
    IN  IF path = <<>> THEN Missing ELSE walk[Len(path)]

(* Automatic wins over override, normal and default.                       *)
Scopes(n) == <<n.automatic, n.override, n.normal, n.default>>

First(n, name, having) ==
    IF having = {} THEN Missing ELSE Dig(Scopes(n)[Min(having)], name)

(* Mutated: a scope that has the first key hides those after it.           *)
AttributeShadowed(n, name) ==
    First(n, name, {i \in 1..4 : name[1] \in DOMAIN Scopes(n)[i]})

Attribute(n, name) ==
    First(n, name, {i \in 1..4 : Dig(Scopes(n)[i], name) # Missing})

(* attributeToString; what fmt.Sprint makes of other values is not         *)
(* looked into. (IsValue: no array is in an array.)                        *)
Sprint(v) == [type |-> "printed", value |-> v]
attributeToString(v) ==
    CASE v.type = "string" -> v.string
      [] v.type = "array" /\ v.values = <<>> -> NoString
      [] v.type = "array" /\ v.values # <<>> ->
             IF v.values[1].type = "string" THEN v.values[1].string
                                            ELSE Sprint(v.values[1])
      [] OTHER -> Sprint(v)

AttributeString(n, name) ==
    IF Attribute(n, name) = Missing THEN NoString
    ELSE attributeToString(Attribute(n, name))

(* A node as the server has it once it was marshalled.                     *)
Stored(n) ==
    [n EXCEPT !.normal = [k \in DOMAIN @ |->
         IF @[k].type = "strings"
         THEN Array([i \in DOMAIN @[k].strings |-> String(@[k].strings[i])])
         ELSE @[k]]]

Apply(e, edit, n) ==
    CASE edit.op = "addTags" -> SetTags(n, appendMissing(Tags(n), edit.items))
      [] edit.op = "removeTags" -> SetTags(n, without(Tags(n), edit.items))
      [] edit.op = "addRunList" ->
             [n EXCEPT !.runList = appendMissing(@, edit.items)]
      [] edit.op = "removeRunList" ->
             [n EXCEPT !.runList = without(@, edit.items)]
      [] edit.op = "report" -> [n EXCEPT !.automatic = ReportOf[e]]

-----------------------------------------------------------------------------
(* Nodes as they may be.                                                   *)

Below(p) == {[path |-> Append(p.path, k), value |-> p.value.map[k]] :
                 k \in DOMAIN p.value.map}

(* The values of a scope that are d keys deep, with the keys.              *)
Entries(m, d) ==
    LET deep[i \in 0..d] ==
            IF i = 0 THEN {[path |-> <<>>, value |-> Map(m)]}
            ELSE UNION {Below(p) : p \in {q \in deep[i - 1] :
                                             q.value.type = "map"}}
    IN  deep[d]

HasPath(m, name) == \E p \in Entries(m, Len(name)) : p.path = name

(* What the model can look into: no empty string, no array in an array.    *)
IsValue(v) ==
    /\ v # Missing
    /\ v.type = "string" => v.string \in Strings
    /\ v.type = "array" =>
        /\ v = Array(v.values)
        /\ v.values # <<>> =>
            /\ v.values[1].type # "array"
            /\ v.values[1].type = "string" =>
                   v.values[1].string \in Strings
    /\ v.type = "map" => DOMAIN v.map \subseteq Keys

IsScope(m) ==
    /\ DOMAIN m \subseteq Keys
    /\ \A name \in Names : \A d \in 1..Len(name) :
        \A p \in Entries(m, d) : IsValue(p.value)

Readable(n) == \A i \in 1..4 : IsScope(Scopes(n)[i])

IsNode(n) ==
    /\ n = [runList |-> n.runList, automatic |-> n.automatic,
            override |-> n.override, normal |-> n.normal,
            default |-> n.default, settings |-> n.settings]
    /\ n.runList \in Seq(Strings) /\ Tags(n) \in Seq(Strings)
    /\ n.normal = [k \in DOMAIN n.normal |-> n.normal[k]]
    /\ \A k \in DOMAIN n.normal : n.normal[k].type = "strings" => k = "tags"

(* What JSON decodes to.                                                   *)
IsJson(n) == \A k \in DOMAIN n.normal : n.normal[k].type # "strings"

(* No tag and no run-list entry is there twice.                            *)
Distinct(n) == IsInjective(Tags(n)) /\ IsInjective(n.runList)

(* The server holds what JSON can say, without duplicates at the start.    *)
ASSUME NodesAssumption ==
    /\ \A n \in Nodes : IsNode(n) /\ IsJson(n) /\ Distinct(n) /\ Readable(n)
    /\ \A e \in Editors : IsScope(ReportOf[e])

-----------------------------------------------------------------------------
(* The editors.                                                            *)

Goto(e, step) == phase' = [phase EXCEPT ![e] = step]

(* A node to be created is made in memory, others are fetched.             *)
Begin(e) ==
    /\ phase[e] = "idle"
    /\ Goto(e, IF MethodOf[e] = "update" THEN "get" ELSE "edit")
    /\ UNCHANGED <<at, copy, present, node, late, base, disturbed>>

(* Get is answered, or fails; it fails if the node is not there.           *)
Get(e) ==
    /\ phase[e] = "get"
    /\ \/ /\ present
          /\ Goto(e, "edit")
          /\ copy' = [copy EXCEPT ![e] = node]
          /\ base' = [base EXCEPT ![e] = node]
       \/ Goto(e, "failed") /\ UNCHANGED <<copy, base>>
    /\ UNCHANGED <<at, present, node, late, disturbed>>

Edit(e) ==
    /\ phase[e] = "edit"
    /\ at[e] < Len(EditsOf[e])
    /\ at' = [at EXCEPT ![e] = @ + 1]
    /\ copy' = [copy EXCEPT ![e] = Apply(e, EditsOf[e][at[e] + 1], @)]
    /\ UNCHANGED <<phase, present, node, late, base, disturbed>>

(* The server (external) does what a request asks for, if it can: only an  *)
(* existing node is replaced or removed, only a missing one is created.    *)
Possible(q) == present # (q.method = "create")

Serve(q) ==
    /\ Possible(q)
    /\ present' = (q.method # "remove")
    /\ node' = IF q.method = "remove" THEN NewNode ELSE q.node
    /\ disturbed' = [f \in Editors |->
           disturbed[f] \/ (f # q.editor /\ phase[f] \notin {"idle", "get"})]

Request(e) == [editor |-> e, method |-> MethodOf[e], node |-> Stored(copy[e])]

(* Update, Create or Delete is served, and the editor learns of it or not. *)
Write(e) ==
    /\ phase[e] = "edit"
    /\ at[e] = Len(EditsOf[e])
    /\ Serve(Request(e))
    /\ \E step \in {"done", "failed"} : Goto(e, step)
    /\ UNCHANGED <<at, copy, late, base>>

(* It fails, and the request is not served, or not yet.                    *)
WriteFails(e) ==
    /\ phase[e] = "edit"
    /\ at[e] = Len(EditsOf[e])
    /\ Goto(e, "failed")
    /\ late' \in {late, late \cup {Request(e)}}
    /\ UNCHANGED <<at, copy, present, node, base, disturbed>>

(* The server (external) gets to a request whose call is over.             *)
ServeLate(q) ==
    /\ late' = late \ {q}
    /\ \/ Serve(q)
       \/ ~Possible(q) /\ UNCHANGED <<present, node, disturbed>>
    /\ UNCHANGED <<phase, at, copy, base>>

-----------------------------------------------------------------------------
Step(e) == Get(e) \/ Edit(e) \/ Write(e) \/ WriteFails(e)

NodeAtRest ==
    /\ \A e \in Editors : phase[e] \in {"idle", "done", "failed"}
    /\ UNCHANGED nodeVars

NodeNext ==
    \/ \E e \in Editors : Begin(e) \/ Step(e)
    \/ \E q \in late : ServeLate(q)
    \/ NodeAtRest

NodeSpec == NodeInit /\ [][NodeNext]_nodeVars

-----------------------------------------------------------------------------
(* Correctness.                                                            *)

(* The last of the edits that adds or removes an entry decides.            *)
Named(edits, ops) == {i \in DOMAIN edits : edits[i].op \in ops}

Expected(edits, add, remove, before, s) ==
    LET naming == {i \in Named(edits, {add, remove}) :
                       Contains(edits[i].items, s)}
    IN  IF naming = {} THEN Contains(before, s)
        ELSE \E i \in naming : /\ edits[i].op = add
                               /\ \A j \in naming : j <= i

(* What edits name, they may move; all else stays in its order.            *)
Touched(edits, ops) == UNION {ToSet(edits[i].items) : i \in Named(edits, ops)}

ExactList(edits, add, remove, before, after) ==
    LET touched == Touched(edits, {add, remove})
    IN  /\ \A s \in Strings :
            Contains(after, s) <=> Expected(edits, add, remove, before, s)
        /\ Omit(after, touched) = Omit(before, touched)

Exact(edits, before, after) ==
    LET tagged == Named(edits, {"addTags", "removeTags"}) # {}
        keys == DOMAIN before.normal \cup DOMAIN after.normal
    IN  /\ ExactList(edits, "addTags", "removeTags", Tags(before), Tags(after))
        /\ ExactList(edits, "addRunList", "removeRunList",
                     before.runList, after.runList)
        /\ \A k \in keys \ (IF tagged THEN {"tags"} ELSE {}) :
            Dig(after.normal, <<k>>) = Dig(before.normal, <<k>>)
        /\ after.override = before.override
        /\ after.default = before.default
        /\ after.settings = before.settings
        /\ Named(edits, {"report"}) = {} => after.automatic = before.automatic

(* A sequence of edits does all of its work and nothing else: if nobody    *)
(* else has written the node since it was fetched, then after the Update   *)
(* the tags and the run list are as the last edit that names an entry says *)
(* and otherwise as before, in their order, and every other attribute of   *)
(* every scope, and the settings, survive the way through memory and back. *)
NodeEditIsExact ==
    \A e \in Editors :
        phase[e] = "done" /\ ~disturbed[e] /\ MethodOf[e] # "remove" =>
            Exact(EditsOf[e], base[e], node)

(* No tag and no run-list entry is ever there twice, whatever the edits,   *)
(* their arguments and the order in which writes arrive.                   *)
NothingListedTwice == Distinct(node)

(* The value of an attribute is that of the highest scope in which all of  *)
(* the path exists, in a node in the middle of its edits as in a stored    *)
(* one; and its string is empty exactly when there is nothing to print.    *)
LookupByPrecedence ==
    \A n \in {node} \cup {copy[e] : e \in Editors}, name \in Names :
        LET having == {i \in 1..4 : HasPath(Scopes(n)[i], name)}
            value == Attribute(n, name)
        IN  /\ having = {} <=> value = Missing
            /\ \A i \in having : (\A j \in having : i <= j) =>
                [path |-> name, value |-> value]
                    \in Entries(Scopes(n)[i], Len(name))
            /\ AttributeString(n, name) = NoString <=>
                   having = {} \/ value = Array(<<>>)

-----------------------------------------------------------------------------
(* The inductive invariant: what is in memory is what the edits made so    *)
(* far make of the node as it was fetched; []string is found in memory     *)
(* only, and under "tags".                                                 *)

NodeTypeOK ==
    /\ phase \in [Editors -> {"idle", "get", "edit", "done", "failed"}]
    /\ at \in [Editors -> Nat]
    /\ \A e \in Editors : at[e] <= Len(EditsOf[e])
    /\ present \in BOOLEAN
    /\ disturbed \in [Editors -> BOOLEAN]
    /\ DOMAIN copy = Editors /\ copy = [e \in Editors |-> copy[e]]
    /\ DOMAIN base = Editors /\ base = [e \in Editors |-> base[e]]
    /\ \A e \in Editors : IsNode(copy[e]) /\ IsNode(base[e])
    /\ IsNode(node)

JsonInv == IsJson(node) /\ \A e \in Editors : IsJson(base[e])

DistinctInv ==
    /\ NothingListedTwice
    /\ \A e \in Editors : Distinct(copy[e]) /\ Distinct(base[e])

ReadableInv == \A n \in {node} \cup {copy[e] : e \in Editors} : Readable(n)

LateInv ==
    \A q \in late :
        /\ q.editor \in Editors /\ phase[q.editor] = "failed"
        /\ IsNode(q.node) /\ IsJson(q.node)
        /\ Distinct(q.node) /\ Readable(q.node)

EditedInv ==
    \A e \in Editors :
        /\ phase[e] \in {"idle", "get"} =>
            at[e] = 0 /\ base[e] = NewNode /\ copy[e] = NewNode
        /\ phase[e] = "edit" =>
            Exact(SubSeq(EditsOf[e], 1, at[e]), base[e], copy[e])

NodeInv == /\ NodeTypeOK /\ JsonInv /\ DistinctInv /\ ReadableInv /\ LateInv
           /\ EditedInv /\ NodeEditIsExact

=============================================================================
