------------------------------ MODULE SearchAll ------------------------------
(***************************************************************************)
(* SearchService.SearchAll and Query (search.go): all pages of a search,   *)
(* fetched one after the other by offset, while nodes are registered and   *)
(* deleted on the server.                                                  *)
(*                                                                         *)
(* The search index is external: the documents that match the query, in    *)
(* the order in which the server ranks them. Every Query sees the index    *)
(* as it is then; nothing ties the pages of one SearchAll together.        *)
(***************************************************************************)
EXTENDS Naturals, Sequences, SequencesExt

CONSTANTS
    Docs,              \* documents that may match the query
    Initial,           \* the matching documents at the start, in order
    Starts,            \* arguments of WithStart
    PageSizes,         \* arguments of WithRows
    MaxChanges         \* bound on the changes of the index

ASSUME InitialAssumption == Initial \in Seq(Docs) /\ IsInjective(Initial)
ASSUME OptionsAssumption == Starts \subseteq Nat /\ PageSizes \subseteq Nat
ASSUME MaxChangesAssumption == MaxChanges \in Nat

VARIABLES
    pc,                \* "idle", "paging", "done" or "failed"
    start, rows,       \* searchParams
    offset,            \* offset of the next page
    all,               \* rows collected so far, and the result
    index,             \* the matching documents on the server
    changes,           \* how often the index has changed
    wanted,            \* history: the rows there were when SearchAll began
    added, gone        \* history: documents that came and went since then

clientVars == <<pc, start, rows, offset, all>>
vars == <<clientVars, index, changes, wanted, added, gone>>

TypeOK ==
    /\ pc \in {"idle", "paging", "done", "failed"}
    /\ start \in Nat /\ rows \in Nat /\ offset \in Nat
    /\ all \in Seq(Docs)
    /\ index \in Seq(Docs)
    /\ changes \in 0..MaxChanges
    /\ wanted \subseteq Docs /\ added \subseteq Docs /\ gone \subseteq Docs

Init ==
    /\ pc = "idle"
    /\ start = 0 /\ rows = 0 /\ offset = 0
    /\ all = <<>>
    /\ index = Initial
    /\ changes = 0
    /\ wanted = {} /\ added = {} /\ gone = {}

-----------------------------------------------------------------------------
(* The client.                                                             *)

(* The options are applied and the first offset is the one of WithStart.   *)
Call ==
    /\ pc = "idle"
    /\ pc' = "paging"
    /\ start' \in Starts
    /\ rows' \in PageSizes
    /\ offset' = start'
    /\ wanted' = {index[i] : i \in {j \in DOMAIN index : j > start'}}
    /\ added' = {} /\ gone' = {}
    /\ UNCHANGED <<all, index, changes>>

(* One Query, answered from the index as it is: at most rows documents     *)
(* from offset on. The server may have a page limit of its own, but sends  *)
(* something as long as something is left.                                 *)
PageLengths ==
    LET left == IF offset < Len(index) THEN Len(index) - offset ELSE 0
    IN  {n \in 0..rows : n <= left /\ (n = 0 => rows = 0 \/ left = 0)}

(* The n rows of the page are appended, the offset becomes o, and the loop *)
(* ends if last. The index may change again before the client reads the    *)
(* answer, which makes no difference to it.                                *)
TakePage(n, o, last) ==
    /\ pc = "paging"
    /\ n \in PageLengths
    /\ all' = all \o SubSeq(index, offset + 1, offset + n)
    /\ offset' = o
    /\ pc' = IF last THEN "done" ELSE "paging"
    /\ UNCHANGED <<start, rows, index, changes, wanted, added, gone>>

(* Mutated: the offset advances by the page size, not by what was          *)
(* received; by one row less; a short page ends the search.                *)
QueryByPageSize(n) ==
    TakePage(n, offset + rows, n = 0 \/ offset + n >= Len(index))
QueryOverlaps(n) ==
    TakePage(n, offset + n - 1, n = 0 \/ offset + n >= Len(index))
QueryShortPageEnds(n) == TakePage(n, offset + n, n < rows)

(* A page of n rows arrives, with the server's total. The search is over   *)
(* when the page is empty or the offset has reached that total.            *)
Query(n) == TakePage(n, offset + n, n = 0 \/ offset + n >= Len(index))

(* Mutated: a Query that fails starts the search over.                     *)
QueryErrorRestarts ==
    /\ pc = "paging"
    /\ offset' = start
    /\ all' = <<>>
    /\ UNCHANGED <<pc, start, rows, index, changes, wanted, added, gone>>

(* A Query that fails ends the search without any rows.                    *)
QueryError ==
    /\ pc = "paging"
    /\ pc' = "failed"
    /\ all' = <<>>
    /\ UNCHANGED <<start, rows, offset, index, changes, wanted, added, gone>>

-----------------------------------------------------------------------------
(* The index (external).                                                   *)

(* A document is indexed, at any rank.                                     *)
Insert(d, i) ==
    /\ changes < MaxChanges
    /\ d \notin ToSet(index)
    /\ index' = InsertAt(index, i, d)
    /\ changes' = changes + 1
    /\ added' = added \cup {d}
    /\ UNCHANGED <<clientVars, wanted, gone>>

(* A document is deleted.                                                  *)
Delete(i) ==
    /\ changes < MaxChanges
    /\ index' = RemoveAt(index, i)
    /\ changes' = changes + 1
    /\ gone' = gone \cup {index[i]}
    /\ UNCHANGED <<clientVars, wanted, added>>

-----------------------------------------------------------------------------
Search == Call \/ QueryError \/ \E n \in 0..rows : Query(n)

Change == \/ \E d \in Docs, i \in 1..(Len(index) + 1) : Insert(d, i)
          \/ \E i \in 1..Len(index) : Delete(i)

Terminated == pc \in {"done", "failed"} /\ UNCHANGED vars

Next == Search \/ Change \/ Terminated

Spec == Init /\ [][Next]_vars

(* Every Query is answered or fails, at the latest at the Timeout of the   *)
(* http.Client.                                                            *)
FairSpec == Spec /\ WF_vars(Search)

-----------------------------------------------------------------------------
(* Correctness. A page size of 0 asks for nothing, and gets it.            *)

Complete == pc = "done" /\ rows > 0

(* If the index stays as it is, the result is exactly the rows from start  *)
(* on, in order, whatever page lengths the server chooses.                 *)
ExactWhenStable ==
    Complete /\ added = {} /\ gone = {} =>
        all = SubSeq(index, start + 1, Len(index))

(* New documents may push rows to later pages, and thus make one appear    *)
(* twice, but they never make the search miss one.                         *)
NothingMissed == Complete /\ gone = {} => wanted \subseteq ToSet(all)

(* Deletions may make the search miss a row, but never return one twice.   *)
NothingTwice == Complete /\ added = {} => IsInjective(all)

(* The search ends, also with a page size of 0 and with an offset that is  *)
(* past the end of an index that shrank.                                   *)
SearchEnds == pc = "paging" ~> pc \in {"done", "failed"}

-----------------------------------------------------------------------------
(* The inductive invariant: what lies before the offset has been collected *)
(* unless it was added meanwhile or lay before start, what lies after it   *)
(* has not been.                                                           *)

StableInv ==
    pc = "paging" /\ added = {} /\ gone = {} =>
        /\ offset = start + Len(all)
        /\ all # <<>> => offset <= Len(index)
        /\ \A i \in 1..Len(all) : all[i] = index[start + i]

MissInv ==
    pc = "paging" /\ gone = {} =>
        /\ wanted \subseteq ToSet(index)
        /\ \A i \in 1..Len(index) :
            i <= offset /\ index[i] \in wanted => index[i] \in ToSet(all)

TwiceInv ==
    pc = "paging" /\ added = {} =>
        /\ \A i, j \in 1..Len(all) : all[i] = all[j] => i = j
        /\ \A i \in 1..Len(index) : i > offset => index[i] \notin ToSet(all)

(* The index never holds a document twice.                                 *)
IndexInv == \A i, j \in 1..Len(index) : index[i] = index[j] => i = j

IdleInv == pc = "idle" => all = <<>>

IInv == /\ TypeOK /\ IdleInv /\ IndexInv /\ StableInv /\ MissInv /\ TwiceInv
        /\ ExactWhenStable /\ NothingMissed /\ NothingTwice

=============================================================================
