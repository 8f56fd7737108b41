-------------------------- MODULE StratifiedSplit --------------------------
(***************************************************************************)
(* What a split of a labelled data set promises, without chunks, files or  *)
(* sampling: rows are placed in the training or the test part, never in    *)
(* both, no label's share of the test part is ever exceeded, and the split *)
(* is declared complete only when every row is placed and every label's    *)
(* share is met exactly.  Whatever is not complete may be lost at any time.*)
(***************************************************************************)
EXTENDS Integers, FiniteSets

CONSTANTS Requests,       \* what may be asked: [rows, quota] with a share per label
          LabelOf(_)      \* the label of a row

VARIABLES status,         \* "none", "running" or "complete"
          request,        \* the request being worked on or completed
          train, test     \* the parts, sets of rows

vars == <<status, request, train, test>>

Placed == train \cup test
Share(part, l) == Cardinality({r \in part : LabelOf(r) = l})
WithinQuota(part) == \A l \in DOMAIN request.quota : Share(part, l) <= request.quota[l]

Init == status = "none" /\ train = {} /\ test = {} /\ request \in Requests

Begin ==
    /\ status # "running"
    /\ status' = "running"
    /\ request' \in Requests
    /\ train' = {} /\ test' = {}

\* Rows that are in neither part yet join one of them.
Place ==
    /\ status = "running"
    /\ \E new \in (SUBSET (request.rows \ Placed)) \ {{}} :
        \/ train' = train \cup new /\ test' = test
        \/ test' = test \cup new /\ train' = train /\ WithinQuota(test')
    /\ UNCHANGED <<status, request>>

Complete ==
    /\ status = "running"
    /\ Placed = request.rows
    /\ \A l \in DOMAIN request.quota : Share(test, l) = request.quota[l]
    /\ status' = "complete"
    /\ UNCHANGED <<request, train, test>>

\* The work ends early, or its result is removed or replaced by something else.
Lose ==
    /\ status' = "none"
    /\ train' = {} /\ test' = {}
    /\ request' \in Requests

Next == Begin \/ Place \/ Complete \/ Lose

Spec == Init /\ [][Next]_vars

\* The parts never share a row and hold only rows asked for; once complete they hold all of
\* them, and the test part has exactly the share of every label.
Stratified ==
    /\ train \cap test = {}
    /\ Placed \subseteq request.rows
    /\ status = "complete" =>
        /\ Placed = request.rows
        /\ \A l \in DOMAIN request.quota : Share(test, l) = request.quota[l]
=============================================================================
