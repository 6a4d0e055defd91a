----------------------------- MODULE AtomicEdits -----------------------------
(***************************************************************************)
(* What the edits of running promise their clients: a commit, or an        *)
(* edit-config of a writable running datastore, happens at once and in     *)
(* full or not at all, and a request that fails leaves the candidate as    *)
(* its client edited it.                                                   *)
(***************************************************************************)
CONSTANTS
    Points,         \* places of the data tree that edits address
    Values,         \* values of the node at a point
    Absent          \* there is no node at the point

VARIABLES
    target,         \* the datastore clients may edit
    running,
    candidate,
    request         \* the edits of running being carried out, if any

vars == <<target, running, candidate, request>>

Trees == [Points -> Values \cup {Absent}]

\* The changes an edit-config may ask for; Absent asks for a deletion.
Edits == UNION {[D -> Values \cup {Absent}] : D \in (SUBSET Points) \ {{}}}

NoEdits == [p \in {} |-> Absent]

Overridden(tree, edits) ==
    [p \in Points |-> IF p \in DOMAIN edits THEN edits[p] ELSE tree[p]]

NoRequest == [busy |-> FALSE, edits |-> NoEdits]

Init ==
    /\ target \in {"running", "candidate"}
    /\ running \in Trees
    /\ candidate \in Trees
    /\ target = "candidate" => candidate = running
    /\ request = NoRequest

\* An edit-config of running names its edits, a commit those it finds.
Ask ==
    /\ ~request.busy
    /\ \E e \in Edits \cup {NoEdits} :
        /\ target = "candidate" => e = NoEdits
        /\ request' = [busy |-> TRUE, edits |-> e]
    /\ UNCHANGED <<target, running, candidate>>

Commit ==
    /\ request.busy
    /\ target = "candidate"
    /\ running' = candidate
    /\ request' = NoRequest
    /\ UNCHANGED <<target, candidate>>

EditRunning ==
    /\ request.busy
    /\ target = "running"
    /\ running' = Overridden(running, request.edits)
    /\ request' = NoRequest
    /\ UNCHANGED <<target, candidate>>

Fail ==
    /\ request.busy
    /\ request' = NoRequest
    /\ UNCHANGED <<target, running, candidate>>

EditCandidate ==
    /\ ~request.busy
    /\ target = "candidate"
    /\ candidate' \in Trees
    /\ UNCHANGED <<target, running, request>>

\* A restart loses the request and the edits that were not committed.
Restart ==
    /\ request' = NoRequest
    /\ candidate' = IF target = "candidate" THEN running ELSE candidate
    /\ UNCHANGED <<target, running>>

Next ==
    \/ Ask
    \/ Commit
    \/ EditRunning
    \/ Fail
    \/ EditCandidate
    \/ Restart

Spec == Init /\ [][Next]_vars
=============================================================================
