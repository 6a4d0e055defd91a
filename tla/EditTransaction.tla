--------------------------- MODULE EditTransaction ---------------------------
(***************************************************************************)
(* The transaction engine: how a commit, or an edit-config of a writable   *)
(* running datastore, passes through the callbacks of the instrumented     *)
(* system (the server instrumentation library, SIL).  Each edit point is   *)
(* offered to its VALIDATE and APPLY callbacks, and an accepted APPLY      *)
(* changes the data tree and leaves an undo record.  Then the COMMIT       *)
(* callbacks are called in the order of the undo records.  A refusal       *)
(* rolls the records back: a point whose COMMIT was accepted is reversed   *)
(* with an opposite edit, one whose COMMIT was not called gets a ROLLBACK  *)
(* callback, and the data tree is restored whatever they answer.           *)
(*                                                                         *)
(* An edit point is a leaf or a node with children that an edit changes    *)
(* as a whole; points are siblings, visited in any order, with one         *)
(* callback each.  What the engine itself computes (when-statements,       *)
(* defaults, cases of choices, moves in lists) is left out, and the file   *)
(* write at the end succeeds: commits that fail after their edits were     *)
(* finished are in the module ConfirmedCommit.                             *)
(***************************************************************************)
EXTENDS Naturals, Sequences

CONSTANTS
    Points,         \* the edit points
    Leaves,         \* those that are leaves
    ValuesOf,       \* values of the node at each point
    Absent,         \* there is no node at the point
    Marker,         \* placeholder of a node lent to running
    Nothing,        \* no value is reserved
    Refusing        \* points whose callback may refuse, for each callback

Callbacks == {"validate", "apply", "commit", "rollback", "reverse"}

ASSUME PointsAssumption ==
    /\ Leaves \subseteq Points
    /\ Refusing \in [Callbacks -> SUBSET Points]

Values == UNION {ValuesOf[p] : p \in Points}

ASSUME ValuesAssumption ==
    /\ ValuesOf \in [Points -> SUBSET Values]
    /\ Absent \notin Values
    /\ Marker \notin Values \cup {Absent}
    /\ Nothing \notin Values \cup {Absent}

VARIABLES
    target,         \* --target: the datastore clients edit
    running,        \* the data tree of running
    candidate,      \* the data tree of the candidate
    dirty,          \* nodes of the candidate with VAL_FL_DIRTY
    saved,          \* the file running is mirrored to
    phase,          \* where the request is
    edits,          \* the new values the request asks for
    todo,           \* points to visit in the validate and apply phases
    undoQ,          \* undo records of the transaction
    at,             \* the undo record to visit in commit and rollback
    system,         \* what each callback activated and has reserved
    unsure          \* points whose callback refused to undo

data == <<running, candidate, dirty, saved>>
txcb == <<edits, todo, undoQ, at>>
vars == <<target, data, phase, txcb, system, unsure>>

Contents == Values \cup {Absent}
ContentsOf(p) == ValuesOf[p] \cup {Absent}
Trees == {t \in [Points -> Contents] : \A p \in Points : t[p] \in ContentsOf(p)}
Changes ==
    UNION {{e \in [D -> Contents] : \A p \in D : e[p] \in ContentsOf(p)} :
              D \in SUBSET Points}
NoEdits == [p \in {} |-> Absent]

IsCommit == target = "candidate"

\* A server with a writable running datastore has no candidate.
NoCandidate == [p \in Points |-> Absent]

\* A leaf is merged in place and its new node returned to the candidate at
\* once; otherwise the candidate keeps a marker until the request is over.
Lends(old, new, p) ==
    /\ IsCommit
    /\ new # Absent
    /\ ~ (p \in Leaves /\ old # Absent)

UndoRecords ==
    [point : Points, old : Contents, new : Contents,
     commit_res : {"skipped", "accepted", "refused"}]

Init ==
    /\ target \in {"running", "candidate"}
    /\ running \in Trees
    /\ candidate = IF IsCommit THEN running ELSE NoCandidate
    /\ dirty = {}
    /\ saved = running
    /\ phase = "idle"
    /\ edits = NoEdits
    /\ todo = {}
    /\ undoQ = <<>>
    /\ at = 0
    /\ system = [p \in Points |-> [active |-> running[p], staged |-> Nothing]]
    /\ unsure = {}

\* The server ends; it boots with the saved configuration, and the callbacks
\* activate it.
Stop ==
    /\ phase' = "down"
    /\ running' = saved
    /\ candidate' = IF IsCommit THEN saved ELSE candidate
    /\ dirty' = {}
    /\ system' = [p \in Points |-> [active |-> saved[p], staged |-> Nothing]]
    /\ unsure' = {}
    /\ edits' = NoEdits
    /\ todo' = {}
    /\ undoQ' = <<>>
    /\ at' = 0
    /\ UNCHANGED <<target, saved>>

-----------------------------------------------------------------------------
(* The candidate between commits.                                          *)

\* An edit-config of the candidate calls no APPLY, COMMIT or ROLLBACK.
EditCandidateOfLeaves(p, v) ==
    /\ phase = "idle" /\ IsCommit
    /\ v # candidate[p]
    /\ candidate' = [candidate EXCEPT ![p] = v]
    /\ dirty' = IF v = Absent THEN dirty \ {p} ELSE dirty \cup ({p} \cap Leaves)
    /\ UNCHANGED <<target, running, saved, phase, txcb, system, unsure>>

EditCandidate(p, v) ==
    /\ phase = "idle" /\ IsCommit
    /\ v # candidate[p]
    /\ candidate' = [candidate EXCEPT ![p] = v]
    /\ dirty' = IF v = Absent THEN dirty \ {p} ELSE dirty \cup {p}
    /\ UNCHANGED <<target, running, saved, phase, txcb, system, unsure>>

DiscardChanges ==
    /\ phase = "idle" /\ IsCommit
    /\ candidate # running
    /\ candidate' = running
    /\ dirty' = {}
    /\ UNCHANGED <<target, running, saved, phase, txcb, system, unsure>>

-----------------------------------------------------------------------------
(* Start and end of a transaction.                                         *)

EndTransaction ==
    /\ phase' = "idle"
    /\ edits' = NoEdits
    /\ todo' = {}
    /\ undoQ' = <<>>
    /\ at' = 0

Visible == {p \in dirty : candidate[p] # Absent}
Deleted == {p \in Points : running[p] # Absent /\ candidate[p] = Absent}

\* VALIDATE callbacks are called for the dirty nodes of the candidate; the
\* nodes it lacks are checked for access only.
StartCommit ==
    /\ phase = "idle" /\ IsCommit
    /\ phase' = "validate"
    /\ edits' = [p \in Visible \cup Deleted |-> candidate[p]]
    /\ todo' = Visible
    /\ UNCHANGED <<target, data, undoQ, at, system, unsure>>

\* Edits that change nothing are dropped by agt_apply_this_node.
StartEdit(e) ==
    /\ phase = "idle" /\ ~IsCommit
    /\ \A p \in DOMAIN e : e[p] # running[p]
    /\ phase' = "validate"
    /\ edits' = e
    /\ todo' = DOMAIN e
    /\ UNCHANGED <<target, data, undoQ, at, system, unsure>>

\* A leaf of the candidate whose callback refused is marked as deleted.
MarkRefused(p) ==
    candidate' = IF IsCommit /\ p \in Leaves /\ edits[p] # Absent
                 THEN [candidate EXCEPT ![p] = Absent]
                 ELSE candidate

ValidateAccepted(p) ==
    /\ phase = "validate" /\ p \in todo
    /\ todo' = todo \ {p}
    /\ UNCHANGED <<target, data, phase, edits, undoQ, at, system, unsure>>

ValidateRefused(p) ==
    /\ phase = "validate" /\ p \in todo \cap Refusing["validate"]
    /\ MarkRefused(p)
    /\ EndTransaction
    /\ UNCHANGED <<target, running, dirty, saved, system, unsure>>

Validated ==
    /\ phase = "validate" /\ todo = {}
    /\ phase' = "apply"
    /\ todo' = DOMAIN edits
    /\ UNCHANGED <<target, data, edits, undoQ, at, system, unsure>>

\* The constraints of the candidate are checked before a commit starts.
CheckFailed ==
    /\ phase = "validate" /\ todo = {} /\ IsCommit
    /\ EndTransaction
    /\ UNCHANGED <<target, data, system, unsure>>

-----------------------------------------------------------------------------
(* The APPLY callbacks.                                                    *)

Mentions(p) == \E i \in 1 .. Len(undoQ) : undoQ[i].point = p

\* The deletions of a commit come first.
NextToApply(p) ==
    /\ phase = "apply" /\ p \in todo
    /\ IsCommit /\ edits[p] # Absent => \A q \in todo : edits[q] # Absent

ApplyAccepted(p) ==
    /\ NextToApply(p)
    /\ todo' = todo \ {p}
    /\ undoQ' = Append(undoQ, [point |-> p, old |-> running[p],
                               new |-> edits[p], commit_res |-> "skipped"])
    /\ running' = [running EXCEPT ![p] = edits[p]]
    /\ candidate' = IF Lends(running[p], edits[p], p)
                    THEN [candidate EXCEPT ![p] = Marker]
                    ELSE candidate
    /\ system' = [system EXCEPT ![p].staged = edits[p]]
    /\ UNCHANGED <<target, dirty, saved, phase, edits, at, unsure>>

StartRollback ==
    /\ phase' = "rollback"
    /\ at' = 1

\* A point that is refused has no undo record.
ApplyRefused(p) ==
    /\ NextToApply(p) /\ p \in Refusing["apply"]
    /\ IsCommit => edits[p] # Absent
    /\ MarkRefused(p)
    /\ StartRollback
    /\ UNCHANGED <<target, running, dirty, saved, edits, todo, undoQ, system, unsure>>

\* The server asserts that the deletions of a commit are accepted.
DeletionRefused(p) ==
    /\ NextToApply(p) /\ p \in Refusing["apply"]
    /\ IsCommit /\ edits[p] = Absent
    /\ Stop

Applied ==
    /\ phase = "apply" /\ todo = {}
    /\ phase' = "commit"
    /\ at' = 1
    /\ UNCHANGED <<target, data, edits, todo, undoQ, system, unsure>>

\* The constraints of running are checked after an edit-config was applied.
RootCheckFailed ==
    /\ phase = "apply" /\ todo = {} /\ ~IsCommit
    /\ StartRollback
    /\ UNCHANGED <<target, data, edits, todo, undoQ, system, unsure>>

-----------------------------------------------------------------------------
(* The COMMIT callbacks.                                                   *)

CommitAccepted ==
    /\ phase = "commit" /\ at <= Len(undoQ)
    /\ LET u == undoQ[at] IN
        /\ undoQ' = [undoQ EXCEPT ![at].commit_res = "accepted"]
        /\ system' = [system EXCEPT ![u.point] = [active |-> u.new, staged |-> Nothing]]
    /\ at' = at + 1
    /\ UNCHANGED <<target, data, phase, edits, todo, unsure>>

\* Faulty variant: the rollback starts at the record that was refused.
CommitRefusedRollingForward ==
    /\ phase = "commit" /\ at <= Len(undoQ)
    /\ LET p == undoQ[at].point IN
        /\ p \in Refusing["commit"]
        /\ system' = [system EXCEPT ![p].staged = Nothing]
    /\ undoQ' = [undoQ EXCEPT ![at].commit_res = "refused"]
    /\ phase' = "rollback"
    /\ UNCHANGED <<target, data, edits, todo, at, unsure>>

\* A callback that refuses the COMMIT cleans up itself.
CommitRefused ==
    /\ phase = "commit" /\ at <= Len(undoQ)
    /\ LET p == undoQ[at].point IN
        /\ p \in Refusing["commit"]
        /\ system' = [system EXCEPT ![p].staged = Nothing]
    /\ undoQ' = [undoQ EXCEPT ![at].commit_res = "refused"]
    /\ StartRollback
    /\ UNCHANGED <<target, data, edits, todo, unsure>>

\* commit_edit for every record, and what commit_invoke or edit_config_invoke does
\* after it; lent nodes stay in running and the candidate is filled again.
Finish ==
    /\ phase = "commit" /\ at = Len(undoQ) + 1
    /\ saved' = running
    /\ candidate' = IF IsCommit THEN running ELSE candidate
    /\ dirty' = {}
    /\ unsure' = {p \in unsure : ~Mentions(p)}
    /\ EndTransaction
    /\ UNCHANGED <<target, running, system>>

-----------------------------------------------------------------------------
(* The rollback.                                                           *)

\* The node goes back to the tree it was lent from, and the old one to running.
Restore(u) ==
    /\ running' = [running EXCEPT ![u.point] = u.old]
    /\ candidate' = IF candidate[u.point] = Marker
                    THEN [candidate EXCEPT ![u.point] = u.new]
                    ELSE candidate

\* Faulty variant: a point that was committed gets a ROLLBACK callback.
UndoAcceptedByRollback(u) ==
    system' = CASE u.commit_res = "refused" -> system
                [] OTHER -> [system EXCEPT ![u.point].staged = Nothing]

\* Faulty variant: a point whose COMMIT was not called is passed over.
UndoAcceptedIfCommitted(u) ==
    system' = IF u.commit_res = "accepted"
              THEN [system EXCEPT ![u.point] = [active |-> u.old, staged |-> Nothing]]
              ELSE system

\* A committed edit is reversed by the APPLY and COMMIT of the opposite edit, one
\* whose COMMIT was not called is rolled back.
UndoAccepted(u) ==
    system' = CASE u.commit_res = "accepted" ->
                     [system EXCEPT ![u.point] = [active |-> u.old, staged |-> Nothing]]
                [] u.commit_res = "skipped" ->
                     [system EXCEPT ![u.point].staged = Nothing]
                [] OTHER -> system

RollbackAccepted ==
    /\ phase = "rollback" /\ at <= Len(undoQ)
    /\ UndoAccepted(undoQ[at])
    /\ Restore(undoQ[at])
    /\ at' = at + 1
    /\ UNCHANGED <<target, dirty, saved, phase, edits, todo, undoQ, unsure>>

\* Faulty variant: a refusal starts the rollback over.
RollbackRefusedStartingOver ==
    /\ phase = "rollback" /\ at <= Len(undoQ)
    /\ LET u == undoQ[at] IN
        /\ \/ u.commit_res = "accepted" /\ u.point \in Refusing["reverse"]
           \/ u.commit_res = "skipped" /\ u.point \in Refusing["rollback"]
        /\ unsure' = unsure \cup {u.point}
        /\ Restore(u)
    /\ at' = 1
    /\ UNCHANGED <<target, dirty, saved, phase, edits, todo, undoQ, system>>

\* The data tree is restored all the same.
RollbackRefused ==
    /\ phase = "rollback" /\ at <= Len(undoQ)
    /\ LET u == undoQ[at] IN
        /\ \/ u.commit_res = "accepted" /\ u.point \in Refusing["reverse"]
           \/ u.commit_res = "skipped" /\ u.point \in Refusing["rollback"]
        /\ unsure' = unsure \cup {u.point}
        /\ Restore(u)
    /\ at' = at + 1
    /\ UNCHANGED <<target, dirty, saved, phase, edits, todo, undoQ, system>>

\* A commit whose rollback was refused then loads its backup of running; it
\* differs in nothing from running, and no callback is called.
RolledBack ==
    /\ phase = "rollback" /\ at = Len(undoQ) + 1
    /\ EndTransaction
    /\ UNCHANGED <<target, data, system, unsure>>

-----------------------------------------------------------------------------
(* The server may stop at any time.                                        *)

Crash ==
    /\ phase # "down"
    /\ Stop

Restart ==
    /\ phase = "down"
    /\ phase' = "idle"
    /\ UNCHANGED <<target, data, txcb, system, unsure>>

-----------------------------------------------------------------------------

\* The server carries out a request without waiting for anything.
Carry ==
    \/ \E p \in Points : ValidateAccepted(p) \/ ValidateRefused(p)
    \/ Validated
    \/ CheckFailed
    \/ \E p \in Points : ApplyAccepted(p) \/ ApplyRefused(p) \/ DeletionRefused(p)
    \/ Applied
    \/ RootCheckFailed
    \/ CommitAccepted
    \/ CommitRefused
    \/ Finish
    \/ RollbackAccepted
    \/ RollbackRefused
    \/ RolledBack

Next ==
    \/ \E p \in Points : \E v \in ContentsOf(p) : EditCandidate(p, v)
    \/ DiscardChanges
    \/ StartCommit
    \/ \E e \in Changes : StartEdit(e)
    \/ Carry
    \/ Crash
    \/ Restart

Spec == Init /\ [][Next]_vars

FairSpec == Spec /\ WF_vars(Carry)

-----------------------------------------------------------------------------
(* Properties.                                                             *)

\* The variables have their types, and no undo record outlives its request.
TypeOK ==
    /\ target \in {"running", "candidate"}
    /\ running \in Trees
    /\ candidate \in [Points -> Contents \cup {Marker}]
    /\ dirty \subseteq Points
    /\ saved \in Trees
    /\ phase \in {"idle", "validate", "apply", "commit", "rollback", "down"}
    /\ edits \in Changes
    /\ todo \subseteq Points
    /\ undoQ \in Seq(UndoRecords)
    /\ at \in 0 .. Len(undoQ) + 1
    /\ system \in [Points -> [active : Contents, staged : Contents \cup {Nothing}]]
    /\ unsure \subseteq Points
    /\ phase \in {"idle", "down"} => undoQ = <<>>

\* Between requests the system is in the configuration running shows, whatever
\* callbacks refused at whatever step, except where a callback refused to undo
\* what it had accepted (attempt_rollback, reverse_edit).
SystemAgrees ==
    phase = "idle" => \A p \in Points \ unsure : system[p].active = running[p]

\* Every APPLY a callback accepted is followed by a COMMIT or a ROLLBACK, so that
\* between requests no callback holds resources for an edit that is gone.
ReservationsReleased ==
    phase = "idle" => \A p \in Points \ unsure : system[p].staged = Nothing

\* Between requests no marker is left in the candidate, and whatever differs there
\* from running, apart from deletions, is dirty, so that the next commit applies it
\* (restore_newnode, val_clear_dirty_flag).
EditsStayPending ==
    phase = "idle" /\ IsCommit =>
        \A p \in Points : candidate[p] \notin {Absent, running[p]} =>
            candidate[p] # Marker /\ p \in dirty

Busy == phase \notin {"idle", "down"}

\* The promise of AtomicEdits, as a client or a restart can observe it.
Promise ==
    INSTANCE AtomicEdits WITH
        running <- IF Busy THEN saved ELSE running,
        candidate <- [p \in Points |->
                        IF candidate[p] = Marker THEN edits[p] ELSE candidate[p]],
        request <- [busy |-> Busy,
                    edits |-> IF Busy /\ ~IsCommit THEN edits ELSE NoEdits]

\* Requests that change running do so in full or not at all, and a commit that
\* fails leaves the candidate's edits alone, whatever callbacks refuse and wherever
\* the server stops.
AllOrNothing == Promise!Spec

\* Every request comes to an end, refusals of the rollback included.
RequestEnds == Busy ~> ~Busy
=============================================================================
