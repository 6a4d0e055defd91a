---------------------------- MODULE PartialLocks ----------------------------
(***************************************************************************)
(* Partial locks on the running datastore (RFC 5717) as netconfd has them. *)
(* A partial lock is a control block in the running datastore's plockQ and *)
(* a mark, a pointer to it, on each node it selects; the subtree below a   *)
(* selected node is not marked.  A write asks the marks of the leaf it     *)
(* writes: an edit those of the candidate's leaf, a commit those of the    *)
(* leaf in running.  Cloning running into the candidate clones the marks,  *)
(* and no later lock or unlock updates the clones.                         *)
(*                                                                         *)
(* Clients edit leaves of the candidate and commit them, the server runs   *)
(* with its default --startup-error=stop, and commits do not fail.  The    *)
(* tree of nodes is fixed; locks of the candidate, saving and persistent   *)
(* confirmed commits are the subject of the module ConfirmedCommit.        *)
(***************************************************************************)
EXTENDS CfgRules, Naturals, FiniteSets

CONSTANTS
    Nodes,          \* the configuration nodes
    Leaves,         \* those that are leaves
    Below,          \* the subtree at each node, the node included
    Values,         \* values of a leaf
    MaxId,          \* the largest lock id, NCX_MAX_UINT
    MaxPlocks       \* marks a node has room for, VAL_MAX_PLOCKS

ASSUME TreeAssumption ==
    /\ Leaves \subseteq Nodes
    /\ Below \in [Nodes -> SUBSET Nodes]
    /\ \A n \in Nodes : n \in Below[n]
    /\ \A n \in Nodes : \A m \in Below[n] : Below[m] \subseteq Below[n]
    /\ \A l \in Leaves : Below[l] = {l}

ASSUME BoundsAssumption == MaxId \in Nat \ {0} /\ MaxPlocks \in Nat \ {0}

Ids == 1 .. MaxId

\* A pointer to a control block that was freed.  Lock id 0 is not used.
Dangling == 0

VARIABLES
    live,           \* the sessions that are up
    entry,          \* the lock entry of the running datastore
    plockQ,         \* the owner and the selected nodes of each lock
    plock,          \* the marks of the nodes of running
    last_id,        \* the last lock id handed out
    running,        \* values of the leaves of running
    candidate,      \* values of the leaves of the candidate
    edited,         \* leaves of the candidate with a dirty mark
    cand_plock,     \* the marks cloned into the candidate
    commit_cb       \* the confirmed commit in progress and its backup

vars == <<live, entry, plockQ, plock, last_id, running, candidate, edited,
          cand_plock, commit_cb>>

lockVars == <<entry, plockQ, plock, last_id>>

Config == [Leaves -> Values]

NoLock == [sid |-> NoSession, nodes |-> {}]

Held == {id \in Ids : plockQ[id] # NoLock}

NoCommit == [ses_id |-> NoSession, backup |-> <<>>]

CommitActive == commit_cb.ses_id # NoSession

Init ==
    /\ live = {}
    /\ entry = Unlocked
    /\ plockQ = [id \in Ids |-> NoLock]
    /\ plock = [n \in Nodes |-> {}]
    /\ last_id = 0
    /\ running \in Config
    /\ candidate = running
    /\ edited = {}
    /\ cand_plock = plock
    /\ commit_cb = NoCommit

NewSession(s) ==
    /\ s \in Sessions \ live
    /\ live' = live \cup {s}
    /\ UNCHANGED <<lockVars, running, candidate, edited, cand_plock, commit_cb>>
-----------------------------------------------------------------------------
\* Global locks of running.

GlobalLock(s) ==
    /\ s \in live
    /\ OkToLock(entry, FALSE)
    /\ ~CommitActive
    /\ entry' = LockedBy(s)
    /\ UNCHANGED <<live, plockQ, plock, last_id, running, candidate, edited,
                   cand_plock, commit_cb>>

GlobalUnlock(s) ==
    /\ s \in live
    /\ OkToUnlock(entry, s)
    /\ entry' = Unlocked
    /\ UNCHANGED <<live, plockQ, plock, last_id, running, candidate, edited,
                   cand_plock, commit_cb>>
-----------------------------------------------------------------------------
\* Partial locks.

\* A node below another selected node is redundant (xpath1_prune_nodeset).
Pruned(select) == {n \in select : \A m \in select \ {n} : n \notin Below[m]}

\* val_ok_to_partial_lock, for one node.
RoomFor(n, s) ==
    /\ Cardinality(plock[n]) < MaxPlocks
    /\ \A id \in plock[n] : plockQ[id].sid = s

\* Faulty variant: the ids start over while locks are held.
NextIdAnyTime == IF last_id = MaxId THEN {1} ELSE {last_id + 1}

\* Faulty variant: the last id is one too many.
NextIdOffByOne ==
    IF last_id <= MaxId THEN {last_id + 1}
    ELSE IF entry.state # "PLOCK" THEN {1} ELSE {}

\* plock_cb_new: the ids start over only when running has no partial lock, that
\* is, when its state is not PLOCK.
NextId ==
    IF last_id < MaxId THEN {last_id + 1}
    ELSE IF entry.state # "PLOCK" THEN {1} ELSE {}

\* Faulty variant: marks of other sessions are not looked at.
PartialLockBlindly(s, select) ==
    /\ s \in live
    /\ OkToPartialLock(entry)
    /\ ~CommitActive
    /\ \A n \in Pruned(select) : Cardinality(plock[n]) < MaxPlocks
    /\ \E id \in NextId :
          /\ last_id' = id
          /\ plockQ' = [plockQ EXCEPT ![id] = [sid |-> s, nodes |-> Pruned(select)]]
          /\ plock' = [n \in Nodes |-> plock[n] \cup {i \in {id} : n \in Pruned(select)}]
    /\ entry' = [entry EXCEPT !.state = "PLOCK"]
    /\ UNCHANGED <<live, running, candidate, edited, cand_plock, commit_cb>>

\* The subtrees of all selected nodes are looked at, but not the nodes above.
PartialLock(s, select) ==
    /\ s \in live
    /\ OkToPartialLock(entry)
    /\ ~CommitActive
    /\ \A n \in Pruned(select) : \A m \in Below[n] : RoomFor(m, s)
    /\ \E id \in NextId :
          /\ last_id' = id
          /\ plockQ' = [plockQ EXCEPT ![id] = [sid |-> s, nodes |-> Pruned(select)]]
          /\ plock' = [n \in Nodes |-> plock[n] \cup {i \in {id} : n \in Pruned(select)}]
    /\ entry' = [entry EXCEPT !.state = "PLOCK"]
    /\ UNCHANGED <<live, running, candidate, edited, cand_plock, commit_cb>>

\* A request that selects nothing, or that is refused after its control block was
\* made, has used up a lock id.
PartialLockWasted(s) ==
    /\ s \in live
    /\ OkToPartialLock(entry)
    /\ last_id' \in NextId
    /\ UNCHANGED <<live, entry, plockQ, plock, running, candidate, edited,
                   cand_plock, commit_cb>>

\* Faulty variant: the marks stay on the nodes.
ReleaseButKeepMarks(ids, marks, candMarks) ==
    /\ plockQ' = [id \in Ids |-> IF id \in ids THEN NoLock ELSE plockQ[id]]
    /\ plock' = marks
    /\ cand_plock' = candMarks

\* Faulty variant: a node loses the marks of other locks too.
ReleaseWholeNodes(ids, marks, candMarks) ==
    /\ plockQ' = [id \in Ids |-> IF id \in ids THEN NoLock ELSE plockQ[id]]
    /\ plock' = [n \in Nodes |-> IF marks[n] \cap ids = {} THEN marks[n] ELSE {}]
    /\ cand_plock' = candMarks

\* The locks ids are taken out of the queue, cleared from the nodes of running,
\* whose marks are marks by now, and freed; the clones in the candidate, whose
\* marks are candMarks, are left dangling.
Release(ids, marks, candMarks) ==
    /\ plockQ' = [id \in Ids |-> IF id \in ids THEN NoLock ELSE plockQ[id]]
    /\ plock' = [n \in Nodes |-> marks[n] \ ids]
    /\ cand_plock' = [n \in Nodes |->
                        (candMarks[n] \ ids) \cup
                        {i \in {Dangling} : candMarks[n] \cap ids # {}}]

\* Faulty variant: the datastore counts as unlocked whatever else is held.
PartialUnlockAll(s, id) ==
    /\ s \in live
    /\ plockQ[id].sid = s
    /\ Release({id}, plock, cand_plock)
    /\ entry' = [entry EXCEPT !.state = "READY"]
    /\ UNCHANGED <<live, last_id, running, candidate, edited, commit_cb>>

PartialUnlock(s, id) ==
    /\ s \in live
    /\ plockQ[id].sid = s
    /\ Release({id}, plock, cand_plock)
    /\ entry' = [entry EXCEPT !.state = IF Held = {id} THEN "READY" ELSE "PLOCK"]
    /\ UNCHANGED <<live, last_id, running, candidate, edited, commit_cb>>
-----------------------------------------------------------------------------
\* Edits and commits.

\* val_write_ok on a leaf with the given marks.  Nothing is asked when no partial
\* lock is held.  A dangling mark reads freed memory, so that either answer is
\* possible: it never makes a refusal certain.
WriteOk(marks, s) ==
    Held = {} \/ \A id \in marks \ {Dangling} : plockQ[id].sid = s

EditCandidate(s, l, v) ==
    /\ s \in live
    /\ v # candidate[l]
    /\ WriteOk(cand_plock[l], s)
    /\ candidate' = [candidate EXCEPT ![l] = v]
    /\ edited' = edited \cup {l}
    /\ UNCHANGED <<live, lockVars, running, cand_plock, commit_cb>>

\* discard-changes, copy-config from running, or a candidate unlock.
DiscardChanges(s) ==
    /\ s \in live
    /\ candidate' = running
    /\ edited' = {}
    /\ cand_plock' = plock
    /\ UNCHANGED <<live, lockVars, running, commit_cb>>

\* A commit checks and applies the leaves with a dirty mark; the containers they
\* are in are not dirty, and are not asked.
Commit(s, confirmed) ==
    /\ s \in live
    /\ OkToWrite(entry, s)
    /\ CommitActive => commit_cb.ses_id = s
    /\ \A l \in edited : WriteOk(plock[l], s)
    /\ running' = [l \in Leaves |-> IF l \in edited THEN candidate[l] ELSE running[l]]
    /\ candidate' = running'
    /\ edited' = {}
    /\ cand_plock' = plock
    /\ commit_cb' = IF ~confirmed THEN NoCommit
                    ELSE IF CommitActive THEN commit_cb
                    ELSE [ses_id |-> s, backup |-> running]
    /\ UNCHANGED <<live, lockVars>>
-----------------------------------------------------------------------------
\* Giving up a confirmed commit.

\* The load of the backup is done as session 0.  It is refused when running is
\* locked or any leaf carries a mark.
LoadAllowed ==
    /\ OkToWrite(entry, NoSession)
    /\ \A l \in Leaves : plock[l] = {}

Children(c) ==
    {n \in Below[c] \ {c} : \A m \in Below[c] \ {c, n} : n \notin Below[m]}

\* The load replaces a container when one of its own leaves differs.
LoadReplaces(c) ==
    \E l \in Leaves \cap Children(c) : commit_cb.backup[l] # running[l]

\* A replaced container hands its marks to the new one; the nodes inside do not.
MarksAfterLoad ==
    [n \in Nodes |-> IF \E c \in Nodes \ {n} : n \in Below[c] /\ LoadReplaces(c)
                     THEN {} ELSE plock[n]]

\* agt_ncx_cancel_confirmed_commit, and what else is released with it.
CancelConfirmedCommit(ids) ==
    /\ commit_cb' = NoCommit
    /\ IF LoadAllowed
       THEN /\ running' = commit_cb.backup
            /\ candidate' = running'
            /\ edited' = {}
            /\ Release(ids, MarksAfterLoad, MarksAfterLoad)
       ELSE /\ Release(ids, plock, cand_plock)
            /\ UNCHANGED <<running, candidate, edited>>

\* The confirm timer runs out, whenever that is, or the owner asks for
\* cancel-commit.
GiveUp ==
    /\ CommitActive
    /\ CancelConfirmedCommit({})
    /\ UNCHANGED <<live, entry, last_id>>

LocksOf(s) == {id \in Ids : plockQ[id].sid = s}

\* A session ends: its confirmed commit is given up, then its partial locks are
\* released, which leaves the state of the datastore alone, and its global lock.
EndSession(s) ==
    /\ s \in live
    /\ live' = live \ {s}
    /\ IF CommitActive /\ commit_cb.ses_id = s
       THEN CancelConfirmedCommit(LocksOf(s))
       ELSE /\ Release(LocksOf(s), plock, cand_plock)
            /\ UNCHANGED <<running, candidate, edited, commit_cb>>
    /\ entry' = ReleaseLock(entry, s)
    /\ UNCHANGED last_id

\* A session that is freed on the spot, for a message that cannot be dispatched:
\* its locks are released, its confirmed commit stays in progress.
DropSession(s) ==
    /\ s \in live
    /\ live' = live \ {s}
    /\ Release(LocksOf(s), plock, cand_plock)
    /\ entry' = ReleaseLock(entry, s)
    /\ UNCHANGED <<last_id, running, candidate, edited, commit_cb>>

Request(s) ==
    \/ GlobalLock(s)
    \/ GlobalUnlock(s)
    \/ \E select \in SUBSET Nodes \ {{}} : PartialLock(s, select)
    \/ PartialLockWasted(s)
    \/ \E id \in Ids : PartialUnlock(s, id)
    \/ \E l \in Leaves, v \in Values : EditCandidate(s, l, v)
    \/ DiscardChanges(s)
    \/ \E confirmed \in BOOLEAN : Commit(s, confirmed)

Next ==
    \/ \E s \in Sessions : NewSession(s) \/ EndSession(s) \/ DropSession(s) \/ Request(s)
    \/ GiveUp

Spec == Init /\ [][Next]_vars
-----------------------------------------------------------------------------
\* Properties.

\* The variables have their types.
TypeOK ==
    /\ live \subseteq Sessions
    /\ entry \in CfgEntries
    /\ plockQ \in [Ids -> [sid : Sessions \cup {NoSession}, nodes : SUBSET Nodes]]
    /\ plock \in [Nodes -> SUBSET Ids]
    /\ last_id \in 0 .. MaxId
    /\ running \in Config
    /\ candidate \in Config
    /\ edited \subseteq Leaves
    /\ cand_plock \in [Nodes -> SUBSET (Ids \cup {Dangling})]
    /\ commit_cb.ses_id \in Sessions \cup {NoSession}
    /\ CommitActive => commit_cb.backup \in Config

\* Every mark in running points to a lock that is in the queue, selects the node
\* and belongs to a session that is up: no node of running refers to a control
\* block that was freed (cfg_delete_partial_lock, cfg_release_partial_locks).
MarksAreHeld ==
    \A n \in Nodes : \A id \in plock[n] :
        n \in plockQ[id].nodes /\ plockQ[id].sid \in live

\* The marks of a node belong to one session (val_ok_to_partial_lock).
OneOwnerPerNode ==
    \A n \in Nodes : \A i, j \in plock[n] : plockQ[i].sid = plockQ[j].sid

\* A global lock of running and partial locks exclude each other, whoever holds
\* them (cfg_ok_to_lock, cfg_ok_to_partial_lock).
GlobalExcludesPartial == Held # {} => entry.state = "PLOCK"

\* A lock that stays in the queue is the lock it was: ids are not handed out
\* again while they are in use (plock_cb_reset_id).
IdsAreUnique ==
    [][\A id \in Held : plockQ'[id] \in {plockQ[id], NoLock}]_vars

\* The requests of sessions, the release of other locks among them, take no mark
\* away from a lock that stays in the queue (val_clear_partial_lock).
RequestsKeepMarks ==
    [][(\E s \in Sessions : Request(s)) =>
          \A n \in Nodes : \A id \in plock[n] :
              plockQ'[id] # NoLock => id \in plock'[n]]_vars

\* Running can be locked at any time if it is currently unlocked.
LockableWhenUnlocked ==
    Held = {} /\ entry.locked_by = NoSession => OkToLock(entry, FALSE)
=============================================================================
