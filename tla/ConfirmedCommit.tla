-------------------------- MODULE ConfirmedCommit --------------------------
(***************************************************************************)
(* The configuration datastores of netconfd and the operations on them:    *)
(* lock, unlock, edit-config, copy-config, delete-config, discard-changes, *)
(* commit, cancel-commit, the confirm timer, and the end of a session.     *)
(* The server is one process around one select loop, so every request, the *)
(* timer and the end of a session are atomic; what interleaves is whole    *)
(* operations of several sessions.  A request the server refuses changes   *)
(* nothing: it is a stuttering step.                                       *)
(*                                                                         *)
(* The server runs with --target=candidate, its default.  A configuration  *)
(* gives each leaf a value; must-, when- and access control checks only    *)
(* refuse requests, so they are left out, and partial locks are the        *)
(* subject of the module PartialLocks.                                     *)
(***************************************************************************)
EXTENDS CfgRules, Naturals

CONSTANTS
    Base11,             \* the sessions that negotiated base:1.1
    Leaves, Values,     \* a configuration gives each leaf a value
    Default,            \* the factory configuration
    Empty,              \* the contents of a datastore nothing was loaded into
    PersistIds,         \* what a client may use as persist string
    NoPersist,          \* no persist or persist-id parameter
    NoFile,             \* a file that does not exist
    NoRoot,             \* a datastore whose contents were deleted
    HasStartup,         \* --with-startup: a distinct startup datastore
    StopOnLoadError,    \* --startup-error=stop, the default
    SilFaults,          \* instrumentation callbacks may refuse
    IoFaults,           \* files may fail to be written
    BadMessages,        \* clients may send messages the server cannot dispatch
    MaxTimeout          \* bound on the confirm-timeout parameter

Config == [Leaves -> Values]

ASSUME ConstantsAssumption ==
    /\ Base11 \subseteq Sessions
    /\ {Default, Empty} \subseteq Config
    /\ NoPersist \notin PersistIds
    /\ NoFile \notin Config
    /\ {HasStartup, StopOnLoadError, SilFaults, IoFaults, BadMessages} \subseteq BOOLEAN
    /\ MaxTimeout \in Nat \ {0}

\* Contents with the leaves that carry a dirty mark.
Tree == [data : Config, edited : SUBSET Leaves]

ASSUME NoRootAssumption == NoRoot \notin Tree

Datastores == {"running", "candidate"} \cup
              (IF HasStartup THEN {"startup"} ELSE {})

VARIABLES
    live,       \* the sessions that are up
    cfg,        \* the lock entry of each datastore
    running,    \* contents of running, whose nodes are always clean
    candidate,  \* contents of the candidate
    dirty,      \* the candidate's CFG_FL_DIRTY
    startup,    \* contents of the startup datastore in memory
    nv,         \* startup-cfg.xml
    backup,     \* backup-cfg.xml
    commit_cb   \* the confirmed commit in progress

vars == <<live, cfg, running, candidate, dirty, startup, nv, backup, commit_cb>>

CommitCb == [active : BOOLEAN,
             ses_id : Sessions \cup {NoSession},
             persist_id : PersistIds \cup {NoPersist},
             left : 0 .. MaxTimeout]

NoCommit == [active |-> FALSE, ses_id |-> NoSession,
             persist_id |-> NoPersist, left |-> 0]

Clean(c) == [data |-> c, edited |-> {}]

\* The configuration a server boots with when it finds file f.
Booted(f) == IF f = NoFile THEN Default ELSE f

\* Its startup datastore is filled when a file is loaded, and only then.
BootedStartup(f) ==
    IF HasStartup THEN Clean(IF f = NoFile THEN Empty ELSE f) ELSE NoRoot

Init ==
    /\ live = {}
    /\ cfg = [d \in Datastores |-> Unlocked]
    /\ nv \in {NoFile} \cup Config
    /\ backup = NoFile
    /\ running = Booted(nv)
    /\ candidate = Clean(running)
    /\ dirty = FALSE
    /\ startup = BootedStartup(nv)
    /\ commit_cb = NoCommit
-----------------------------------------------------------------------------
\* Pieces that several operations share.

\* Faulty variant: the clone keeps the old dirty marks.
FillKeepingMarks(c) ==
    /\ candidate' = [candidate EXCEPT !.data = c]
    /\ dirty' = FALSE

\* cfg_fill_candidate_from_running, when running holds c.
FillCandidate(c) ==
    /\ candidate' = Clean(c)
    /\ dirty' = FALSE

KeepCandidate == UNCHANGED <<candidate, dirty>>

\* Faulty variant: a lock stops the load whatever --startup-error says.
RestoreOutcomesIfUnlocked(bk, sid) ==
    {ok \in BOOLEAN : ok <=> bk # NoFile /\ OkToWrite(cfg["running"], sid)}

\* The outcomes of loading backup file bk into running as session sid: TRUE is
\* success.  A lock held by another session makes the load's validation fail,
\* which is fatal with --startup-error=stop and a warning with continue.
RestoreOutcomes(bk, sid) ==
    LET lockedOut == StopOnLoadError /\ ~OkToWrite(cfg["running"], sid)
    IN  {ok \in BOOLEAN :
            IF ok THEN bk # NoFile /\ ~lockedOut
                  ELSE bk = NoFile \/ lockedOut \/ SilFaults}

\* Faulty variant: the candidate is not refreshed after the restore.
CancelWithoutResync(refill) ==
    \E restored \in RestoreOutcomes(backup, NoSession) :
        /\ running' = IF restored THEN backup ELSE running
        /\ IF refill THEN FillCandidate(running') ELSE KeepCandidate
        /\ commit_cb' = NoCommit

\* agt_ncx_cancel_confirmed_commit: the restore is done as the system, session
\* 0, and the confirmed commit is over whether or not it succeeds.  refill says
\* that the caller refreshes the candidate anyway.
CancelConfirmedCommit(refill) ==
    \E restored \in RestoreOutcomes(backup, NoSession) :
        /\ running' = IF restored THEN backup ELSE running
        /\ IF restored \/ refill THEN FillCandidate(running') ELSE KeepCandidate
        /\ commit_cb' = NoCommit
-----------------------------------------------------------------------------
\* Sessions.

NewSession(s) ==
    /\ s \in Sessions \ live
    /\ live' = live \cup {s}
    /\ UNCHANGED <<cfg, running, candidate, dirty, startup, nv, backup, commit_cb>>

OwnsCommit(s) == commit_cb.active /\ commit_cb.ses_id = s

\* Faulty variant: the ended session stays the owner.
ReleaseNoCommit(s) == commit_cb

\* agt_ncx_clear_cc_ses_id: a persistent confirmed commit outlives its owner.
ReleaseCommit(s) == IF OwnsCommit(s) THEN [commit_cb EXCEPT !.ses_id = NoSession]
                                     ELSE commit_cb

\* A session ends: closed, killed, timed out or dropped.  The confirmed commit
\* it owns is dealt with before its locks are released.
EndSession(s) ==
    LET held == cfg["candidate"].locked_by = s
    IN  /\ s \in live
        /\ live' = live \ {s}
        /\ \/ /\ OwnsCommit(s)
              /\ commit_cb.persist_id = NoPersist
              /\ CancelConfirmedCommit(held)
           \/ /\ ~(OwnsCommit(s) /\ commit_cb.persist_id = NoPersist)
              /\ commit_cb' = ReleaseCommit(s)
              /\ IF held THEN FillCandidate(running) ELSE KeepCandidate
              /\ UNCHANGED running
        /\ cfg' = [d \in Datastores |-> ReleaseLock(cfg[d], s)]
        /\ UNCHANGED <<startup, nv, backup>>

\* A session that sends a message the server cannot dispatch is freed on the spot:
\* its locks are released, the confirmed commit it owns is not looked at.
DropSession(s) ==
    /\ BadMessages
    /\ s \in live
    /\ live' = live \ {s}
    /\ IF cfg["candidate"].locked_by = s THEN FillCandidate(running) ELSE KeepCandidate
    /\ cfg' = [d \in Datastores |-> ReleaseLock(cfg[d], s)]
    /\ UNCHANGED <<running, startup, nv, backup, commit_cb>>
-----------------------------------------------------------------------------
\* Locks.

\* Faulty variant: a confirmed commit in progress is overlooked.
LockDuringCommit(s, d) ==
    /\ s \in live
    /\ OkToLock(cfg[d], d = "candidate" /\ dirty)
    /\ cfg' = [cfg EXCEPT ![d] = LockedBy(s)]
    /\ UNCHANGED <<live, running, candidate, dirty, startup, nv, backup, commit_cb>>

Lock(s, d) ==
    /\ s \in live
    /\ OkToLock(cfg[d], d = "candidate" /\ dirty)
    /\ d \in {"running", "candidate"} => ~commit_cb.active
    /\ cfg' = [cfg EXCEPT ![d] = LockedBy(s)]
    /\ UNCHANGED <<live, running, candidate, dirty, startup, nv, backup, commit_cb>>

Unlock(s, d) ==
    /\ s \in live
    /\ OkToUnlock(cfg[d], s)
    /\ cfg' = [cfg EXCEPT ![d] = Unlocked]
    /\ IF d = "candidate" THEN FillCandidate(running) ELSE KeepCandidate
    /\ UNCHANGED <<live, running, startup, nv, backup, commit_cb>>
-----------------------------------------------------------------------------
\* Changing the candidate and the startup datastore.

MayWrite(s, d) == s \in live /\ OkToWrite(cfg[d], s)

\* Faulty variant: only the marks of the last edit survive.
LastEdited(c) == [data |-> c, edited |-> {l \in Leaves : c[l] # candidate.data[l]}]

\* The candidate after an edit to c: leaves whose value changes get a dirty mark.
Edited(c) == [data |-> c,
              edited |-> candidate.edited \cup
                         {l \in Leaves : c[l] # candidate.data[l]}]

\* edit-config, and copy-config of inline contents to the candidate; the
\* datastore counts as dirty even when no leaf changes.
EditCandidate(s, c) ==
    /\ MayWrite(s, "candidate")
    /\ candidate' = Edited(c)
    /\ dirty' = TRUE
    /\ UNCHANGED <<live, cfg, running, startup, nv, backup, commit_cb>>

CopyRunningToCandidate(s) ==
    /\ MayWrite(s, "candidate")
    /\ FillCandidate(running)
    /\ UNCHANGED <<live, cfg, running, startup, nv, backup, commit_cb>>

DiscardChanges(s) == dirty /\ CopyRunningToCandidate(s)

\* The clone keeps the dirty marks of the startup tree, and the datastore counts
\* as clean although it need not equal running.
CopyStartupToCandidate(s) ==
    /\ HasStartup
    /\ MayWrite(s, "candidate")
    /\ startup # NoRoot
    /\ candidate' = startup
    /\ dirty' = FALSE
    /\ UNCHANGED <<live, cfg, running, startup, nv, backup, commit_cb>>

\* Faulty variant: the lock of the startup datastore is not asked for.
CopyToLockedStartup(s, tree) ==
    /\ HasStartup
    /\ s \in live
    /\ nv' = tree.data
    /\ startup' = tree
    /\ UNCHANGED <<live, cfg, running, candidate, dirty, backup, commit_cb>>

\* A datastore is saved: into the file, then into the startup datastore.
CopyToStartup(s, tree) ==
    /\ HasStartup
    /\ MayWrite(s, "startup")
    /\ nv' = tree.data
    /\ startup' = tree
    /\ UNCHANGED <<live, cfg, running, candidate, dirty, backup, commit_cb>>

\* Inline contents go to the file only.
CopyInlineToStartup(s, c) ==
    /\ HasStartup
    /\ MayWrite(s, "startup")
    /\ nv' = c
    /\ UNCHANGED <<live, cfg, running, candidate, dirty, startup, backup, commit_cb>>

DeleteStartup(s) ==
    /\ HasStartup
    /\ MayWrite(s, "startup")
    /\ nv # NoFile
    /\ nv' = NoFile
    /\ startup' = NoRoot
    /\ UNCHANGED <<live, cfg, running, candidate, dirty, backup, commit_cb>>
-----------------------------------------------------------------------------
\* commit.

\* Faulty variant: the lock of running is not asked for.
CommitValidUnlessCandidateLocked(s, persist, persistId) ==
    /\ s \in live
    /\ persistId # NoPersist =>
            commit_cb.active /\ commit_cb.persist_id = persistId
    /\ MayWrite(s, "candidate")

\* commit_validate.
CommitValid(s, persist, persistId) ==
    /\ s \in live
    /\ s \in Base11 \/ {persist, persistId} = {NoPersist}
    /\ persistId # NoPersist =>
            commit_cb.active /\ commit_cb.persist_id = persistId
    /\ MayWrite(s, "candidate")
    /\ MayWrite(s, "running")

\* Running after the dirty leaves of the candidate are applied.
Merged == [l \in Leaves |-> IF l \in candidate.edited THEN candidate.data[l]
                                                      ELSE running[l]]

\* The commit replaces running and refreshes the candidate.
Applied(saved, save) ==
    /\ running' = Merged
    /\ nv' = IF save /\ ~HasStartup THEN Merged ELSE saved
    /\ FillCandidate(Merged)

\* A callback refuses and the edits are rolled back; when a callback refuses the
\* rollback too, the backup is loaded.
Refused(bk, sid, saved) ==
    /\ SilFaults
    /\ \/ UNCHANGED running
       \/ \E restored \in RestoreOutcomes(bk, sid) :
            running' = IF restored THEN bk ELSE running
    /\ nv' = saved
    /\ KeepCandidate

\* The edits are applied, then a commit-complete callback or the save fails.
\* The rollback never ran, which counts as a rollback that failed.
FailedLate(bk, sid, saved, save) ==
    /\ SilFaults \/ (IoFaults /\ save /\ ~HasStartup)
    /\ \E restored \in RestoreOutcomes(bk, sid) :
            running' = IF restored THEN bk ELSE Merged
    /\ nv' = saved
    /\ candidate' = [candidate EXCEPT !.edited = {}]
    /\ UNCHANGED dirty

\* The second half of commit_invoke, once commit_cb is cc and the startup file
\* holds saved: apply the candidate, with bk in the backup file.
ApplyCommit(cc, bk, saved, save) ==
    /\ commit_cb' = cc
    /\ backup' = bk
    /\ \/ Applied(saved, save)
       \/ Refused(bk, cc.ses_id, saved)
       \/ FailedLate(bk, cc.ses_id, saved, save)

\* The same, after running is written to the backup file.
BackupAndApply(cc, saved, save) ==
    \/ ApplyCommit(cc, running, saved, save)
    \/ /\ IoFaults
       /\ commit_cb' = cc
       /\ nv' = saved
       /\ KeepCandidate
       /\ UNCHANGED <<running, backup>>

\* No confirmed commit is in progress and none is asked for.
PlainCommit(s) ==
    /\ CommitValid(s, NoPersist, NoPersist)
    /\ ~commit_cb.active
    /\ BackupAndApply(commit_cb, nv, TRUE)
    /\ UNCHANGED <<live, cfg, startup>>

StartConfirmedCommit(s, persist, timeout) ==
    /\ CommitValid(s, persist, NoPersist)
    /\ ~commit_cb.active
    /\ BackupAndApply([active |-> TRUE, ses_id |-> s,
                       persist_id |-> persist, left |-> timeout], nv, FALSE)
    /\ UNCHANGED <<live, cfg, startup>>

\* Faulty variant: the backup is rewritten as for any other commit.
ExtendWithNewBackup(s, persist, persistId, timeout) ==
    /\ CommitValid(s, persist, persistId)
    /\ commit_cb.active
    /\ commit_cb.ses_id = s
    /\ BackupAndApply([commit_cb EXCEPT !.left = timeout], nv, FALSE)
    /\ UNCHANGED <<live, cfg, startup>>

\* A further confirmed commit: the timer restarts, the session becomes the owner
\* and the first backup is kept.
ExtendConfirmedCommit(s, persist, persistId, timeout) ==
    /\ CommitValid(s, persist, persistId)
    /\ commit_cb.active
    /\ IF commit_cb.persist_id = NoPersist THEN commit_cb.ses_id = s
                                           ELSE persistId # NoPersist
    /\ ApplyCommit([active |-> TRUE, ses_id |-> s, left |-> timeout,
                    persist_id |-> IF persist = NoPersist
                                   THEN commit_cb.persist_id ELSE persist],
                   backup, nv, FALSE)
    /\ UNCHANGED <<live, cfg, startup>>

\* A commit without <confirmed> ends the confirmed commit: running is saved as
\* it is, then the candidate is committed on top.
FinishConfirmedCommit(s, persistId) ==
    /\ CommitValid(s, NoPersist, persistId)
    /\ commit_cb.active
    /\ persistId # NoPersist \/ commit_cb.ses_id = s
    /\ BackupAndApply(NoCommit, running, TRUE)
    /\ startup' = IF HasStartup THEN Clean(running) ELSE startup
    /\ UNCHANGED <<live, cfg>>

\* Faulty variant: any session may cancel when there is no persist-id.
CancelCommitOfAnyone(s, persistId) ==
    /\ s \in Base11
    /\ MayWrite(s, "running")
    /\ commit_cb.active
    /\ persistId = commit_cb.persist_id
    /\ CancelConfirmedCommit(FALSE)
    /\ UNCHANGED <<live, cfg, startup, nv, backup>>

CancelCommit(s, persistId) ==
    /\ s \in Base11
    /\ MayWrite(s, "running")
    /\ commit_cb.active
    /\ persistId = commit_cb.persist_id
    /\ persistId = NoPersist => commit_cb.ses_id = s
    /\ CancelConfirmedCommit(FALSE)
    /\ UNCHANGED <<live, cfg, startup, nv, backup>>

Commit(s) ==
    \E persist \in PersistIds \cup {NoPersist}, timeout \in 1 .. MaxTimeout :
        \/ PlainCommit(s)
        \/ StartConfirmedCommit(s, persist, timeout)
        \/ \E persistId \in PersistIds \cup {NoPersist} :
              \/ ExtendConfirmedCommit(s, persist, persistId, timeout)
              \/ FinishConfirmedCommit(s, persistId)
-----------------------------------------------------------------------------
\* The confirm timer and the process.

\* Faulty variant: the timer runs on below zero.
TickForever ==
    /\ commit_cb.active
    /\ commit_cb' = [commit_cb EXCEPT !.left = @ - 1]
    /\ UNCHANGED <<live, cfg, running, candidate, dirty, startup, nv, backup>>

Tick ==
    /\ commit_cb.active
    /\ commit_cb.left > 0
    /\ commit_cb' = [commit_cb EXCEPT !.left = @ - 1]
    /\ UNCHANGED <<live, cfg, running, candidate, dirty, startup, nv, backup>>

\* Faulty variant: the server waits for the lock on running to go away.
TimeoutUnlessLocked ==
    /\ commit_cb.active
    /\ commit_cb.left = 0
    /\ OkToWrite(cfg["running"], NoSession)
    /\ CancelConfirmedCommit(FALSE)
    /\ UNCHANGED <<live, cfg, startup, nv, backup>>

Timeout ==
    /\ commit_cb.active
    /\ commit_cb.left = 0
    /\ CancelConfirmedCommit(FALSE)
    /\ UNCHANGED <<live, cfg, startup, nv, backup>>

\* The server stops, at any moment between two operations, and boots again: what
\* it kept in memory is lost, the files stay.
Restart ==
    /\ live' = {}
    /\ cfg' = [d \in Datastores |-> Unlocked]
    /\ running' = Booted(nv)
    /\ FillCandidate(Booted(nv))
    /\ startup' = BootedStartup(nv)
    /\ commit_cb' = NoCommit
    /\ UNCHANGED <<nv, backup>>

\* What session s can ask for.
Request(s) ==
    \/ \E d \in Datastores : Lock(s, d) \/ Unlock(s, d)
    \/ \E c \in Config : EditCandidate(s, c) \/ CopyInlineToStartup(s, c)
    \/ CopyRunningToCandidate(s)
    \/ DiscardChanges(s)
    \/ CopyStartupToCandidate(s)
    \/ \E tree \in {Clean(running), candidate} : CopyToStartup(s, tree)
    \/ DeleteStartup(s)
    \/ Commit(s)
    \/ \E persistId \in PersistIds \cup {NoPersist} : CancelCommit(s, persistId)

Next ==
    \/ \E s \in Sessions : NewSession(s) \/ EndSession(s) \/ DropSession(s) \/ Request(s)
    \/ Tick
    \/ Timeout
    \/ Restart

Spec == Init /\ [][Next]_vars

\* Time passes, and the select loop polls the timer when a second goes by without
\* traffic.
Fairness == WF_vars(Tick) /\ WF_vars(Timeout)

FairSpec == Spec /\ Fairness
-----------------------------------------------------------------------------
\* Invariants.

\* The variables have their types.
TypeOK ==
    /\ live \subseteq Sessions
    /\ cfg \in [Datastores -> CfgEntries]
    /\ running \in Config
    /\ candidate \in Tree
    /\ dirty \in BOOLEAN
    /\ startup \in Tree \cup {NoRoot}
    /\ nv \in Config \cup {NoFile}
    /\ backup \in Config \cup {NoFile}
    /\ commit_cb \in CommitCb

\* A global lock belongs to a session that is up: however a session ends, it
\* leaves no datastore locked behind it (agt_ses_free_session).
LockOwnerAlive ==
    \A d \in Datastores :
        IF cfg[d].state = "FLOCK" THEN cfg[d].locked_by \in live
                                  ELSE cfg[d].locked_by = NoSession

\* A confirmed commit belongs to a session that is up, or waits for whoever knows
\* its persist-id: it is never an orphan nobody can confirm or cancel, and never
\* one that a later session inherits (agt_ses_kill_session).  It takes clients
\* whose messages can be dispatched.
CommitOwnerAlive ==
    commit_cb.active =>
        \/ commit_cb.ses_id \in live
        \/ commit_cb.ses_id = NoSession /\ commit_cb.persist_id # NoPersist

\* While a confirmed commit is in progress, a lock on running or the candidate
\* can only be its owner's (lock_validate, commit_validate): nobody else can
\* keep it from being confirmed or reverted.
OnlyOwnerLocks ==
    commit_cb.active =>
        \A d \in {"running", "candidate"} :
            cfg[d].state = "FLOCK" => cfg[d].locked_by = commit_cb.ses_id

\* Without a distinct startup the startup file always holds the last confirmed
\* configuration: the one the backup file holds while a confirmed commit is in
\* progress, running otherwise.  A restart at any moment therefore reverts what
\* is unconfirmed and nothing else.
FileIsConfirmed ==
    Booted(nv) = IF commit_cb.active THEN backup ELSE running

\* A candidate that counts as clean equals running, so that a session granted the
\* candidate lock starts from running (cfg_ok_to_lock).
CleanIsRunning == ~dirty => candidate = Clean(running)

\* The leaves of the candidate that differ from running are exactly the ones a
\* commit would apply: no edit of the candidate is ever lost from the commit.
EditsWillCommit == Merged = candidate.data

\* A commit skips its access and partial-lock checks when the candidate is not
\* marked dirty (agt_val_check_commit_edits): then it must have nothing to apply.
EditsAreChecked == ~dirty => candidate.edited = {}
-----------------------------------------------------------------------------
\* Action properties.

\* The confirmed commit is given up: by its timer, by cancel-commit or because
\* its owner's session ends.
GivenUp ==
    /\ commit_cb.active
    /\ ~commit_cb'.active
    /\ \/ Timeout
       \/ \E s \in Sessions : EndSession(s)
       \/ \E s \in Sessions, id \in PersistIds \cup {NoPersist} : CancelCommit(s, id)

\* A confirmed commit that is given up puts running back to what it was before
\* (agt_ncx_cancel_confirmed_commit).
GivingUpRestores == [][GivenUp => running' = backup]_vars

\* A confirmed commit without persist-id ends with the session that owns it,
\* whatever the session is terminated for.
OwnerEndsCommit ==
    [][\A s \in live \ live' :
          OwnsCommit(s) /\ commit_cb.persist_id = NoPersist => ~commit_cb'.active]_vars

\* Only a commit of the session that holds the lock on running, or a reversal by
\* the server, changes a locked running.
LockedRunningIsStable ==
    [][\A s \in Sessions :
          /\ cfg["running"].state = "FLOCK"
          /\ cfg["running"].locked_by # s
          /\ Request(s)
          => UNCHANGED running]_vars

\* The candidate a session has locked changes only by its own requests, but for
\* one: whoever knows the persist-id of the confirmed commit the session started
\* may cancel it, which refreshes the candidate whoever holds its lock.
LockedCandidateIsStable ==
    [][\A s \in Sessions :
          /\ cfg["candidate"].state = "FLOCK"
          /\ cfg["candidate"].locked_by # s
          /\ Request(s)
          => UNCHANGED candidate \/ \E id \in PersistIds : CancelCommit(s, id)]_vars

\* While a session holds the lock on the startup datastore, the only request of
\* another session that writes the startup file is the one that finishes a
\* confirmed commit.
LockedStartupIsStable ==
    [][\A s \in Sessions :
          /\ HasStartup
          /\ cfg["startup"].state = "FLOCK"
          /\ cfg["startup"].locked_by # s
          /\ Request(s)
          => nv' = nv \/ (commit_cb.active /\ ~commit_cb'.active)]_vars
-----------------------------------------------------------------------------
\* Liveness.

\* Something arrives at the server.
Traffic ==
    \E s \in Sessions : NewSession(s) \/ EndSession(s) \/ DropSession(s) \/ Request(s)

\* When the clients fall silent, a confirmed commit does not stay in progress with
\* nobody confirming it, whatever is locked and whatever fails
\* (agt_ses_check_timeouts).
CommitEnds == <>[][~Traffic]_vars => []<>~commit_cb.active

\* Without a distinct startup datastore the server implements the promise of a
\* confirmed commit.
Promise == INSTANCE TentativeConfig WITH
    None <- NoFile,
    saved <- Booted(nv),
    pending <- IF commit_cb.active THEN backup ELSE NoFile

PromiseKept == Promise!Spec
=============================================================================
