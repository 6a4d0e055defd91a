----------------------- MODULE ConfirmedCommitProofs -----------------------
(***************************************************************************)
(* Proofs about ConfirmedCommit, for any sessions, configurations, persist *)
(* strings and timeouts.                                                   *)
(***************************************************************************)
EXTENDS ConfirmedCommit, TLAPS

USE NoSessionAssumption, ConstantsAssumption, NoRootAssumption

\* The steps that change only the candidate, the startup datastore and files.
QuietRequest(s) ==
    \/ \E c \in Config : EditCandidate(s, c) \/ CopyInlineToStartup(s, c)
    \/ CopyRunningToCandidate(s)
    \/ DiscardChanges(s)
    \/ CopyStartupToCandidate(s)
    \/ \E tree \in {Clean(running), candidate} : CopyToStartup(s, tree)
    \/ DeleteStartup(s)
-----------------------------------------------------------------------------
(***************************************************************************)
(* Types.                                                                  *)
(***************************************************************************)

\* Clean trees and booted configurations are well formed.
LEMMA CleanType ==
    ASSUME NEW c \in Config
    PROVE  Clean(c) \in Tree
BY DEF Clean, Tree

LEMMA BootedType ==
    ASSUME NEW f \in Config \cup {NoFile}
    PROVE  Booted(f) \in Config
BY DEF Booted

LEMMA BootedStartupType ==
    ASSUME NEW f \in Config \cup {NoFile}
    PROVE  BootedStartup(f) \in Tree \cup {NoRoot}
BY CleanType DEF BootedStartup

LEMMA UnlockedType == Unlocked \in CfgEntries
BY DEF Unlocked, CfgEntries

\* What is merged into running is a configuration.
LEMMA MergedType ==
    ASSUME TypeOK
    PROVE  Merged \in Config
<1>1. candidate.data \in [Leaves -> Values] /\ running \in [Leaves -> Values]
  BY DEF TypeOK, Tree, Config
<1>2. QED
  BY <1>1 DEF Merged, Config

\* The initial state is well typed.
LEMMA TypeInit == Init => TypeOK
<1> SUFFICES ASSUME Init PROVE TypeOK
  OBVIOUS
<1>1. nv \in Config \cup {NoFile} /\ running \in Config
  BY BootedType DEF Init
<1>2. candidate \in Tree /\ Clean(running) \in Tree
  BY <1>1, CleanType DEF Init
<1>3. cfg \in [Datastores -> CfgEntries]
  BY UnlockedType DEF Init
<1>4. commit_cb \in CommitCb
  BY DEF Init, NoCommit, CommitCb
<1>5. startup \in Tree \cup {NoRoot}
  BY BootedStartupType DEF Init
<1>6. QED
  BY <1>1, <1>2, <1>3, <1>4, <1>5 DEF Init, TypeOK

\* Cancelling a confirmed commit keeps the types it touches.
LEMMA CancelType ==
    ASSUME TypeOK, NEW refill \in BOOLEAN, CancelConfirmedCommit(refill)
    PROVE  /\ running' \in Config
           /\ candidate' \in Tree
           /\ dirty' \in BOOLEAN
           /\ commit_cb' \in CommitCb
<1>1. PICK restored \in RestoreOutcomes(backup, NoSession) :
        /\ running' = IF restored THEN backup ELSE running
        /\ IF restored \/ refill THEN FillCandidate(running') ELSE KeepCandidate
        /\ commit_cb' = NoCommit
  BY DEF CancelConfirmedCommit
<1>2. running' \in Config
  BY <1>1 DEF RestoreOutcomes, TypeOK
<1>3. candidate' \in Tree /\ dirty' \in BOOLEAN
  BY <1>1, <1>2, CleanType DEF FillCandidate, KeepCandidate, TypeOK
<1>4. commit_cb' \in CommitCb
  BY <1>1 DEF NoCommit, CommitCb
<1>5. QED
  BY <1>2, <1>3, <1>4

\* So does the second half of a commit, whatever its outcome.
LEMMA ApplyType ==
    ASSUME TypeOK,
           NEW cc \in CommitCb, NEW bk \in Config \cup {NoFile},
           NEW saved \in Config \cup {NoFile}, NEW save \in BOOLEAN,
           ApplyCommit(cc, bk, saved, save)
    PROVE  /\ running' \in Config
           /\ candidate' \in Tree
           /\ dirty' \in BOOLEAN
           /\ nv' \in Config \cup {NoFile}
           /\ backup' \in Config \cup {NoFile}
           /\ commit_cb' \in CommitCb
<1>1. commit_cb' = cc /\ backup' = bk
  BY DEF ApplyCommit
<1>2. CASE Applied(saved, save)
  BY <1>1, <1>2, MergedType, CleanType DEF Applied, FillCandidate
<1>3. CASE Refused(bk, cc.ses_id, saved)
  <2>1. running' \in Config
    BY <1>3 DEF Refused, RestoreOutcomes, TypeOK
  <2>2. QED
    BY <1>1, <1>3, <2>1 DEF Refused, KeepCandidate, TypeOK
<1>4. CASE FailedLate(bk, cc.ses_id, saved, save)
  <2>1. running' \in Config
    BY <1>4, MergedType DEF FailedLate, RestoreOutcomes
  <2>2. candidate' \in Tree
    BY <1>4 DEF FailedLate, TypeOK, Tree
  <2>3. QED
    BY <1>1, <1>4, <2>1, <2>2 DEF FailedLate, TypeOK
<1>5. QED
  BY <1>2, <1>3, <1>4 DEF ApplyCommit

LEMMA BackupAndApplyType ==
    ASSUME TypeOK,
           NEW cc \in CommitCb,
           NEW saved \in Config \cup {NoFile}, NEW save \in BOOLEAN,
           BackupAndApply(cc, saved, save)
    PROVE  /\ running' \in Config
           /\ candidate' \in Tree
           /\ dirty' \in BOOLEAN
           /\ nv' \in Config \cup {NoFile}
           /\ backup' \in Config \cup {NoFile}
           /\ commit_cb' \in CommitCb
<1>1. CASE ApplyCommit(cc, running, saved, save)
  BY <1>1, ApplyType DEF TypeOK
<1>2. CASE ~ApplyCommit(cc, running, saved, save)
  BY <1>2 DEF BackupAndApply, KeepCandidate, TypeOK
<1>3. QED
  BY <1>1, <1>2

\* A commit_cb that a commit installs is well typed.
LEMMA CommitCbType ==
    ASSUME NEW s \in Sessions, NEW p \in PersistIds \cup {NoPersist},
           NEW t \in 0 .. MaxTimeout
    PROVE  [active |-> TRUE, ses_id |-> s, persist_id |-> p, left |-> t] \in CommitCb
BY DEF CommitCb

LEMMA NoCommitType == NoCommit \in CommitCb
BY DEF NoCommit, CommitCb

\* The four kinds of commit keep the types.
LEMMA CommitType ==
    ASSUME TypeOK, NEW s \in Sessions, Commit(s)
    PROVE  TypeOK'
<1>1. PICK persist \in PersistIds \cup {NoPersist}, timeout \in 1 .. MaxTimeout :
        \/ PlainCommit(s)
        \/ StartConfirmedCommit(s, persist, timeout)
        \/ \E persistId \in PersistIds \cup {NoPersist} :
              \/ ExtendConfirmedCommit(s, persist, persistId, timeout)
              \/ FinishConfirmedCommit(s, persistId)
  BY DEF Commit
<1>2. timeout \in 0 .. MaxTimeout
  BY <1>1
<1>3. CASE PlainCommit(s)
  <2>1. BackupAndApply(commit_cb, nv, TRUE) /\ UNCHANGED <<live, cfg, startup>>
    BY <1>3 DEF PlainCommit
  <2>2. commit_cb \in CommitCb /\ nv \in Config \cup {NoFile}
    BY DEF TypeOK
  <2>3. QED
    BY <2>1, <2>2, BackupAndApplyType DEF TypeOK
<1>4. CASE StartConfirmedCommit(s, persist, timeout)
  <2> DEFINE cc == [active |-> TRUE, ses_id |-> s, persist_id |-> persist, left |-> timeout]
  <2>1. BackupAndApply(cc, nv, FALSE) /\ UNCHANGED <<live, cfg, startup>>
    BY <1>4 DEF StartConfirmedCommit
  <2>2. cc \in CommitCb
    BY <1>2, CommitCbType
  <2>3. nv \in Config \cup {NoFile}
    BY DEF TypeOK
  <2> HIDE DEF cc
  <2>4. QED
    BY <2>1, <2>2, <2>3, BackupAndApplyType DEF TypeOK
<1>5. ASSUME NEW persistId \in PersistIds \cup {NoPersist},
             ExtendConfirmedCommit(s, persist, persistId, timeout)
      PROVE  TypeOK'
  <2> DEFINE p == IF persist = NoPersist THEN commit_cb.persist_id ELSE persist
             cc == [active |-> TRUE, ses_id |-> s, left |-> timeout, persist_id |-> p]
  <2>1. ApplyCommit(cc, backup, nv, FALSE) /\ UNCHANGED <<live, cfg, startup>>
    BY <1>5 DEF ExtendConfirmedCommit
  <2>2. p \in PersistIds \cup {NoPersist}
    BY DEF TypeOK, CommitCb
  <2>3. cc \in CommitCb
    BY <1>2, <2>2, CommitCbType
  <2>4. nv \in Config \cup {NoFile} /\ backup \in Config \cup {NoFile}
    BY DEF TypeOK
  <2> HIDE DEF cc
  <2>5. QED
    BY <2>1, <2>3, <2>4, ApplyType DEF TypeOK
<1>6. ASSUME NEW persistId \in PersistIds \cup {NoPersist},
             FinishConfirmedCommit(s, persistId)
      PROVE  TypeOK'
  <2>1. BackupAndApply(NoCommit, running, TRUE) /\ UNCHANGED <<live, cfg>>
    BY <1>6 DEF FinishConfirmedCommit
  <2>2. running \in Config \cup {NoFile}
    BY DEF TypeOK
  <2>3. startup' \in Tree \cup {NoRoot}
    BY <1>6, CleanType DEF FinishConfirmedCommit, TypeOK
  <2>4. QED
    BY <2>1, <2>2, <2>3, NoCommitType, BackupAndApplyType DEF TypeOK
<1>7. QED
  BY <1>1, <1>3, <1>4, <1>5, <1>6

\* The other requests that change contents keep the types.
LEMMA QuietType ==
    ASSUME TypeOK, NEW s \in Sessions, QuietRequest(s)
    PROVE  TypeOK'
<1>1. ASSUME NEW c \in Config, EditCandidate(s, c)
      PROVE  TypeOK'
  <2>1. Edited(c) \in Tree
    BY DEF Edited, Tree, TypeOK
  <2>2. QED
    BY <1>1, <2>1 DEF EditCandidate, TypeOK
<1>2. ASSUME NEW c \in Config, CopyInlineToStartup(s, c)
      PROVE  TypeOK'
  BY <1>2 DEF CopyInlineToStartup, TypeOK
<1>3. ASSUME CopyRunningToCandidate(s)
      PROVE  TypeOK'
  BY <1>3, CleanType DEF CopyRunningToCandidate, FillCandidate, TypeOK
<1>4. CASE CopyStartupToCandidate(s)
  BY <1>4 DEF CopyStartupToCandidate, TypeOK
<1>5. ASSUME NEW tree \in {Clean(running), candidate}, CopyToStartup(s, tree)
      PROVE  TypeOK'
  <2>1. tree \in Tree
    BY <1>5, CleanType DEF TypeOK
  <2>2. tree.data \in Config
    BY <2>1 DEF Tree
  <2>3. QED
    BY <1>5, <2>1, <2>2 DEF CopyToStartup, TypeOK
<1>6. CASE DeleteStartup(s)
  BY <1>6 DEF DeleteStartup, TypeOK
<1>7. CASE DiscardChanges(s)
  BY <1>3, <1>7 DEF DiscardChanges
<1>8. QED
  BY <1>1, <1>2, <1>3, <1>4, <1>5, <1>6, <1>7 DEF QuietRequest

\* Lock entries stay well typed when they are taken, returned and released.
LEMMA LockType ==
    ASSUME TypeOK, NEW s \in Sessions, NEW d \in Datastores
    PROVE  /\ [cfg EXCEPT ![d] = LockedBy(s)] \in [Datastores -> CfgEntries]
           /\ [cfg EXCEPT ![d] = Unlocked] \in [Datastores -> CfgEntries]
<1>1. LockedBy(s) \in CfgEntries
  BY DEF LockedBy, CfgEntries
<1>2. QED
  BY <1>1, UnlockedType DEF TypeOK

LEMMA ReleaseType ==
    ASSUME TypeOK, NEW s \in Sessions
    PROVE  [d \in Datastores |-> ReleaseLock(cfg[d], s)] \in [Datastores -> CfgEntries]
<1>1. ASSUME NEW d \in Datastores
      PROVE  ReleaseLock(cfg[d], s) \in CfgEntries
  BY UnlockedType DEF ReleaseLock, TypeOK
<1>2. QED
  BY <1>1

\* A session's end keeps the types.
LEMMA EndSessionType ==
    ASSUME TypeOK, NEW s \in Sessions, EndSession(s)
    PROVE  TypeOK'
<1> DEFINE held == cfg["candidate"].locked_by = s
<1>1. /\ live' = live \ {s}
      /\ cfg' = [d \in Datastores |-> ReleaseLock(cfg[d], s)]
      /\ UNCHANGED <<startup, nv, backup>>
  BY DEF EndSession
<1>2. live' \subseteq Sessions /\ cfg' \in [Datastores -> CfgEntries]
  BY <1>1, ReleaseType DEF TypeOK
<1>3. startup' \in Tree \cup {NoRoot} /\ nv' \in Config \cup {NoFile}
      /\ backup' \in Config \cup {NoFile}
  BY <1>1 DEF TypeOK
<1>4. CASE CancelConfirmedCommit(held)
  <2>1. held \in BOOLEAN
    OBVIOUS
  <2> HIDE DEF held
  <2>2. QED
    BY <1>2, <1>3, <1>4, <2>1, CancelType DEF TypeOK
<1>5. CASE /\ commit_cb' = ReleaseCommit(s)
           /\ IF held THEN FillCandidate(running) ELSE KeepCandidate
           /\ UNCHANGED running
  <2>1. candidate' \in Tree /\ dirty' \in BOOLEAN /\ running' \in Config
    BY <1>5, CleanType DEF FillCandidate, KeepCandidate, TypeOK
  <2>2. commit_cb' \in CommitCb
    BY <1>5 DEF ReleaseCommit, TypeOK, CommitCb
  <2>3. QED
    BY <1>2, <1>3, <2>1, <2>2 DEF TypeOK
<1>6. QED
  BY <1>4, <1>5 DEF EndSession

LEMMA DropSessionType ==
    ASSUME TypeOK, NEW s \in Sessions, DropSession(s)
    PROVE  TypeOK'
<1>1. live' \subseteq Sessions /\ cfg' \in [Datastores -> CfgEntries]
  BY ReleaseType DEF DropSession, TypeOK
<1>2. candidate' \in Tree /\ dirty' \in BOOLEAN
  BY CleanType DEF DropSession, FillCandidate, KeepCandidate, TypeOK
<1>3. QED
  BY <1>1, <1>2 DEF DropSession, TypeOK

\* Every step keeps the types.
LEMMA TypeNext == TypeOK /\ [Next]_vars => TypeOK'
<1> SUFFICES ASSUME TypeOK, [Next]_vars PROVE TypeOK'
  OBVIOUS
<1>1. CASE UNCHANGED vars
  BY <1>1 DEF vars, TypeOK
<1>2. ASSUME NEW s \in Sessions, NewSession(s)
      PROVE  TypeOK'
  BY <1>2 DEF NewSession, TypeOK
<1>3. ASSUME NEW s \in Sessions, NEW d \in Datastores, Lock(s, d)
      PROVE  TypeOK'
  BY <1>3, LockType DEF Lock, TypeOK
<1>4. ASSUME NEW s \in Sessions, NEW d \in Datastores, Unlock(s, d)
      PROVE  TypeOK'
  <2>1. candidate' \in Tree /\ dirty' \in BOOLEAN
    BY <1>4, CleanType DEF Unlock, FillCandidate, KeepCandidate, TypeOK
  <2>2. QED
    BY <1>4, <2>1, LockType DEF Unlock, TypeOK
<1>5. ASSUME NEW s \in Sessions, NEW id, CancelCommit(s, id)
      PROVE  TypeOK'
  BY <1>5, CancelType DEF CancelCommit, TypeOK
<1>6. CASE Tick
  <2>1. commit_cb.left - 1 \in 0 .. MaxTimeout
    BY <1>6 DEF Tick, TypeOK, CommitCb
  <2>2. commit_cb' \in CommitCb
    BY <1>6, <2>1 DEF Tick, TypeOK, CommitCb
  <2>3. QED
    BY <1>6, <2>2 DEF Tick, TypeOK
<1>7. CASE Timeout
  BY <1>7, CancelType DEF Timeout, TypeOK
<1>8. CASE Restart
  <2>1. Booted(nv) \in Config
    BY BootedType DEF TypeOK
  <2>2. Clean(Booted(nv)) \in Tree
    BY <2>1, CleanType
  <2>3. QED
    BY <1>8, <2>1, <2>2, UnlockedType, NoCommitType, BootedStartupType
       DEF Restart, FillCandidate, TypeOK
<1>9. ASSUME NEW s \in Sessions, Request(s)
      PROVE  TypeOK'
  BY <1>3, <1>4, <1>5, <1>9, CommitType, QuietType DEF Request, QuietRequest
<1>10. QED
  BY <1>1, <1>2, <1>6, <1>7, <1>8, <1>9, EndSessionType, DropSessionType DEF Next

\* The variables always have their types.
THEOREM TypeCorrect == Spec => []TypeOK
BY TypeInit, TypeNext, PTL DEF Spec
-----------------------------------------------------------------------------
(***************************************************************************)
(* Who owns the locks and the confirmed commit.  The three invariants are  *)
(* inductive together: the end of a session may leave the confirmed commit *)
(* without an owner, and no datastore is locked by another session then,   *)
(* because only the owner could hold a lock and its locks are released.    *)
(***************************************************************************)

NoOrphan == ~BadMessages => CommitOwnerAlive

Ownership == TypeOK /\ LockOwnerAlive /\ NoOrphan /\ OnlyOwnerLocks

\* Whatever its outcome, a commit installs the commit_cb it was given.
LEMMA CommitInstalls ==
    ASSUME NEW cc, NEW bk, NEW saved, NEW save,
           ApplyCommit(cc, bk, saved, save) \/ BackupAndApply(cc, saved, save)
    PROVE  commit_cb' = cc
BY DEF ApplyCommit, BackupAndApply

\* Every kind of commit comes from a session that may write both datastores, and
\* leaves it the owner of whatever confirmed commit is then in progress.
LEMMA CommitOwner ==
    ASSUME NEW s \in Sessions, Commit(s)
    PROVE  /\ s \in live
           /\ OkToWrite(cfg["running"], s)
           /\ OkToWrite(cfg["candidate"], s)
           /\ UNCHANGED <<live, cfg>>
           /\ commit_cb'.active => commit_cb'.ses_id = s
<1>1. PICK persist \in PersistIds \cup {NoPersist}, timeout \in 1 .. MaxTimeout :
        \/ PlainCommit(s)
        \/ StartConfirmedCommit(s, persist, timeout)
        \/ \E persistId \in PersistIds \cup {NoPersist} :
              \/ ExtendConfirmedCommit(s, persist, persistId, timeout)
              \/ FinishConfirmedCommit(s, persistId)
  BY DEF Commit
<1>2. PICK persist1, persistId1 : CommitValid(s, persist1, persistId1)
  BY <1>1 DEF PlainCommit, StartConfirmedCommit, ExtendConfirmedCommit,
              FinishConfirmedCommit
<1>3. UNCHANGED <<live, cfg>>
  BY <1>1 DEF PlainCommit, StartConfirmedCommit, ExtendConfirmedCommit,
              FinishConfirmedCommit
<1>4. commit_cb'.active => commit_cb'.ses_id = s
  <2>1. CASE PlainCommit(s)
    <3>1. commit_cb' = commit_cb /\ ~commit_cb.active
      BY <2>1, CommitInstalls DEF PlainCommit
    <3>2. QED
      BY <3>1
  <2>2. CASE StartConfirmedCommit(s, persist, timeout)
    <3>1. commit_cb' = [active |-> TRUE, ses_id |-> s,
                        persist_id |-> persist, left |-> timeout]
      BY <2>2, CommitInstalls DEF StartConfirmedCommit
    <3>2. QED
      BY <3>1
  <2>3. ASSUME NEW persistId, ExtendConfirmedCommit(s, persist, persistId, timeout)
        PROVE  commit_cb'.ses_id = s
    <3>1. commit_cb' = [active |-> TRUE, ses_id |-> s, left |-> timeout,
                        persist_id |-> IF persist = NoPersist
                                       THEN commit_cb.persist_id ELSE persist]
      BY <2>3, CommitInstalls DEF ExtendConfirmedCommit
    <3>2. QED
      BY <3>1
  <2>4. ASSUME NEW persistId, FinishConfirmedCommit(s, persistId)
        PROVE  ~commit_cb'.active
    <3>1. commit_cb' = NoCommit
      BY <2>4, CommitInstalls DEF FinishConfirmedCommit
    <3>2. QED
      BY <3>1 DEF NoCommit
  <2>5. QED
    BY <1>1, <2>1, <2>2, <2>3, <2>4
<1>5. QED
  BY <1>2, <1>3, <1>4 DEF CommitValid, MayWrite

\* The end of a confirmed commit, for whatever reason, and the requests that do
\* not touch locks, sessions and the confirmed commit.
LEMMA QuietOwner ==
    ASSUME NEW s \in Sessions, QuietRequest(s)
    PROVE  UNCHANGED <<live, cfg, commit_cb>>
BY DEF QuietRequest, EditCandidate, CopyInlineToStartup, CopyRunningToCandidate,
       DiscardChanges, CopyStartupToCandidate, CopyToStartup, DeleteStartup

LEMMA OwnershipInit == Init => Ownership
<1> SUFFICES ASSUME Init PROVE Ownership
  OBVIOUS
<1>1. TypeOK
  BY TypeInit
<1>2. LockOwnerAlive
  BY DEF Init, LockOwnerAlive, Unlocked
<1>3. NoOrphan /\ OnlyOwnerLocks
  BY DEF Init, NoOrphan, CommitOwnerAlive, OnlyOwnerLocks, NoCommit
<1>4. QED
  BY <1>1, <1>2, <1>3 DEF Ownership

\* When the owner of a lock ends, the entry becomes free; other entries stay.
LEMMA EndSessionOwner ==
    ASSUME Ownership, NEW s \in Sessions, EndSession(s)
    PROVE  LockOwnerAlive' /\ NoOrphan' /\ OnlyOwnerLocks'
<1>1. /\ live' = live \ {s}
      /\ cfg' = [d \in Datastores |-> ReleaseLock(cfg[d], s)]
  BY DEF EndSession
<1>2. \A d \in Datastores : cfg'[d] = IF cfg[d].locked_by = s THEN Unlocked ELSE cfg[d]
  BY <1>1 DEF ReleaseLock
<1>3. LockOwnerAlive'
  BY <1>1, <1>2 DEF LockOwnerAlive, Unlocked, Ownership
<1>4. \/ commit_cb' = NoCommit
      \/ commit_cb' = commit_cb /\ ~OwnsCommit(s)
      \/ /\ OwnsCommit(s)
         /\ commit_cb.persist_id # NoPersist
         /\ commit_cb' = [commit_cb EXCEPT !.ses_id = NoSession]
  BY DEF EndSession, CancelConfirmedCommit, ReleaseCommit
<1>5. NoOrphan'
  BY <1>1, <1>4 DEF NoOrphan, CommitOwnerAlive, OwnsCommit, NoCommit, Ownership, TypeOK, CommitCb
<1>6. OnlyOwnerLocks'
  <2> SUFFICES ASSUME commit_cb'.active,
                      NEW d \in {"running", "candidate"}, cfg'[d].state = "FLOCK"
               PROVE  cfg'[d].locked_by = commit_cb'.ses_id
    BY DEF OnlyOwnerLocks
  <2>1. d \in Datastores
    BY DEF Datastores
  <2>2. cfg[d].locked_by # s /\ cfg'[d] = cfg[d]
    BY <1>2, <2>1 DEF Unlocked
  <2>3. commit_cb.active
    BY <1>4 DEF NoCommit, OwnsCommit
  <2>4. cfg[d].locked_by = commit_cb.ses_id
    BY <2>2, <2>3 DEF Ownership, OnlyOwnerLocks
  <2>5. ~OwnsCommit(s)
    BY <2>2, <2>4 DEF OwnsCommit
  <2>6. QED
    BY <1>4, <2>2, <2>4, <2>5 DEF NoCommit
<1>7. QED
  BY <1>3, <1>5, <1>6

\* The same for a session that is freed on the spot, whose confirmed commit stays.
LEMMA DropSessionOwner ==
    ASSUME Ownership, NEW s \in Sessions, DropSession(s)
    PROVE  LockOwnerAlive' /\ NoOrphan' /\ OnlyOwnerLocks'
<1>1. /\ live' = live \ {s}
      /\ cfg' = [d \in Datastores |-> ReleaseLock(cfg[d], s)]
      /\ commit_cb' = commit_cb
      /\ BadMessages
  BY DEF DropSession
<1>2. \A d \in Datastores : cfg'[d] = IF cfg[d].locked_by = s THEN Unlocked ELSE cfg[d]
  BY <1>1 DEF ReleaseLock
<1>3. LockOwnerAlive'
  BY <1>1, <1>2 DEF LockOwnerAlive, Unlocked, Ownership
<1>4. OnlyOwnerLocks'
  BY <1>1, <1>2 DEF OnlyOwnerLocks, Unlocked, Datastores, Ownership
<1>5. QED
  BY <1>1, <1>3, <1>4 DEF NoOrphan

LEMMA OwnershipNext == Ownership /\ [Next]_vars => Ownership'
<1> SUFFICES ASSUME Ownership, [Next]_vars
             PROVE  LockOwnerAlive' /\ NoOrphan' /\ OnlyOwnerLocks'
  BY TypeNext DEF Ownership
<1> USE DEF Ownership
<1>1. CASE UNCHANGED <<live, cfg, commit_cb>>
  BY <1>1 DEF LockOwnerAlive, NoOrphan, CommitOwnerAlive, OnlyOwnerLocks
<1>2. ASSUME NEW s \in Sessions, NewSession(s)
      PROVE  LockOwnerAlive' /\ NoOrphan' /\ OnlyOwnerLocks'
  BY <1>2 DEF NewSession, LockOwnerAlive, NoOrphan, CommitOwnerAlive, OnlyOwnerLocks
<1>3. ASSUME NEW s \in Sessions, NEW d \in Datastores, Lock(s, d)
      PROVE  LockOwnerAlive' /\ NoOrphan' /\ OnlyOwnerLocks'
  <2>1. /\ s \in live
        /\ d \in {"running", "candidate"} => ~commit_cb.active
        /\ cfg' = [cfg EXCEPT ![d] = LockedBy(s)]
        /\ UNCHANGED <<live, commit_cb>>
    BY <1>3 DEF Lock
  <2>2. \A e \in Datastores : cfg'[e] = IF e = d THEN LockedBy(s) ELSE cfg[e]
    BY <2>1 DEF TypeOK
  <2>3. LockOwnerAlive'
    BY <2>1, <2>2 DEF LockOwnerAlive, LockedBy
  <2>4. OnlyOwnerLocks'
    BY <2>1, <2>2 DEF OnlyOwnerLocks, Datastores
  <2>5. QED
    BY <2>1, <2>3, <2>4 DEF NoOrphan, CommitOwnerAlive
<1>4. ASSUME NEW s \in Sessions, NEW d \in Datastores, Unlock(s, d)
      PROVE  LockOwnerAlive' /\ NoOrphan' /\ OnlyOwnerLocks'
  <2>1. cfg' = [cfg EXCEPT ![d] = Unlocked] /\ UNCHANGED <<live, commit_cb>>
    BY <1>4 DEF Unlock
  <2>2. \A e \in Datastores : cfg'[e] = IF e = d THEN Unlocked ELSE cfg[e]
    BY <2>1 DEF TypeOK
  <2>3. LockOwnerAlive'
    BY <2>1, <2>2 DEF LockOwnerAlive, Unlocked
  <2>4. OnlyOwnerLocks'
    BY <2>1, <2>2 DEF OnlyOwnerLocks, Datastores, Unlocked
  <2>5. QED
    BY <2>1, <2>3, <2>4 DEF NoOrphan, CommitOwnerAlive
<1>5. ASSUME NEW s \in Sessions, Commit(s)
      PROVE  LockOwnerAlive' /\ NoOrphan' /\ OnlyOwnerLocks'
  <2>1. /\ s \in live
        /\ OkToWrite(cfg["running"], s)
        /\ OkToWrite(cfg["candidate"], s)
        /\ UNCHANGED <<live, cfg>>
        /\ commit_cb'.active => commit_cb'.ses_id = s
    BY <1>5, CommitOwner
  <2>2. QED
    BY <2>1 DEF LockOwnerAlive, NoOrphan, CommitOwnerAlive, OnlyOwnerLocks, OkToWrite
<1>6. CASE commit_cb' = NoCommit /\ UNCHANGED <<live, cfg>>
  BY <1>6 DEF LockOwnerAlive, NoOrphan, CommitOwnerAlive, OnlyOwnerLocks, NoCommit
<1>7. ASSUME NEW s \in Sessions, Request(s)
      PROVE  LockOwnerAlive' /\ NoOrphan' /\ OnlyOwnerLocks'
  <2>1. ASSUME NEW id, CancelCommit(s, id)
        PROVE  commit_cb' = NoCommit /\ UNCHANGED <<live, cfg>>
    BY <2>1 DEF CancelCommit, CancelConfirmedCommit
  <2>2. QED
    BY <1>1, <1>3, <1>4, <1>5, <1>6, <1>7, <2>1, QuietOwner DEF Request, QuietRequest
<1>8. CASE Tick
  BY <1>8 DEF Tick, TypeOK, CommitCb, LockOwnerAlive, NoOrphan, CommitOwnerAlive, OnlyOwnerLocks
<1>9. CASE Timeout
  BY <1>6, <1>9 DEF Timeout, CancelConfirmedCommit
<1>10. CASE Restart
  <2>1. \A d \in Datastores : cfg'[d] = Unlocked
    BY <1>10 DEF Restart
  <2>2. commit_cb' = NoCommit
    BY <1>10 DEF Restart
  <2>3. QED
    BY <2>1, <2>2 DEF LockOwnerAlive, NoOrphan, CommitOwnerAlive, OnlyOwnerLocks, Unlocked, NoCommit
<1>11. QED
  BY <1>1, <1>2, <1>7, <1>8, <1>9, <1>10, EndSessionOwner, DropSessionOwner
     DEF Next, vars

\* A lock never outlives its session.
THEOREM LocksHaveOwners == Spec => []LockOwnerAlive
<1>1. Ownership => LockOwnerAlive
  BY DEF Ownership
<1>2. QED
  BY <1>1, OwnershipInit, OwnershipNext, PTL DEF Spec

\* A confirmed commit never becomes an orphan, unless a session is dropped for a
\* message that cannot be dispatched.
THEOREM CommitsHaveOwners == ~BadMessages => (Spec => []CommitOwnerAlive)
<1> SUFFICES ASSUME ~BadMessages PROVE Spec => []CommitOwnerAlive
  OBVIOUS
<1>1. Ownership => CommitOwnerAlive
  BY DEF Ownership, NoOrphan
<1>2. QED
  BY <1>1, OwnershipInit, OwnershipNext, PTL DEF Spec

\* Nobody but its owner can lock the datastores of a confirmed commit.
THEOREM OthersCannotLock == Spec => []OnlyOwnerLocks
<1>1. Ownership => OnlyOwnerLocks
  BY DEF Ownership
<1>2. QED
  BY <1>1, OwnershipInit, OwnershipNext, PTL DEF Spec
-----------------------------------------------------------------------------
(***************************************************************************)
(* The promise of a confirmed commit.  It is kept by a server without a    *)
(* distinct startup datastore whose reversals go through: with             *)
(* --startup-error=stop a lock can stop one, and so can callbacks that     *)
(* refuse and files that cannot be written.  All of it rests on one fact   *)
(* besides the types: a confirmed commit in progress has its backup.       *)
(***************************************************************************)

ReversalsGoThrough ==
    ~HasStartup /\ ~StopOnLoadError /\ ~SilFaults /\ ~IoFaults

HasBackup == TypeOK /\ (commit_cb.active => backup # NoFile)

\* The one outcome a commit is left with.
LEMMA CommitOutcome ==
    ASSUME TypeOK, ReversalsGoThrough, NEW cc, NEW bk, NEW saved, NEW save \in BOOLEAN,
           ApplyCommit(cc, bk, saved, save)
    PROVE  /\ commit_cb' = cc
           /\ backup' = bk
           /\ running' = Merged
           /\ nv' = IF save THEN Merged ELSE saved
BY DEF ReversalsGoThrough, ApplyCommit, Applied, Refused, FailedLate

LEMMA BackedUpOutcome ==
    ASSUME TypeOK, ReversalsGoThrough, NEW cc, NEW saved, NEW save \in BOOLEAN,
           BackupAndApply(cc, saved, save)
    PROVE  ApplyCommit(cc, running, saved, save)
BY DEF ReversalsGoThrough, BackupAndApply

\* The one outcome of giving a confirmed commit up.
LEMMA CancelOutcome ==
    ASSUME HasBackup, ReversalsGoThrough, commit_cb.active,
           NEW refill, CancelConfirmedCommit(refill)
    PROVE  running' = backup /\ commit_cb' = NoCommit
<1>1. \A ok \in RestoreOutcomes(backup, NoSession) : ok
  BY DEF RestoreOutcomes, ReversalsGoThrough, HasBackup
<1>2. QED
  BY <1>1 DEF CancelConfirmedCommit

\* Booting from a configuration that was saved.
LEMMA BootedConfig ==
    ASSUME NEW c \in Config
    PROVE  Booted(c) = c
BY DEF Booted

\* A commit is a final change, a proposal, an extension or a confirmation.
LEMMA CommitStep ==
    ASSUME HasBackup, ReversalsGoThrough, NEW s \in Sessions, Commit(s)
    PROVE  /\ Promise!Next
           /\ commit_cb'.active => backup' # NoFile
<1>1. PICK persist \in PersistIds \cup {NoPersist}, timeout \in 1 .. MaxTimeout :
        \/ PlainCommit(s)
        \/ StartConfirmedCommit(s, persist, timeout)
        \/ \E persistId \in PersistIds \cup {NoPersist} :
              \/ ExtendConfirmedCommit(s, persist, persistId, timeout)
              \/ FinishConfirmedCommit(s, persistId)
  BY DEF Commit
<1>2. TypeOK /\ Merged \in Config /\ running \in Config
  BY MergedType DEF HasBackup, TypeOK
<1>3. CASE PlainCommit(s)
  <2>1. ~commit_cb.active /\ ApplyCommit(commit_cb, running, nv, TRUE)
    BY <1>2, <1>3, BackedUpOutcome DEF PlainCommit
  <2>2. commit_cb' = commit_cb /\ running' = Merged /\ nv' = Merged
    BY <1>2, <2>1, CommitOutcome
  <2>3. Promise!Commit
    BY <1>2, <2>1, <2>2, BootedConfig DEF Promise!Commit
  <2>4. QED
    BY <2>1, <2>2, <2>3 DEF Promise!Next
<1>4. CASE StartConfirmedCommit(s, persist, timeout)
  <2> DEFINE cc == [active |-> TRUE, ses_id |-> s, persist_id |-> persist, left |-> timeout]
  <2>1. ~commit_cb.active /\ BackupAndApply(cc, nv, FALSE)
    BY <1>4 DEF StartConfirmedCommit
  <2>2. cc.active
    OBVIOUS
  <2> HIDE DEF cc
  <2>3. ApplyCommit(cc, running, nv, FALSE)
    BY <1>2, <2>1, BackedUpOutcome
  <2>4. commit_cb' = cc /\ backup' = running /\ running' = Merged /\ nv' = nv
    BY <1>2, <2>3, CommitOutcome
  <2>5. Promise!Propose
    BY <1>2, <2>1, <2>2, <2>4 DEF Promise!Propose
  <2>6. QED
    BY <1>2, <2>4, <2>5 DEF Promise!Next
<1>5. ASSUME NEW persistId, ExtendConfirmedCommit(s, persist, persistId, timeout)
      PROVE  Promise!Extend /\ backup' # NoFile
  <2> DEFINE cc == [active |-> TRUE, ses_id |-> s, left |-> timeout,
                    persist_id |-> IF persist = NoPersist
                                   THEN commit_cb.persist_id ELSE persist]
  <2>1. commit_cb.active /\ ApplyCommit(cc, backup, nv, FALSE)
    BY <1>5 DEF ExtendConfirmedCommit
  <2>2. cc.active
    OBVIOUS
  <2> HIDE DEF cc
  <2>3. commit_cb' = cc /\ backup' = backup /\ running' = Merged /\ nv' = nv
    BY <1>2, <2>1, CommitOutcome
  <2>4. backup # NoFile
    BY <2>1 DEF HasBackup
  <2>5. QED
    BY <1>2, <2>1, <2>2, <2>3, <2>4 DEF Promise!Extend
<1>6. ASSUME NEW persistId, FinishConfirmedCommit(s, persistId)
      PROVE  Promise!Confirm /\ ~commit_cb'.active
  <2>1. commit_cb.active /\ BackupAndApply(NoCommit, running, TRUE)
    BY <1>6 DEF FinishConfirmedCommit
  <2>2. ApplyCommit(NoCommit, running, running, TRUE)
    BY <1>2, <2>1, BackedUpOutcome
  <2>3. commit_cb' = NoCommit /\ running' = Merged /\ nv' = Merged
    BY <1>2, <2>2, CommitOutcome
  <2>4. ~commit_cb'.active
    BY <2>3 DEF NoCommit
  <2>5. backup # NoFile
    BY <2>1 DEF HasBackup
  <2>6. QED
    BY <1>2, <2>1, <2>3, <2>4, <2>5, BootedConfig DEF Promise!Confirm
<1>7. QED
  BY <1>1, <1>3, <1>4, <1>5, <1>6 DEF Promise!Next

\* However a confirmed commit is given up, it is reverted.
LEMMA CancelStep ==
    ASSUME HasBackup, ReversalsGoThrough, commit_cb.active,
           NEW refill, CancelConfirmedCommit(refill), UNCHANGED nv
    PROVE  Promise!Next /\ ~commit_cb'.active
<1>1. running' = backup /\ commit_cb' = NoCommit
  BY CancelOutcome
<1>2. ~commit_cb'.active /\ backup # NoFile
  BY <1>1 DEF NoCommit, HasBackup
<1>3. Promise!Revert
  BY <1>1, <1>2 DEF Promise!Revert
<1>4. QED
  BY <1>2, <1>3 DEF Promise!Next

PromisedStep ==
    /\ Promise!Next \/ UNCHANGED Promise!vars
    /\ commit_cb'.active => backup' # NoFile

\* Every step of the server is a step of the promise or does not concern it.
LEMMA PromiseStep ==
    ASSUME HasBackup, ReversalsGoThrough, [Next]_vars
    PROVE  PromisedStep
<1>1. ASSUME UNCHANGED <<running, nv, backup>>, commit_cb'.active = commit_cb.active
      PROVE  PromisedStep
  BY <1>1 DEF PromisedStep, Promise!vars, HasBackup, Booted
<1>2. ASSUME NEW s \in Sessions, NewSession(s)
      PROVE  PromisedStep
  BY <1>1, <1>2 DEF NewSession
<1>3. ASSUME NEW s \in Sessions, EndSession(s)
      PROVE  PromisedStep
  <2>1. UNCHANGED <<nv, backup>>
    BY <1>3 DEF EndSession
  <2>2. CASE commit_cb.active /\ \E held : CancelConfirmedCommit(held)
    BY <2>1, <2>2, CancelStep DEF PromisedStep
  <2>3. CASE commit_cb' = ReleaseCommit(s) /\ UNCHANGED running
    <3>1. commit_cb'.active = commit_cb.active
      BY <2>3 DEF ReleaseCommit, HasBackup, TypeOK, CommitCb
    <3>2. QED
      BY <1>1, <2>1, <2>3, <3>1
  <2>4. QED
    BY <1>3, <2>2, <2>3 DEF EndSession, OwnsCommit
<1>4. ASSUME NEW s \in Sessions, Request(s)
      PROVE  PromisedStep
  <2>1. ASSUME NEW d \in Datastores, Lock(s, d) \/ Unlock(s, d)
        PROVE  PromisedStep
    BY <1>1, <2>1 DEF Lock, Unlock
  <2>2. CASE QuietRequest(s)
    <3>1. UNCHANGED <<running, nv, backup, commit_cb>>
      BY <2>2 DEF QuietRequest, EditCandidate, CopyInlineToStartup,
                  CopyRunningToCandidate, DiscardChanges, CopyStartupToCandidate,
                  CopyToStartup, DeleteStartup, ReversalsGoThrough
    <3>2. QED
      BY <1>1, <3>1
  <2>3. CASE Commit(s)
    BY <2>3, CommitStep DEF PromisedStep
  <2>4. ASSUME NEW id, CancelCommit(s, id)
        PROVE  PromisedStep
    <3>1. commit_cb.active /\ CancelConfirmedCommit(FALSE) /\ UNCHANGED nv
      BY <2>4 DEF CancelCommit
    <3>2. QED
      BY <3>1, CancelStep DEF PromisedStep
  <2>5. QED
    BY <1>4, <2>1, <2>2, <2>3, <2>4 DEF Request, QuietRequest
<1>5. CASE Tick
  <2>1. commit_cb'.active = commit_cb.active
    BY <1>5 DEF Tick, HasBackup, TypeOK, CommitCb
  <2>2. QED
    BY <1>1, <1>5, <2>1 DEF Tick
<1>6. CASE Timeout
  <2>1. commit_cb.active /\ CancelConfirmedCommit(FALSE) /\ UNCHANGED nv
    BY <1>6 DEF Timeout
  <2>2. QED
    BY <2>1, CancelStep DEF PromisedStep
<1>7. CASE Restart
  <2>1. running' = Booted(nv) /\ nv' = nv /\ ~commit_cb'.active
    BY <1>7 DEF Restart, NoCommit
  <2>2. Promise!Restart
    BY <2>1 DEF Promise!Restart, Booted
  <2>3. QED
    BY <2>1, <2>2 DEF PromisedStep, Promise!Next
<1>8. CASE UNCHANGED vars
  BY <1>1, <1>8 DEF vars
<1>9. ASSUME NEW s \in Sessions, DropSession(s)
      PROVE  PromisedStep
  BY <1>1, <1>9 DEF DropSession
<1>10. QED
  BY <1>2, <1>3, <1>4, <1>5, <1>6, <1>7, <1>8, <1>9 DEF Next

LEMMA HasBackupInit == Init => HasBackup
<1>1. Init => (commit_cb.active => backup # NoFile)
  BY DEF Init, NoCommit
<1>2. QED
  BY <1>1, TypeInit DEF HasBackup

LEMMA HasBackupNext == ReversalsGoThrough /\ HasBackup /\ [Next]_vars => HasBackup'
<1> SUFFICES ASSUME ReversalsGoThrough, HasBackup, [Next]_vars
             PROVE  HasBackup'
  OBVIOUS
<1>1. TypeOK'
  BY TypeNext DEF HasBackup
<1>2. commit_cb'.active => backup' # NoFile
  BY PromiseStep DEF PromisedStep
<1>3. QED
  BY <1>1, <1>2 DEF HasBackup

\* The server implements the promise of a confirmed commit.
THEOREM PromiseIsKept == ReversalsGoThrough => (Spec => PromiseKept)
<1> SUFFICES ASSUME ReversalsGoThrough
             PROVE  Spec => PromiseKept
  OBVIOUS
<1>1. Init => Promise!Init
  <2> SUFFICES ASSUME Init PROVE Promise!Init
    OBVIOUS
  <2>1. running = Booted(nv) /\ nv \in Config \cup {NoFile} /\ ~commit_cb.active
    BY DEF Init, NoCommit
  <2>2. QED
    BY <2>1, BootedType DEF Promise!Init
<1>2. HasBackup /\ [Next]_vars => [Promise!Next]_(Promise!vars)
  BY PromiseStep DEF PromisedStep
<1>3. HasBackup /\ [Next]_vars => HasBackup'
  BY HasBackupNext
<1>4. QED
  BY <1>1, <1>2, <1>3, HasBackupInit, PTL DEF Spec, PromiseKept, Promise!Spec

\* A restart at any moment reverts what is unconfirmed, and nothing else.
THEOREM RestartReverts == ReversalsGoThrough => (Spec => []FileIsConfirmed)
<1> SUFFICES ASSUME ReversalsGoThrough
             PROVE  Spec => []FileIsConfirmed
  OBVIOUS
<1>1. Init => FileIsConfirmed
  BY DEF Init, NoCommit, FileIsConfirmed
<1>2. ASSUME HasBackup, HasBackup', FileIsConfirmed, [Next]_vars
      PROVE  FileIsConfirmed'
  <2>1. Promise!Next \/ UNCHANGED Promise!vars
    BY <1>2, PromiseStep DEF PromisedStep
  <2> DEFINE pending == IF commit_cb.active THEN backup ELSE NoFile
  <2>2. /\ (pending # NoFile) = commit_cb.active
        /\ (pending' # NoFile) = commit_cb'.active
    BY <1>2 DEF HasBackup, TypeOK, CommitCb
  <2>3. Booted(nv) = IF pending = NoFile THEN running ELSE pending
    BY <1>2, <2>2 DEF FileIsConfirmed
  <2>4. (Booted(nv))' = IF pending' = NoFile THEN running' ELSE pending'
    BY <2>1, <2>3 DEF Promise!Next, Promise!vars, Promise!Commit, Promise!Propose,
                      Promise!Extend, Promise!Confirm, Promise!Revert, Promise!Restart,
                      Booted
  <2>5. QED
    BY <2>2, <2>4 DEF FileIsConfirmed
<1>3. HasBackup /\ [Next]_vars => HasBackup'
  BY HasBackupNext
<1>4. QED
  BY <1>1, <1>2, <1>3, HasBackupInit, PTL DEF Spec

\* A confirmed commit that is given up puts running back to what it was before.
THEOREM GivenUpIsRestored == ReversalsGoThrough => (Spec => GivingUpRestores)
<1> SUFFICES ASSUME ReversalsGoThrough
             PROVE  Spec => GivingUpRestores
  OBVIOUS
<1>1. ASSUME HasBackup, GivenUp
      PROVE  running' = backup
  <2>1. \E refill : CancelConfirmedCommit(refill)
    <3>1. ASSUME NEW s \in Sessions, EndSession(s)
          PROVE  \E refill : CancelConfirmedCommit(refill)
      <4>1. ReleaseCommit(s).active = commit_cb.active
        BY <1>1 DEF ReleaseCommit, HasBackup, TypeOK, CommitCb
      <4>2. QED
        BY <1>1, <3>1, <4>1 DEF EndSession, GivenUp
    <3>2. QED
      BY <1>1, <3>1 DEF GivenUp, Timeout, CancelCommit
  <2>2. QED
    BY <1>1, <2>1, CancelOutcome DEF GivenUp
<1>2. HasBackup /\ [Next]_vars => HasBackup'
  BY HasBackupNext
<1>3. QED
  BY <1>1, <1>2, HasBackupInit, PTL DEF Spec, GivingUpRestores

\* It is given up with the session that owns it, whatever the session is
\* terminated for, unless for a message that cannot be dispatched.
THEOREM CommitEndsWithOwner == ~BadMessages => (Spec => OwnerEndsCommit)
<1> SUFFICES ASSUME ~BadMessages
             PROVE  Spec => OwnerEndsCommit
  OBVIOUS
<1>1. ASSUME [Next]_vars, NEW s \in live \ live', TypeOK,
             OwnsCommit(s), commit_cb.persist_id = NoPersist
      PROVE  ~commit_cb'.active
  <2>1. ASSUME NEW r \in Sessions, EndSession(r)
        PROVE  ~commit_cb'.active
    <3>1. r = s
      BY <1>1, <2>1 DEF EndSession
    <3>2. commit_cb' = NoCommit
      BY <1>1, <2>1, <3>1 DEF EndSession, CancelConfirmedCommit
    <3>3. QED
      BY <3>2 DEF NoCommit
  <2>2. ASSUME NEW r \in Sessions, Request(r)
        PROVE  live' = live
    <3>1. Commit(r) => live' = live
      BY CommitOwner
    <3>2. QuietRequest(r) => live' = live
      BY QuietOwner
    <3>3. QED
      BY <2>2, <3>1, <3>2 DEF Request, QuietRequest, Lock, Unlock, CancelCommit
  <2>3. CASE Restart
    BY <2>3 DEF Restart, NoCommit
  <2>4. QED
    BY <1>1, <2>1, <2>2, <2>3
       DEF Next, vars, NewSession, DropSession, Tick, Timeout
<1>2. TypeOK /\ [Next]_vars =>
        [\A s \in live \ live' :
            OwnsCommit(s) /\ commit_cb.persist_id = NoPersist => ~commit_cb'.active]_vars
  BY <1>1
<1>3. TypeOK /\ [Next]_vars => TypeOK'
  BY TypeNext
<1>4. QED
  BY <1>2, <1>3, TypeInit, PTL DEF Spec, OwnerEndsCommit
-----------------------------------------------------------------------------
(***************************************************************************)
(* What a lock keeps the other sessions from.  A locked running and a      *)
(* locked startup are protected by the guards of the requests; a locked    *)
(* candidate is, because nobody but the owner of a confirmed commit can    *)
(* hold its lock.                                                          *)
(***************************************************************************)

\* A commit writes the startup file only when there is no distinct startup
\* datastore, or to end a confirmed commit.
LEMMA CommitFile ==
    ASSUME HasStartup, NEW s \in Sessions, Commit(s)
    PROVE  nv' = nv \/ (commit_cb.active /\ ~commit_cb'.active)
<1>1. ASSUME NEW cc, NEW bk, NEW saved, NEW save,
             ApplyCommit(cc, bk, saved, save) \/ BackupAndApply(cc, saved, save)
      PROVE  nv' = saved
  BY <1>1 DEF ApplyCommit, BackupAndApply, Applied, Refused, FailedLate
<1>2. ASSUME NEW persistId, FinishConfirmedCommit(s, persistId)
      PROVE  commit_cb.active /\ ~commit_cb'.active
  <2>1. commit_cb.active /\ BackupAndApply(NoCommit, running, TRUE)
    BY <1>2 DEF FinishConfirmedCommit
  <2>2. commit_cb' = NoCommit
    BY <2>1, CommitInstalls
  <2>3. QED
    BY <2>1, <2>2 DEF NoCommit
<1>3. QED
  BY <1>1, <1>2 DEF Commit, PlainCommit, StartConfirmedCommit, ExtendConfirmedCommit

\* While a session holds the lock on running, no request of another changes it.
THEOREM LockProtectsRunning == Spec => LockedRunningIsStable
<1>1. ASSUME NEW s \in Sessions, cfg["running"].state = "FLOCK",
             cfg["running"].locked_by # s, Request(s)
      PROVE  UNCHANGED running
  <2>1. ~OkToWrite(cfg["running"], s)
    BY <1>1 DEF OkToWrite
  <2>2. ~Commit(s) /\ \A id : ~CancelCommit(s, id)
    BY <2>1, CommitOwner DEF CancelCommit, MayWrite
  <2>3. QuietRequest(s) => UNCHANGED running
    BY DEF QuietRequest, EditCandidate, CopyInlineToStartup, CopyRunningToCandidate,
           DiscardChanges, CopyStartupToCandidate, CopyToStartup, DeleteStartup
  <2>4. QED
    BY <1>1, <2>2, <2>3 DEF Request, QuietRequest, Lock, Unlock
<1>2. [Next]_vars => [\A s \in Sessions :
                        /\ cfg["running"].state = "FLOCK"
                        /\ cfg["running"].locked_by # s
                        /\ Request(s)
                        => UNCHANGED running]_vars
  BY <1>1
<1>3. QED
  BY <1>2, PTL DEF Spec, LockedRunningIsStable

\* While a session holds the lock on the startup datastore, the startup file is
\* written by another only to finish a confirmed commit.
THEOREM LockProtectsStartup == Spec => LockedStartupIsStable
<1>1. ASSUME NEW s \in Sessions, HasStartup, cfg["startup"].state = "FLOCK",
             cfg["startup"].locked_by # s, Request(s)
      PROVE  nv' = nv \/ (commit_cb.active /\ ~commit_cb'.active)
  <2>1. ~MayWrite(s, "startup")
    BY <1>1 DEF OkToWrite, MayWrite
  <2>2. QuietRequest(s) => nv' = nv
    BY <2>1 DEF QuietRequest, EditCandidate, CopyInlineToStartup,
                CopyRunningToCandidate, DiscardChanges, CopyStartupToCandidate,
                CopyToStartup, DeleteStartup
  <2>3. QED
    BY <1>1, <2>2, CommitFile DEF Request, QuietRequest, Lock, Unlock, CancelCommit
<1>2. [Next]_vars => [\A s \in Sessions :
                        /\ HasStartup
                        /\ cfg["startup"].state = "FLOCK"
                        /\ cfg["startup"].locked_by # s
                        /\ Request(s)
                        => nv' = nv \/ (commit_cb.active /\ ~commit_cb'.active)]_vars
  BY <1>1
<1>3. QED
  BY <1>2, PTL DEF Spec, LockedStartupIsStable

\* While a session holds the lock on the candidate, another changes it only by
\* cancelling a persistent confirmed commit.
THEOREM LockProtectsCandidate == Spec => LockedCandidateIsStable
<1>1. ASSUME Ownership, NEW s \in Sessions, cfg["candidate"].state = "FLOCK",
             cfg["candidate"].locked_by # s, Request(s)
      PROVE  UNCHANGED candidate \/ \E id \in PersistIds : CancelCommit(s, id)
  <2>1. ~MayWrite(s, "candidate")
    BY <1>1 DEF OkToWrite, MayWrite
  <2>2. ~Commit(s)
    BY <2>1, CommitOwner DEF MayWrite
  <2>3. ~CancelCommit(s, NoPersist)
    <3> SUFFICES ASSUME CancelCommit(s, NoPersist) PROVE FALSE
      OBVIOUS
    <3>1. commit_cb.active /\ commit_cb.ses_id = s
      BY DEF CancelCommit
    <3>2. QED
      BY <1>1, <3>1 DEF Ownership, OnlyOwnerLocks
  <2>4. QuietRequest(s) => UNCHANGED candidate
    BY <2>1 DEF QuietRequest, EditCandidate, CopyInlineToStartup,
                CopyRunningToCandidate, DiscardChanges, CopyStartupToCandidate,
                CopyToStartup, DeleteStartup
  <2>5. ASSUME NEW d \in Datastores, Lock(s, d) \/ Unlock(s, d)
        PROVE  UNCHANGED candidate
    BY <1>1, <2>5 DEF Lock, Unlock, OkToUnlock, KeepCandidate
  <2>6. QED
    BY <1>1, <2>2, <2>3, <2>4, <2>5 DEF Request, QuietRequest
<1>2. Ownership /\ [Next]_vars => [\A s \in Sessions :
                        /\ cfg["candidate"].state = "FLOCK"
                        /\ cfg["candidate"].locked_by # s
                        /\ Request(s)
                        => UNCHANGED candidate \/ \E id \in PersistIds : CancelCommit(s, id)]_vars
  BY <1>1
<1>3. QED
  BY <1>2, OwnershipInit, OwnershipNext, PTL DEF Spec, LockedCandidateIsStable
-----------------------------------------------------------------------------
(***************************************************************************)
(* The candidate and the edits that wait in it, without a distinct startup *)
(* datastore: copying that one to the candidate carries its marks along.   *)
(* A step leaves the candidate alone, copies running to it, edits it, or   *)
(* is a commit that fails late and clears the marks.                       *)
(***************************************************************************)

NoFaults == ~SilFaults /\ ~IoFaults

CandidateStep ==
    \/ UNCHANGED <<candidate, dirty>> /\ (NoFaults => UNCHANGED running)
    \/ candidate' = Clean(running') /\ dirty' = FALSE
    \/ /\ \E c \in Config : candidate' = Edited(c)
       /\ dirty' = TRUE
       /\ UNCHANGED running
    \/ /\ ~NoFaults
       /\ candidate' = [candidate EXCEPT !.edited = {}]
       /\ dirty' = dirty

\* However it is given up, a confirmed commit leaves running and the candidate
\* alone or restores running and refreshes the candidate.
LEMMA CancelCandidate ==
    ASSUME NEW refill, CancelConfirmedCommit(refill)
    PROVE  CandidateStep
<1>1. PICK restored \in RestoreOutcomes(backup, NoSession) :
        /\ running' = IF restored THEN backup ELSE running
        /\ IF restored \/ refill THEN FillCandidate(running') ELSE KeepCandidate
  BY DEF CancelConfirmedCommit
<1>2. CASE restored \/ refill
  BY <1>1, <1>2 DEF FillCandidate, CandidateStep
<1>3. CASE ~(restored \/ refill)
  BY <1>1, <1>3 DEF KeepCandidate, CandidateStep
<1>4. QED
  BY <1>2, <1>3

LEMMA CommitCandidate ==
    ASSUME NEW s, Commit(s)
    PROVE  CandidateStep
<1>1. ASSUME NEW cc, NEW bk, NEW saved, NEW save, ApplyCommit(cc, bk, saved, save)
      PROVE  CandidateStep
  <2>1. CASE Applied(saved, save)
    BY <2>1 DEF Applied, FillCandidate, CandidateStep
  <2>2. CASE Refused(bk, cc.ses_id, saved)
    BY <2>2 DEF Refused, KeepCandidate, CandidateStep, NoFaults
  <2>3. CASE FailedLate(bk, cc.ses_id, saved, save)
    BY <2>3 DEF FailedLate, CandidateStep, NoFaults
  <2>4. QED
    BY <1>1, <2>1, <2>2, <2>3 DEF ApplyCommit
<1>2. ASSUME NEW cc, NEW saved, NEW save, BackupAndApply(cc, saved, save)
      PROVE  CandidateStep
  <2>1. CASE UNCHANGED running /\ KeepCandidate
    BY <2>1 DEF KeepCandidate, CandidateStep
  <2>2. QED
    BY <1>1, <1>2, <2>1 DEF BackupAndApply
<1>3. QED
  BY <1>1, <1>2 DEF Commit, PlainCommit, StartConfirmedCommit, ExtendConfirmedCommit,
                    FinishConfirmedCommit

LEMMA NextCandidate ==
    ASSUME ~HasStartup, [Next]_vars
    PROVE  CandidateStep
<1>1. ASSUME UNCHANGED <<running, candidate, dirty>>
      PROVE  CandidateStep
  BY <1>1 DEF CandidateStep
<1>2. ASSUME FillCandidate(running), UNCHANGED running
      PROVE  CandidateStep
  BY <1>2 DEF FillCandidate, CandidateStep
<1>3. ASSUME NEW s \in Sessions, EndSession(s) \/ DropSession(s)
      PROVE  CandidateStep
  BY <1>1, <1>2, <1>3, CancelCandidate DEF EndSession, DropSession, KeepCandidate
<1>4. ASSUME NEW s \in Sessions, Request(s)
      PROVE  CandidateStep
  <2>1. ASSUME NEW d \in Datastores, Lock(s, d) \/ Unlock(s, d)
        PROVE  CandidateStep
    BY <1>1, <1>2, <2>1 DEF Lock, Unlock, KeepCandidate
  <2>2. ASSUME NEW c \in Config, EditCandidate(s, c)
        PROVE  CandidateStep
    BY <2>2 DEF EditCandidate, CandidateStep
  <2>3. CopyRunningToCandidate(s) => CandidateStep
    BY <1>2 DEF CopyRunningToCandidate
  <2>4. QuietRequest(s) => CandidateStep
    BY <2>2, <2>3 DEF QuietRequest, CopyInlineToStartup, DiscardChanges,
                      CopyStartupToCandidate, CopyToStartup, DeleteStartup
  <2>5. QED
    BY <1>4, <2>1, <2>4, CommitCandidate, CancelCandidate
       DEF Request, QuietRequest, CancelCommit
<1>5. CASE Restart
  BY <1>5 DEF Restart, FillCandidate, CandidateStep
<1>6. QED
  BY <1>1, <1>3, <1>4, <1>5, CancelCandidate DEF Next, vars, NewSession, Tick, Timeout

CleanCandidate == TypeOK /\ CleanIsRunning /\ EditsWillCommit

\* Both facts hold of a candidate that was just copied from running.
LEMMA CopiedCandidate ==
    ASSUME running \in Config, candidate = Clean(running)
    PROVE  CleanIsRunning /\ EditsWillCommit
<1>1. candidate.edited = {} /\ candidate.data = running
  BY DEF Clean
<1>2. Merged = running
  BY <1>1 DEF Merged, Config
<1>3. QED
  BY <1>1, <1>2 DEF CleanIsRunning, EditsWillCommit

\* An edit marks every leaf it makes different from running.
LEMMA EditedWillCommit ==
    ASSUME TypeOK, EditsWillCommit, NEW c \in Config,
           candidate' = Edited(c), UNCHANGED running
    PROVE  EditsWillCommit'
<1>1. /\ candidate'.data = c
      /\ candidate'.edited = candidate.edited \cup
                             {l \in Leaves : c[l] # candidate.data[l]}
  BY DEF Edited
<1>2. ASSUME NEW l \in Leaves
      PROVE  Merged'[l] = c[l]
  <2>1. Merged'[l] = IF l \in candidate'.edited THEN candidate'.data[l] ELSE running'[l]
    BY DEF Merged
  <2>2. Merged[l] = IF l \in candidate.edited THEN candidate.data[l] ELSE running[l]
    BY DEF Merged
  <2>3. Merged[l] = candidate.data[l]
    BY DEF EditsWillCommit
  <2>4. QED
    BY <1>1, <2>1, <2>2, <2>3
<1>3. Merged' = [l \in Leaves |-> Merged'[l]]
  BY DEF Merged
<1>4. c = [l \in Leaves |-> c[l]]
  BY DEF Config
<1>5. QED
  BY <1>1, <1>2, <1>3, <1>4 DEF EditsWillCommit

LEMMA CleanCandidateInit == Init => CleanCandidate
<1> SUFFICES ASSUME Init PROVE CleanCandidate
  OBVIOUS
<1>1. TypeOK
  BY TypeInit
<1>2. QED
  BY <1>1, CopiedCandidate DEF Init, TypeOK, CleanCandidate

LEMMA CleanCandidateNext ==
    ~HasStartup /\ NoFaults /\ CleanCandidate /\ [Next]_vars => CleanCandidate'
<1> SUFFICES ASSUME ~HasStartup, NoFaults, CleanCandidate, [Next]_vars
             PROVE  CleanCandidate'
  OBVIOUS
<1>1. TypeOK /\ TypeOK'
  BY TypeNext DEF CleanCandidate
<1>2. CASE UNCHANGED <<running, candidate, dirty>>
  BY <1>1, <1>2 DEF CleanCandidate, CleanIsRunning, EditsWillCommit, Merged
<1>3. CASE candidate' = Clean(running')
  <2>1. running' \in Config
    BY <1>1 DEF TypeOK
  <2>2. Merged' = running' /\ candidate'.data = running'
    BY <1>3, <2>1 DEF Merged, Clean, Config
  <2>3. QED
    BY <1>1, <1>3, <2>2 DEF CleanCandidate, CleanIsRunning, EditsWillCommit, Clean
<1>4. ASSUME NEW c \in Config, candidate' = Edited(c), dirty' = TRUE, UNCHANGED running
      PROVE  CleanCandidate'
  BY <1>1, <1>4, EditedWillCommit DEF CleanCandidate, CleanIsRunning
<1>5. QED
  BY <1>2, <1>3, <1>4, NextCandidate DEF CandidateStep

\* A candidate that counts as clean equals running.
THEOREM CleanMeansRunning ==
    ~HasStartup /\ NoFaults => (Spec => []CleanIsRunning)
<1> SUFFICES ASSUME ~HasStartup, NoFaults
             PROVE  Spec => []CleanIsRunning
  OBVIOUS
<1>1. CleanCandidate => CleanIsRunning
  BY DEF CleanCandidate
<1>2. CleanCandidate /\ [Next]_vars => CleanCandidate'
  BY CleanCandidateNext
<1>3. QED
  BY <1>1, <1>2, CleanCandidateInit, PTL DEF Spec

\* No edit of the candidate is lost from the commit.
THEOREM EditsAreCommitted ==
    ~HasStartup /\ NoFaults => (Spec => []EditsWillCommit)
<1> SUFFICES ASSUME ~HasStartup, NoFaults
             PROVE  Spec => []EditsWillCommit
  OBVIOUS
<1>1. CleanCandidate => EditsWillCommit
  BY DEF CleanCandidate
<1>2. CleanCandidate /\ [Next]_vars => CleanCandidate'
  BY CleanCandidateNext
<1>3. QED
  BY <1>1, <1>2, CleanCandidateInit, PTL DEF Spec

\* A commit that skips its checks has nothing to apply, whatever fails.
THEOREM NothingUnchecked == ~HasStartup => (Spec => []EditsAreChecked)
<1> SUFFICES ASSUME ~HasStartup
             PROVE  Spec => []EditsAreChecked
  OBVIOUS
<1>1. Init => TypeOK /\ EditsAreChecked
  BY TypeInit DEF Init, EditsAreChecked, Clean
<1>2. ASSUME TypeOK, EditsAreChecked, [Next]_vars
      PROVE  TypeOK' /\ EditsAreChecked'
  <2>1. TypeOK'
    BY <1>2, TypeNext
  <2>2. CASE candidate' = [candidate EXCEPT !.edited = {}]
    <3>1. candidate'.edited = {}
      BY <1>2, <2>2 DEF TypeOK, Tree
    <3>2. QED
      BY <2>1, <3>1 DEF EditsAreChecked
  <2>3. CASE candidate' = Clean(running')
    BY <2>1, <2>3 DEF EditsAreChecked, Clean
  <2>4. CASE dirty' = TRUE
    BY <2>1, <2>4 DEF EditsAreChecked
  <2>5. CASE UNCHANGED <<candidate, dirty>>
    BY <1>2, <2>1, <2>5 DEF EditsAreChecked
  <2>6. QED
    BY <1>2, <2>2, <2>3, <2>4, <2>5, NextCandidate DEF CandidateStep
<1>3. QED
  BY <1>1, <1>2, PTL DEF Spec
=============================================================================
