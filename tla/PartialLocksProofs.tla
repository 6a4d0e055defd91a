------------------------- MODULE PartialLocksProofs -------------------------
(***************************************************************************)
(* Proofs about PartialLocks, for any sessions, tree of nodes, values, and *)
(* any number of lock ids and of marks a node has room for.                *)
(***************************************************************************)
EXTENDS PartialLocks, TLAPS

USE NoSessionAssumption, TreeAssumption, BoundsAssumption

\* Lock ids are handed out in order.
IdsAreInOrder == Held \subseteq 1 .. last_id

\* Only a global lock has an owner in the entry.
EntryIsClean == entry.state # "FLOCK" => entry.locked_by = NoSession

\* The inductive invariant.
LockInv ==
    /\ TypeOK
    /\ MarksAreHeld
    /\ OneOwnerPerNode
    /\ GlobalExcludesPartial
    /\ IdsAreInOrder
    /\ EntryIsClean

\* The steps that leave the locks alone.
WriteStep ==
    \E s \in Sessions :
        \/ NewSession(s)
        \/ \E l \in Leaves, v \in Values : EditCandidate(s, l, v)
        \/ DiscardChanges(s)
        \/ \E confirmed \in BOOLEAN : Commit(s, confirmed)
-----------------------------------------------------------------------------
(***************************************************************************)
(* Helpers.                                                                *)
(***************************************************************************)

LEMMA EntryTypes ==
    /\ Unlocked \in CfgEntries
    /\ \A s \in Sessions : LockedBy(s) \in CfgEntries
    /\ \A e \in CfgEntries, st \in {"READY", "PLOCK"} : [e EXCEPT !.state = st] \in CfgEntries
    /\ \A e \in CfgEntries, s \in Sessions : ReleaseLock(e, s) \in CfgEntries
BY DEF CfgEntries, Unlocked, LockedBy, ReleaseLock

\* The locks a step releases go, the others stay as they are; marks of running
\* only go with them.
LEMMA ReleaseEffect ==
    ASSUME TypeOK, NEW ids \in SUBSET Ids,
           NEW marks \in [Nodes -> SUBSET Ids],
           NEW candMarks \in [Nodes -> SUBSET (Ids \cup {Dangling})],
           Release(ids, marks, candMarks)
    PROVE  /\ plockQ' \in [Ids -> [sid : Sessions \cup {NoSession}, nodes : SUBSET Nodes]]
           /\ plock' \in [Nodes -> SUBSET Ids]
           /\ cand_plock' \in [Nodes -> SUBSET (Ids \cup {Dangling})]
           /\ \A id \in Ids : plockQ'[id] = IF id \in ids THEN NoLock ELSE plockQ[id]
           /\ \A n \in Nodes : plock'[n] = marks[n] \ ids
           /\ Held' = Held \ ids
<1>1. NoLock \in [sid : Sessions \cup {NoSession}, nodes : SUBSET Nodes]
  BY DEF NoLock
<1>2. plockQ' \in [Ids -> [sid : Sessions \cup {NoSession}, nodes : SUBSET Nodes]]
  BY <1>1 DEF Release, TypeOK
<1>3. plock' \in [Nodes -> SUBSET Ids] /\ cand_plock' \in [Nodes -> SUBSET (Ids \cup {Dangling})]
  BY DEF Release
<1>4. \A id \in Ids : plockQ'[id] = IF id \in ids THEN NoLock ELSE plockQ[id]
  BY DEF Release
<1>5. \A n \in Nodes : plock'[n] = marks[n] \ ids
  BY DEF Release
<1>6. Held' = Held \ ids
  BY <1>4 DEF Held
<1>7. QED
  BY <1>2, <1>3, <1>4, <1>5, <1>6

\* The reversal of running takes marks away and gives none.
LEMMA LoadedMarks ==
    ASSUME TypeOK
    PROVE  /\ MarksAfterLoad \in [Nodes -> SUBSET Ids]
           /\ \A n \in Nodes : MarksAfterLoad[n] \subseteq plock[n]
BY DEF MarksAfterLoad, TypeOK

\* What a lock that is over leaves behind: the other locks as they were, and
\* none of the marks of the ones that are released.
Released(ids) ==
    /\ ids \in SUBSET Ids
    /\ plockQ' \in [Ids -> [sid : Sessions \cup {NoSession}, nodes : SUBSET Nodes]]
    /\ plock' \in [Nodes -> SUBSET Ids]
    /\ cand_plock' \in [Nodes -> SUBSET (Ids \cup {Dangling})]
    /\ \A id \in Ids : plockQ'[id] = IF id \in ids THEN NoLock ELSE plockQ[id]
    /\ \A n \in Nodes : plock'[n] \subseteq plock[n] \ ids
    /\ Held' = Held \ ids

LEMMA ReleaseReleases ==
    ASSUME TypeOK, NEW ids \in SUBSET Ids, Release(ids, plock, cand_plock)
    PROVE  Released(ids)
<1>1. plock \in [Nodes -> SUBSET Ids] /\ cand_plock \in [Nodes -> SUBSET (Ids \cup {Dangling})]
  BY DEF TypeOK
<1>2. /\ plockQ' \in [Ids -> [sid : Sessions \cup {NoSession}, nodes : SUBSET Nodes]]
      /\ plock' \in [Nodes -> SUBSET Ids]
      /\ cand_plock' \in [Nodes -> SUBSET (Ids \cup {Dangling})]
      /\ \A id \in Ids : plockQ'[id] = IF id \in ids THEN NoLock ELSE plockQ[id]
      /\ \A n \in Nodes : plock'[n] = plock[n] \ ids
      /\ Held' = Held \ ids
  BY <1>1, ReleaseEffect
<1>3. QED
  BY <1>2 DEF Released

LEMMA CancelReleases ==
    ASSUME TypeOK, CommitActive, NEW ids \in SUBSET Ids, CancelConfirmedCommit(ids)
    PROVE  /\ Released(ids)
           /\ running' \in Config /\ candidate' \in Config /\ edited' \subseteq Leaves
           /\ commit_cb' = NoCommit
<1>1. CASE LoadAllowed
  <2>1. Release(ids, MarksAfterLoad, MarksAfterLoad)
    BY <1>1 DEF CancelConfirmedCommit
  <2>2. MarksAfterLoad \in [Nodes -> SUBSET (Ids \cup {Dangling})]
    BY LoadedMarks
  <2>3. Released(ids)
    <3> DEFINE marks == MarksAfterLoad
    <3>1. /\ plockQ' \in [Ids -> [sid : Sessions \cup {NoSession}, nodes : SUBSET Nodes]]
          /\ plock' \in [Nodes -> SUBSET Ids]
          /\ cand_plock' \in [Nodes -> SUBSET (Ids \cup {Dangling})]
          /\ \A id \in Ids : plockQ'[id] = IF id \in ids THEN NoLock ELSE plockQ[id]
          /\ \A n \in Nodes : plock'[n] = marks[n] \ ids
          /\ Held' = Held \ ids
      BY <2>1, <2>2, LoadedMarks, ReleaseEffect
    <3>2. \A n \in Nodes : marks[n] \subseteq plock[n]
      BY LoadedMarks
    <3> HIDE DEF marks
    <3>3. QED
      BY <3>1, <3>2 DEF Released
  <2>4. running' \in Config /\ candidate' \in Config /\ edited' \subseteq Leaves
    BY <1>1 DEF CancelConfirmedCommit, TypeOK
  <2>5. QED
    BY <2>3, <2>4 DEF CancelConfirmedCommit
<1>2. CASE ~LoadAllowed
  <2>1. Release(ids, plock, cand_plock) /\ UNCHANGED <<running, candidate, edited>>
    BY <1>2 DEF CancelConfirmedCommit
  <2>2. QED
    BY <2>1, ReleaseReleases DEF CancelConfirmedCommit, TypeOK
<1>3. QED
  BY <1>1, <1>2

\* A lock id that is handed out is not in use.
LEMMA NextIdIsFree ==
    ASSUME LockInv, NEW id \in NextId
    PROVE  /\ id \in Ids /\ id \notin Held
           /\ Held \cup {id} \subseteq 1 .. id
           /\ \A n \in Nodes : id \notin plock[n]
<1>1. last_id \in 0 .. MaxId /\ Held \subseteq 1 .. last_id
  BY DEF LockInv, TypeOK, IdsAreInOrder
<1>2. id \in Ids /\ id \notin Held /\ Held \cup {id} \subseteq 1 .. id
  <2>1. CASE last_id < MaxId
    BY <1>1, <2>1 DEF NextId, Ids
  <2>2. CASE ~(last_id < MaxId)
    <3>1. id = 1 /\ Held = {}
      BY <2>2 DEF NextId, LockInv, GlobalExcludesPartial
    <3>2. QED
      BY <3>1 DEF Ids
  <2>3. QED
    BY <2>1, <2>2
<1>3. ASSUME NEW n \in Nodes, id \in plock[n]
      PROVE  FALSE
  <2>1. plockQ[id] # NoLock
    BY <1>3 DEF LockInv, MarksAreHeld, NoLock
  <2>2. QED
    BY <1>2, <2>1 DEF Held
<1>4. QED
  BY <1>2, <1>3
-----------------------------------------------------------------------------
(***************************************************************************)
(* The invariant.                                                          *)
(***************************************************************************)

LEMMA LockInit == Init => LockInv
<1> SUFFICES ASSUME Init PROVE LockInv
  OBVIOUS
<1>1. TypeOK
  <2>1. NoLock \in [sid : Sessions \cup {NoSession}, nodes : SUBSET Nodes]
    BY DEF NoLock
  <2>2. QED
    BY <2>1, EntryTypes DEF Init, TypeOK, NoCommit, CommitActive, Config
<1>2. Held = {}
  BY DEF Init, Held
<1>3. QED
  BY <1>1, <1>2 DEF Init, LockInv, MarksAreHeld, OneOwnerPerNode, GlobalExcludesPartial,
                    IdsAreInOrder, EntryIsClean, Unlocked

\* A step that releases locks of a session, or none.
LEMMA ReleaseKeeps ==
    ASSUME LockInv, NEW ids, Released(ids),
           live' \subseteq live,
           \A id \in Ids \ ids : plockQ[id].sid \in live => plockQ[id].sid \in live',
           last_id' = last_id
    PROVE  MarksAreHeld' /\ OneOwnerPerNode' /\ IdsAreInOrder'
<1>1. ASSUME NEW n \in Nodes, NEW id \in plock'[n]
      PROVE  /\ id \in plock[n] /\ id \in Ids \ ids
             /\ plockQ'[id] = plockQ[id]
  BY DEF Released, LockInv, TypeOK
<1>2. MarksAreHeld'
  BY <1>1 DEF MarksAreHeld, LockInv
<1>3. OneOwnerPerNode'
  BY <1>1 DEF OneOwnerPerNode, LockInv
<1>4. IdsAreInOrder'
  BY DEF IdsAreInOrder, LockInv, Released
<1>5. QED
  BY <1>2, <1>3, <1>4

\* The end of a session returns what its entry holds.
LEMMA EntryAfterSession ==
    ASSUME LockInv, NEW ids, NEW s \in Sessions, Released(ids),
           entry' = ReleaseLock(entry, s)
    PROVE  entry' \in CfgEntries /\ GlobalExcludesPartial' /\ EntryIsClean'
<1>1. entry' \in CfgEntries
  BY EntryTypes DEF LockInv, TypeOK
<1>2. EntryIsClean'
  BY DEF EntryIsClean, LockInv, ReleaseLock, Unlocked
<1>3. ASSUME Held' # {} PROVE entry'.state = "PLOCK"
  <2>1. Held # {}
    BY <1>3 DEF Released
  <2>2. entry.state = "PLOCK" /\ entry.locked_by = NoSession
    BY <2>1 DEF LockInv, GlobalExcludesPartial, EntryIsClean
  <2>3. QED
    BY <2>2 DEF ReleaseLock
<1>4. QED
  BY <1>1, <1>2, <1>3 DEF GlobalExcludesPartial

LEMMA EndSessionKeeps ==
    ASSUME LockInv, NEW s \in Sessions, EndSession(s) \/ DropSession(s)
    PROVE  LockInv'
<1> DEFINE ids == LocksOf(s)
<1>1. TypeOK /\ ids \in SUBSET Ids
  BY DEF LockInv, LocksOf
<1>2. /\ Released(ids)
      /\ running' \in Config /\ candidate' \in Config /\ edited' \subseteq Leaves
      /\ commit_cb' \in {NoCommit, commit_cb}
  <2>1. CASE CommitActive /\ CancelConfirmedCommit(ids)
    <3> HIDE DEF ids
    <3>1. QED
      BY <1>1, <2>1, CancelReleases
  <2>2. CASE /\ Release(ids, plock, cand_plock)
             /\ UNCHANGED <<running, candidate, edited, commit_cb>>
    <3> HIDE DEF ids
    <3>1. QED
      BY <1>1, <2>2, ReleaseReleases DEF TypeOK
  <2>3. QED
    BY <2>1, <2>2 DEF EndSession, DropSession
<1>3. live' = live \ {s} /\ entry' = ReleaseLock(entry, s) /\ last_id' = last_id
  BY DEF EndSession, DropSession
<1>4. \A id \in Ids \ ids : plockQ[id].sid \in live => plockQ[id].sid \in live'
  BY <1>3 DEF LocksOf
<1> HIDE DEF ids
<1>5. MarksAreHeld' /\ OneOwnerPerNode' /\ IdsAreInOrder'
  BY <1>2, <1>3, <1>4, ReleaseKeeps
<1>6. entry' \in CfgEntries /\ GlobalExcludesPartial' /\ EntryIsClean'
  BY <1>2, <1>3, EntryAfterSession
<1>7. commit_cb'.ses_id \in Sessions \cup {NoSession} /\ (CommitActive' => commit_cb'.backup \in Config)
  BY <1>1, <1>2 DEF TypeOK, NoCommit, CommitActive
<1>8. TypeOK'
  BY <1>1, <1>2, <1>3, <1>6, <1>7 DEF TypeOK, Released
<1>9. QED
  BY <1>5, <1>6, <1>8 DEF LockInv

LEMMA GiveUpKeeps ==
    ASSUME LockInv, GiveUp
    PROVE  LockInv'
<1>1. TypeOK /\ CommitActive /\ CancelConfirmedCommit({}) /\ UNCHANGED <<live, entry, last_id>>
  BY DEF LockInv, GiveUp
<1>2. /\ Released({})
      /\ running' \in Config /\ candidate' \in Config /\ edited' \subseteq Leaves
      /\ commit_cb' = NoCommit
  BY <1>1, CancelReleases
<1>3. MarksAreHeld' /\ OneOwnerPerNode' /\ IdsAreInOrder'
  BY <1>1, <1>2, ReleaseKeeps
<1>4. GlobalExcludesPartial' /\ EntryIsClean'
  BY <1>1, <1>2 DEF LockInv, GlobalExcludesPartial, EntryIsClean, Released
<1>5. TypeOK'
  BY <1>1, <1>2 DEF TypeOK, Released, NoCommit, CommitActive
<1>6. QED
  BY <1>3, <1>4, <1>5 DEF LockInv

LEMMA PartialUnlockKeeps ==
    ASSUME LockInv, NEW s \in Sessions, NEW id \in Ids, PartialUnlock(s, id)
    PROVE  LockInv'
<1>1. TypeOK /\ plockQ[id].sid = s /\ Release({id}, plock, cand_plock)
      /\ UNCHANGED <<live, last_id, running, candidate, edited, commit_cb>>
  BY DEF LockInv, PartialUnlock
<1>2. Released({id})
  BY <1>1, ReleaseReleases
<1>3. MarksAreHeld' /\ OneOwnerPerNode' /\ IdsAreInOrder'
  BY <1>1, <1>2, ReleaseKeeps
<1>4. id \in Held /\ entry.state = "PLOCK" /\ entry.locked_by = NoSession
  BY <1>1 DEF Held, NoLock, LockInv, GlobalExcludesPartial, EntryIsClean
<1>5. entry' \in CfgEntries
  BY <1>1, EntryTypes DEF PartialUnlock, TypeOK
<1>6. entry' = [entry EXCEPT !.state = IF Held = {id} THEN "READY" ELSE "PLOCK"]
      /\ entry \in [state : {"READY", "PLOCK", "FLOCK"}, locked_by : Sessions \cup {NoSession}]
  BY <1>1 DEF PartialUnlock, TypeOK, CfgEntries
<1>7. GlobalExcludesPartial' /\ EntryIsClean'
  BY <1>2, <1>4, <1>6 DEF GlobalExcludesPartial, EntryIsClean, Released
<1>8. TypeOK'
  BY <1>1, <1>2, <1>5 DEF TypeOK, Released, CommitActive
<1>9. QED
  BY <1>3, <1>7, <1>8 DEF LockInv

\* A new lock is taken: it has an id of its own, and shares its nodes only with
\* locks of the same session.
LEMMA PartialLockKeeps ==
    ASSUME LockInv, NEW s \in Sessions, NEW select \in SUBSET Nodes, PartialLock(s, select)
    PROVE  LockInv'
<1> DEFINE nodes == Pruned(select)
<1>1. PICK id \in NextId :
        /\ last_id' = id
        /\ plockQ' = [plockQ EXCEPT ![id] = [sid |-> s, nodes |-> nodes]]
        /\ plock' = [n \in Nodes |-> plock[n] \cup {i \in {id} : n \in nodes}]
  BY DEF PartialLock
<1>2. /\ id \in Ids /\ id \notin Held
      /\ Held \cup {id} \subseteq 1 .. id
      /\ \A n \in Nodes : id \notin plock[n]
  BY NextIdIsFree
<1>3. nodes \subseteq Nodes
  BY DEF Pruned
<1>4. \A n \in nodes : \A i \in plock[n] : plockQ[i].sid = s
  BY <1>3 DEF PartialLock, RoomFor
<1>5. s \in live /\ UNCHANGED <<live, running, candidate, edited, cand_plock, commit_cb>>
  BY DEF PartialLock
<1> HIDE DEF nodes
<1>6. /\ plockQ' \in [Ids -> [sid : Sessions \cup {NoSession}, nodes : SUBSET Nodes]]
      /\ plockQ'[id] = [sid |-> s, nodes |-> nodes]
      /\ \A i \in Ids \ {id} : plockQ'[i] = plockQ[i]
  BY <1>1, <1>2, <1>3 DEF LockInv, TypeOK
<1>7. plock' \in [Nodes -> SUBSET Ids]
  BY <1>1, <1>2 DEF LockInv, TypeOK
<1>8. entry' \in CfgEntries /\ entry'.state = "PLOCK" /\ entry'.locked_by = entry.locked_by
  BY EntryTypes DEF PartialLock, LockInv, TypeOK, CfgEntries
<1>9. entry.state # "FLOCK"
  BY DEF PartialLock, OkToPartialLock
<1>10. TypeOK'
  <2>1. last_id' \in 0 .. MaxId
    BY <1>1, <1>2 DEF Ids
  <2>2. QED
    BY <1>5, <1>6, <1>7, <1>8, <2>1 DEF LockInv, TypeOK, CommitActive
<1>11. MarksAreHeld'
  <2> SUFFICES ASSUME NEW n \in Nodes, NEW i \in plock'[n]
               PROVE  n \in plockQ'[i].nodes /\ plockQ'[i].sid \in live'
    BY DEF MarksAreHeld
  <2>1. CASE i = id
    <3>1. n \in nodes
      BY <1>1, <1>2, <2>1
    <3>2. QED
      BY <1>5, <1>6, <2>1, <3>1
  <2>2. CASE i # id
    <3>1. i \in plock[n] /\ i \in Ids
      BY <1>1, <2>2 DEF LockInv, TypeOK
    <3>2. QED
      BY <1>5, <1>6, <2>2, <3>1 DEF LockInv, MarksAreHeld
  <2>3. QED
    BY <2>1, <2>2
<1>12. OneOwnerPerNode'
  <2> SUFFICES ASSUME NEW n \in Nodes, NEW i \in plock'[n], NEW j \in plock'[n]
               PROVE  plockQ'[i].sid = plockQ'[j].sid
    BY DEF OneOwnerPerNode
  <2>1. i \in Ids /\ j \in Ids
    BY <1>7
  <2>2. CASE n \in nodes
    <3>1. ASSUME NEW k \in plock'[n] PROVE plockQ'[k].sid = s
      BY <1>1, <1>4, <1>6, <1>7, <2>2
    <3>2. QED
      BY <3>1
  <2>3. CASE n \notin nodes
    <3>1. i \in plock[n] /\ j \in plock[n]
      BY <1>1, <2>3
    <3>2. i # id /\ j # id
      BY <1>2, <3>1
    <3>3. QED
      BY <1>6, <2>1, <3>1, <3>2 DEF LockInv, OneOwnerPerNode
  <2>4. QED
    BY <2>2, <2>3
<1>13. Held' \subseteq Held \cup {id}
  BY <1>6 DEF Held
<1>14. IdsAreInOrder'
  BY <1>1, <1>2, <1>13 DEF IdsAreInOrder
<1>15. GlobalExcludesPartial' /\ EntryIsClean'
  BY <1>8, <1>9 DEF GlobalExcludesPartial, EntryIsClean, LockInv
<1>16. QED
  BY <1>10, <1>11, <1>12, <1>14, <1>15 DEF LockInv

LEMMA WriteKeeps ==
    ASSUME LockInv, WriteStep
    PROVE  LockInv'
<1>1. live \subseteq live' /\ live' \subseteq Sessions /\ UNCHANGED lockVars
  BY DEF WriteStep, NewSession, EditCandidate, DiscardChanges, Commit, LockInv, TypeOK
<1>2. TypeOK'
  <2>1. ASSUME NEW s \in Sessions, NewSession(s) PROVE TypeOK'
    BY <2>1 DEF NewSession, LockInv, TypeOK, lockVars, CommitActive
  <2>2. ASSUME NEW s \in Sessions, NEW l \in Leaves, NEW v \in Values, EditCandidate(s, l, v)
        PROVE  TypeOK'
    BY <2>2 DEF EditCandidate, LockInv, TypeOK, lockVars, CommitActive, Config
  <2>3. ASSUME NEW s \in Sessions, DiscardChanges(s) PROVE TypeOK'
    BY <2>3 DEF DiscardChanges, LockInv, TypeOK, lockVars, CommitActive
  <2>4. ASSUME NEW s \in Sessions, NEW confirmed \in BOOLEAN, Commit(s, confirmed)
        PROVE  TypeOK'
    <3>1. running' \in Config /\ candidate' \in Config
      BY <2>4 DEF Commit, LockInv, TypeOK, Config
    <3>2. commit_cb'.ses_id \in Sessions \cup {NoSession}
          /\ (CommitActive' => commit_cb'.backup \in Config)
      BY <2>4 DEF Commit, LockInv, TypeOK, CommitActive, NoCommit
    <3>3. QED
      BY <2>4, <3>1, <3>2 DEF Commit, LockInv, TypeOK, lockVars
  <2>5. QED
    BY <2>1, <2>2, <2>3, <2>4 DEF WriteStep
<1>3. QED
  BY <1>1, <1>2 DEF LockInv, lockVars, MarksAreHeld, OneOwnerPerNode, GlobalExcludesPartial,
                    IdsAreInOrder, EntryIsClean, Held

LEMMA EntryStepKeeps ==
    ASSUME LockInv, NEW s \in Sessions,
           GlobalLock(s) \/ GlobalUnlock(s) \/ PartialLockWasted(s)
    PROVE  LockInv'
<1>1. CASE GlobalLock(s) \/ GlobalUnlock(s)
  <2>1. UNCHANGED <<live, plockQ, plock, last_id, running, candidate, edited, cand_plock,
                    commit_cb>>
    BY <1>1 DEF GlobalLock, GlobalUnlock
  <2>2. entry' = LockedBy(s) \/ entry' = Unlocked
    BY <1>1 DEF GlobalLock, GlobalUnlock
  <2>3. entry' \in CfgEntries
    BY <2>2, EntryTypes
  <2>4. EntryIsClean'
    BY <2>2 DEF LockedBy, Unlocked, EntryIsClean
  <2>5. entry.state # "PLOCK"
    BY <1>1 DEF GlobalLock, GlobalUnlock, OkToLock, OkToUnlock
  <2>6. Held = {} /\ Held' = Held
    BY <2>1, <2>5 DEF LockInv, GlobalExcludesPartial, Held
  <2>7. QED
    BY <2>1, <2>3, <2>4, <2>6 DEF LockInv, TypeOK, MarksAreHeld, OneOwnerPerNode,
                            GlobalExcludesPartial, IdsAreInOrder, CommitActive
<1>2. CASE PartialLockWasted(s)
  <2>1. PICK id \in NextId : last_id' = id
    BY <1>2 DEF PartialLockWasted
  <2>2. UNCHANGED <<live, entry, plockQ, plock, running, candidate, edited, cand_plock,
                    commit_cb>>
    BY <1>2 DEF PartialLockWasted
  <2>3. id \in Ids /\ Held \subseteq 1 .. id
    BY NextIdIsFree
  <2>4. Held' = Held
    BY <2>2 DEF Held
  <2>5. last_id' \in 0 .. MaxId /\ IdsAreInOrder'
    BY <2>1, <2>3, <2>4 DEF Ids, IdsAreInOrder
  <2>6. QED
    BY <2>2, <2>4, <2>5 DEF LockInv, TypeOK, MarksAreHeld, OneOwnerPerNode,
                            GlobalExcludesPartial, EntryIsClean, CommitActive
<1>3. QED
  BY <1>1, <1>2

LEMMA LockNext == LockInv /\ [Next]_vars => LockInv'
<1> SUFFICES ASSUME LockInv, [Next]_vars PROVE LockInv'
  OBVIOUS
<1>1. CASE UNCHANGED vars
  BY <1>1 DEF vars, LockInv, TypeOK, MarksAreHeld, OneOwnerPerNode, GlobalExcludesPartial,
              IdsAreInOrder, EntryIsClean, Held, CommitActive
<1>2. CASE GiveUp
  BY <1>2, GiveUpKeeps
<1>3. ASSUME NEW s \in Sessions, NewSession(s)
      PROVE  LockInv'
  BY <1>3, WriteKeeps DEF WriteStep
<1>4. ASSUME NEW s \in Sessions, EndSession(s) \/ DropSession(s)
      PROVE  LockInv'
  BY <1>4, EndSessionKeeps
<1>5. ASSUME NEW s \in Sessions, Request(s)
      PROVE  LockInv'
  <2>1. CASE GlobalLock(s) \/ GlobalUnlock(s) \/ PartialLockWasted(s)
    BY <2>1, EntryStepKeeps
  <2>2. ASSUME NEW select \in SUBSET Nodes, PartialLock(s, select)
        PROVE  LockInv'
    BY <2>2, PartialLockKeeps
  <2>3. ASSUME NEW id \in Ids, PartialUnlock(s, id)
        PROVE  LockInv'
    BY <2>3, PartialUnlockKeeps
  <2>4. CASE \/ \E l \in Leaves, v \in Values : EditCandidate(s, l, v)
             \/ DiscardChanges(s)
             \/ \E confirmed \in BOOLEAN : Commit(s, confirmed)
    BY <2>4, WriteKeeps DEF WriteStep
  <2>5. QED
    BY <1>5, <2>1, <2>2, <2>3, <2>4 DEF Request
<1>6. QED
  BY <1>1, <1>2, <1>3, <1>4, <1>5 DEF Next

LEMMA LockInvHolds == Spec => []LockInv
BY LockInit, LockNext, PTL DEF Spec
-----------------------------------------------------------------------------
(***************************************************************************)
(* What follows from it.                                                   *)
(***************************************************************************)

\* The variables keep their types.
THEOREM TypeCorrect == Spec => []TypeOK
<1>1. LockInv => TypeOK
  BY DEF LockInv
<1>2. QED
  BY <1>1, LockInvHolds, PTL

\* No node of running refers to a lock that was freed, or to a lock of a session
\* that has ended.
THEOREM MarksHaveLocks == Spec => []MarksAreHeld
<1>1. LockInv => MarksAreHeld
  BY DEF LockInv
<1>2. QED
  BY <1>1, LockInvHolds, PTL

\* Two sessions never hold partial locks on the same node.
THEOREM NodesHaveOneOwner == Spec => []OneOwnerPerNode
<1>1. LockInv => OneOwnerPerNode
  BY DEF LockInv
<1>2. QED
  BY <1>1, LockInvHolds, PTL

\* A partial lock keeps everyone from the global lock, and the other way round.
THEOREM LocksExclude == Spec => []GlobalExcludesPartial
<1>1. LockInv => GlobalExcludesPartial
  BY DEF LockInv
<1>2. QED
  BY <1>1, LockInvHolds, PTL

\* A lock is not replaced while it is held: a step changes one of the queue only
\* by releasing it, or by adding one under an id that is free.
LEMMA QueueStep ==
    ASSUME LockInv, [Next]_vars, NEW id \in Held
    PROVE  plockQ'[id] \in {plockQ[id], NoLock}
<1>1. id \in Ids /\ TypeOK
  BY DEF Held, LockInv
<1>2. CASE UNCHANGED plockQ
  BY <1>2
<1>3. ASSUME NEW ids, Released(ids)
      PROVE  plockQ'[id] \in {plockQ[id], NoLock}
  BY <1>1, <1>3 DEF Released
<1>4. CASE GiveUp
  BY <1>1, <1>3, <1>4, CancelReleases DEF GiveUp
<1>5. ASSUME NEW s \in Sessions, EndSession(s) \/ DropSession(s)
      PROVE  plockQ'[id] \in {plockQ[id], NoLock}
  <2>1. LocksOf(s) \in SUBSET Ids
    BY DEF LocksOf
  <2>2. \/ CommitActive /\ CancelConfirmedCommit(LocksOf(s))
        \/ Release(LocksOf(s), plock, cand_plock)
    BY <1>5 DEF EndSession, DropSession
  <2>3. Released(LocksOf(s))
    BY <1>1, <2>1, <2>2, CancelReleases, ReleaseReleases
  <2>4. QED
    BY <1>3, <2>3
<1>6. ASSUME NEW s \in Sessions, NEW i \in Ids, PartialUnlock(s, i)
      PROVE  plockQ'[id] \in {plockQ[id], NoLock}
  BY <1>1, <1>3, <1>6, ReleaseReleases DEF PartialUnlock
<1>7. ASSUME NEW s \in Sessions, NEW select \in SUBSET Nodes, PartialLock(s, select)
      PROVE  plockQ'[id] \in {plockQ[id], NoLock}
  <2>1. PICK i \in NextId :
          plockQ' = [plockQ EXCEPT ![i] = [sid |-> s, nodes |-> Pruned(select)]]
    BY <1>7 DEF PartialLock
  <2>2. i # id
    BY NextIdIsFree
  <2>3. QED
    BY <1>1, <2>1, <2>2 DEF TypeOK
<1>8. CASE /\ Next
           /\ \A s \in Sessions : ~EndSession(s) /\ ~DropSession(s)
           /\ \A s \in Sessions, i \in Ids : ~PartialUnlock(s, i)
           /\ \A s \in Sessions, select \in SUBSET Nodes : ~PartialLock(s, select)
           /\ ~GiveUp
  <2>1. UNCHANGED plockQ
    BY <1>8 DEF Next, Request, NewSession, GlobalLock, GlobalUnlock, PartialLockWasted,
                EditCandidate, DiscardChanges, Commit, lockVars
  <2>2. QED
    BY <1>2, <2>1
<1>9. QED
  BY <1>2, <1>4, <1>5, <1>6, <1>7, <1>8 DEF vars

\* Ids in use are not handed out again, however many locks came before.
THEOREM IdsStayUnique == Spec => IdsAreUnique
<1>1. LockInv /\ [Next]_vars => [\A id \in Held : plockQ'[id] \in {plockQ[id], NoLock}]_vars
  BY QueueStep
<1>2. QED
  BY <1>1, LockInvHolds, PTL DEF Spec, IdsAreUnique

\* A request takes a mark off a node only with its lock.
LEMMA RequestStep ==
    ASSUME LockInv, NEW s \in Sessions, Request(s),
           NEW n \in Nodes, NEW id \in plock[n], plockQ'[id] # NoLock
    PROVE  id \in plock'[n]
<1>1. TypeOK /\ id \in Ids
  BY DEF LockInv, TypeOK
<1>2. CASE UNCHANGED plock
  BY <1>2
<1>3. ASSUME NEW i \in Ids, PartialUnlock(s, i)
      PROVE  id \in plock'[n]
  <2>1. /\ plockQ' = [j \in Ids |-> IF j \in {i} THEN NoLock ELSE plockQ[j]]
        /\ plock' = [m \in Nodes |-> plock[m] \ {i}]
    BY <1>3 DEF PartialUnlock, Release
  <2>2. id # i
    BY <1>1, <2>1
  <2>3. QED
    BY <2>1, <2>2
<1>4. ASSUME NEW select \in SUBSET Nodes, PartialLock(s, select)
      PROVE  id \in plock'[n]
  BY <1>4 DEF PartialLock
<1>5. CASE /\ \A i \in Ids : ~PartialUnlock(s, i)
           /\ \A select \in SUBSET Nodes : ~PartialLock(s, select)
  <2>1. UNCHANGED plock
    BY <1>5 DEF Request, GlobalLock, GlobalUnlock, PartialLockWasted, EditCandidate,
                DiscardChanges, Commit, lockVars
  <2>2. QED
    BY <1>2, <2>1
<1>6. QED
  BY <1>3, <1>4, <1>5

\* The requests of one session never unmark the nodes of another one's lock.
THEOREM MarksStay == Spec => RequestsKeepMarks
<1> DEFINE Keeps == (\E s \in Sessions : Request(s)) =>
                       \A n \in Nodes : \A id \in plock[n] :
                           plockQ'[id] # NoLock => id \in plock'[n]
<1>1. LockInv => Keeps
  BY RequestStep
<1>2. LockInv /\ [Next]_vars => [Keeps]_vars
  BY <1>1
<1>3. QED
  BY <1>2, LockInvHolds, PTL DEF Spec, RequestsKeepMarks
=============================================================================
