----------------------- MODULE EditTransactionProofs -----------------------
(***************************************************************************)
(* Proofs about EditTransaction, for any edit points, values and callbacks *)
(* that refuse, and transactions of any length.                            *)
(***************************************************************************)
EXTENDS EditTransaction, SequenceTheorems, TLAPS

USE PointsAssumption, ValuesAssumption

Records == 1 .. Len(undoQ)

\* Record i was not undone, and running shows the edit of its point.
Stands(i) == phase = "rollback" => at <= i

Standing(p) == \E i \in Records : undoQ[i].point = p /\ Stands(i)

-----------------------------------------------------------------------------
(***************************************************************************)
(* The inductive invariant.                                                *)
(***************************************************************************)

\* An edit is recorded once, with what it replaced and what it put there.
RecordsAreEdits ==
    \A i \in Records :
        /\ undoQ[i].point \in DOMAIN edits \ todo
        /\ undoQ[i].new = edits[undoQ[i].point]
        /\ undoQ[i].old = saved[undoQ[i].point]
        /\ \A j \in Records : undoQ[j].point = undoQ[i].point => j = i

\* Where the request is tells what is recorded and which callbacks were called.
PhasesInOrder ==
    /\ phase \in {"idle", "down"} => edits = NoEdits /\ todo = {} /\ undoQ = <<>>
    /\ phase = "validate" => undoQ = <<>>
    /\ todo \subseteq DOMAIN edits
    /\ phase \in {"apply", "commit"} => \A p \in DOMAIN edits \ todo : Mentions(p)
    /\ phase = "apply" => \A i \in Records : undoQ[i].commit_res = "skipped"
    /\ phase = "commit" =>
         /\ todo = {}
         /\ at \in 1 .. Len(undoQ) + 1
         /\ \A i \in Records :
              undoQ[i].commit_res = IF i < at THEN "accepted" ELSE "skipped"
    /\ phase = "rollback" => at \in 1 .. Len(undoQ) + 1

\* Running is the saved configuration with the edits that stand.
RunningShows ==
    \A p \in Points : running[p] = IF Standing(p) THEN edits[p] ELSE saved[p]

\* A marker stands for a node that was lent to running, and what the candidate has
\* in place of a node of running is dirty.
CandidateLends ==
    \A p \in Points :
        /\ candidate[p] \in ContentsOf(p) \cup {Marker}
        /\ candidate[p] = Marker => IsCommit /\ Standing(p) /\ edits[p] # Absent
        /\ IsCommit /\ candidate[p] \notin {Absent, saved[p]} => p \in dirty
        /\ IsCommit /\ p \in DOMAIN edits /\ edits[p] # Absent => p \in dirty

TxInv ==
    /\ TypeOK
    /\ RecordsAreEdits
    /\ PhasesInOrder
    /\ RunningShows
    /\ CandidateLends

-----------------------------------------------------------------------------
(***************************************************************************)
(* Facts about trees, changes and records.                                 *)
(***************************************************************************)

LEMMA TreeType ==
    ASSUME NEW t \in Trees, NEW p \in Points
    PROVE  t[p] \in ContentsOf(p) /\ t[p] \in Contents /\ t[p] # Marker
BY DEF Trees, Contents, ContentsOf, Values

LEMMA TreeExcept ==
    ASSUME NEW t \in Trees, NEW p \in Points, NEW v \in ContentsOf(p)
    PROVE  [t EXCEPT ![p] = v] \in Trees
BY DEF Trees, Contents, ContentsOf, Values

LEMMA ChangesType ==
    ASSUME NEW e \in Changes
    PROVE  /\ DOMAIN e \subseteq Points
           /\ e \in [DOMAIN e -> Contents]
           /\ \A p \in DOMAIN e : e[p] \in ContentsOf(p) /\ e[p] \in Contents /\ e[p] # Marker
<1>1. PICK D \in SUBSET Points : e \in [D -> Contents] /\ \A p \in D : e[p] \in ContentsOf(p)
  BY DEF Changes
<1>2. QED
  BY <1>1 DEF Contents, Values

LEMMA NoEditsType == NoEdits \in Changes /\ DOMAIN NoEdits = {}
<1> DEFINE on(D) == {e \in [D -> Contents] : \A p \in D : e[p] \in ContentsOf(p)}
<1>1. NoEdits \in on({})
  BY DEF NoEdits
<1>2. \E D \in SUBSET Points : NoEdits \in on(D)
  BY <1>1
<1>3. NoEdits \in Changes
  <2> HIDE DEF on
  <2>1. NoEdits \in UNION {on(D) : D \in SUBSET Points}
    BY <1>2
  <2>2. QED
    BY <2>1 DEF Changes, on
<1>4. QED
  BY <1>3 DEF NoEdits

LEMMA NoRecordsType == <<>> \in Seq(UndoRecords) /\ Len(<<>>) = 0
BY EmptySeq

LEMMA RecordType ==
    ASSUME TypeOK, NEW i \in Records
    PROVE  /\ undoQ[i] \in UndoRecords
           /\ undoQ[i].point \in Points
           /\ undoQ[i].commit_res \in {"skipped", "accepted", "refused"}
<1>1. undoQ \in Seq(UndoRecords) /\ i \in 1 .. Len(undoQ)
  BY DEF TypeOK, Records
<1>2. undoQ[i] \in UndoRecords
  BY <1>1, ElementOfSeq
<1>3. QED
  BY <1>2 DEF UndoRecords

\* The data tree, the candidate and the instrumentation have their types, while a
\* request goes on or ends.
DataOK ==
    /\ target \in {"running", "candidate"}
    /\ running \in Trees
    /\ candidate \in [Points -> Contents \cup {Marker}]
    /\ dirty \subseteq Points
    /\ saved \in Trees
    /\ system \in [Points -> [active : Contents, staged : Contents \cup {Nothing}]]
    /\ unsure \subseteq Points

\* With no edit standing, running is what was saved and no node is lent.
LEMMA NothingStands ==
    ASSUME TxInv, undoQ = <<>> \/ (phase = "rollback" /\ at = Len(undoQ) + 1)
    PROVE  running = saved /\ candidate \in Trees
<1>1. ASSUME NEW p \in Points PROVE ~Standing(p)
  <2>1. Len(undoQ) \in Nat
    BY DEF TxInv, TypeOK
  <2>2. CASE undoQ = <<>>
    BY <2>2, NoRecordsType DEF Standing, Records
  <2>3. CASE phase = "rollback" /\ at = Len(undoQ) + 1
    BY <2>1, <2>3 DEF Standing, Stands, Records
  <2>4. QED
    BY <2>2, <2>3
<1>2. \A p \in Points : running[p] = saved[p] /\ candidate[p] \in ContentsOf(p)
  BY <1>1 DEF TxInv, RunningShows, CandidateLends
<1>3. running = saved
  BY <1>2 DEF TxInv, TypeOK, Trees
<1>4. \A p \in Points : candidate[p] \in Contents
  BY <1>2 DEF Contents, ContentsOf, Values
<1>5. QED
  BY <1>2, <1>3, <1>4 DEF TxInv, TypeOK, Trees

\* The invariant holds between requests and after a stop.
LEMMA AtRest ==
    ASSUME DataOK', phase' \in {"idle", "down"}, edits' = NoEdits, todo' = {},
           undoQ' = <<>>, at' \in 0 .. 1, running' = saved', candidate' \in Trees,
           \A p \in Points :
               IsCommit' /\ candidate'[p] \notin {Absent, saved'[p]} => p \in dirty'
    PROVE  TxInv'
<1>1. TypeOK'
  BY NoEditsType, NoRecordsType DEF DataOK, TypeOK
<1>2. Records' = {}
  BY NoRecordsType DEF Records
<1>3. RecordsAreEdits' /\ PhasesInOrder'
  BY <1>2, NoEditsType DEF RecordsAreEdits, PhasesInOrder
<1>4. \A p \in Points : ~Standing(p)'
  BY <1>2 DEF Standing
<1>5. RunningShows' /\ CandidateLends'
  BY <1>4, TreeType, NoEditsType DEF RunningShows, CandidateLends
<1>6. QED
  BY <1>1, <1>3, <1>5 DEF TxInv

LEMMA TxInit == Init => TxInv
<1> SUFFICES ASSUME Init PROVE TxInv
  OBVIOUS
<1>1. \A p \in Points : running[p] \in Contents /\ running[p] # Marker
  BY TreeType DEF Init
<1>2. TypeOK
  <2>1. candidate \in [Points -> Contents \cup {Marker}]
    BY <1>1 DEF Init, NoCandidate, Contents, Trees
  <2>2. system \in [Points -> [active : Contents, staged : Contents \cup {Nothing}]]
    BY <1>1 DEF Init
  <2>3. QED
    BY <2>1, <2>2, NoEditsType, NoRecordsType DEF Init, TypeOK
<1>3. Records = {}
  BY NoRecordsType DEF Init, Records
<1>4. RecordsAreEdits /\ PhasesInOrder
  BY <1>3, NoEditsType DEF Init, RecordsAreEdits, PhasesInOrder
<1>5. \A p \in Points : ~Standing(p)
  BY <1>3 DEF Standing
<1>6. \A p \in Points : candidate[p] \in {running[p], Absent} \cap ContentsOf(p)
  BY TreeType DEF Init, NoCandidate, ContentsOf
<1>7. RunningShows /\ CandidateLends
  BY <1>1, <1>5, <1>6, TreeType, NoEditsType
     DEF Init, RunningShows, CandidateLends, IsCommit, NoCandidate
<1>8. QED
  BY <1>2, <1>4, <1>7 DEF TxInv

-----------------------------------------------------------------------------
(***************************************************************************)
(* Steps that start or end a request.                                      *)
(***************************************************************************)

LEMMA StopInv ==
    ASSUME TxInv, Stop
    PROVE  TxInv'
<1>1. \A p \in Points : saved[p] \in Contents /\ saved[p] # Marker
  BY TreeType DEF TxInv, TypeOK
<1>2. candidate' \in [Points -> Contents \cup {Marker}]
  BY <1>1 DEF Stop, TxInv, TypeOK, Trees
<1>3. system' \in [Points -> [active : Contents, staged : Contents \cup {Nothing}]]
  BY <1>1 DEF Stop
<1>4. DataOK'
  BY <1>2, <1>3 DEF DataOK, Stop, TxInv, TypeOK
<1>5. candidate' \in Trees
  <2>1. CASE IsCommit
    BY <2>1 DEF Stop, TxInv, TypeOK
  <2>2. CASE ~IsCommit
    <3>1. \A p \in Points : candidate[p] \in ContentsOf(p) /\ candidate[p] \in Contents
      BY <2>2 DEF TxInv, CandidateLends, Contents, ContentsOf, Values
    <3>2. QED
      BY <2>2, <3>1 DEF Stop, TxInv, TypeOK, Trees
  <2>3. QED
    BY <2>1, <2>2
<1>6. IsCommit' => candidate' = saved'
  BY DEF Stop, IsCommit
<1>7. QED
  BY <1>4, <1>5, <1>6, AtRest DEF Stop

\* A request that ends where running is what was saved.
LEMMA EndInv ==
    ASSUME TxInv, EndTransaction, UNCHANGED <<target, running, saved, dirty, system, unsure>>,
           undoQ = <<>> \/ (phase = "rollback" /\ at = Len(undoQ) + 1),
           candidate' \in [Points -> Contents \cup {Marker}],
           \A p \in Points : candidate'[p] \in {candidate[p], Absent}
    PROVE  TxInv'
<1>1. running = saved /\ candidate \in Trees
  BY NothingStands
<1>2. DataOK'
  BY DEF DataOK, TxInv, TypeOK
<1>3. \A p \in Points : candidate'[p] \in ContentsOf(p) /\ candidate'[p] \in Contents
  BY <1>1, TreeType DEF ContentsOf, Contents
<1>4. candidate' \in Trees
  BY <1>3 DEF Trees
<1>5. \A p \in Points :
        IsCommit' /\ candidate'[p] \notin {Absent, saved'[p]} => p \in dirty'
  BY DEF TxInv, CandidateLends, IsCommit
<1>6. QED
  BY <1>1, <1>2, <1>4, <1>5, AtRest DEF EndTransaction

LEMMA IdleInv ==
    ASSUME TxInv,
           \/ \E p \in Points : \E v \in ContentsOf(p) : EditCandidate(p, v)
           \/ DiscardChanges
           \/ Restart
    PROVE  TxInv'
<1>1. undoQ = <<>> /\ edits = NoEdits /\ todo = {}
  BY DEF EditCandidate, DiscardChanges, Restart, TxInv, PhasesInOrder
<1>2. running = saved /\ candidate \in Trees
  BY <1>1, NothingStands
<1>3. running \in Trees
  BY DEF TxInv, TypeOK
<1>4. UNCHANGED <<target, running, saved, system, unsure, edits, todo, undoQ, at>>
  BY DEF EditCandidate, DiscardChanges, Restart, data, txcb
<1>5. phase' \in {"idle", "down"}
  BY DEF EditCandidate, DiscardChanges, Restart
<1>6. at' \in 0 .. 1
  BY <1>1, <1>4, NoRecordsType DEF TxInv, TypeOK
<1> DEFINE Pending ==
      /\ candidate' \in Trees
      /\ dirty' \subseteq Points
      /\ \A p \in Points :
           IsCommit' /\ candidate'[p] \notin {Absent, saved'[p]} => p \in dirty'
<1>7. Pending
  <2>1. ASSUME NEW p \in Points, NEW v \in ContentsOf(p), EditCandidate(p, v)
        PROVE  Pending
    <3>1. candidate' \in Trees
      BY <1>2, <2>1, TreeExcept DEF EditCandidate
    <3>2. QED
      BY <1>2, <1>4, <2>1, <3>1 DEF EditCandidate, IsCommit, TxInv, TypeOK, CandidateLends
  <2>2. CASE DiscardChanges
    BY <1>2, <1>3, <1>4, <2>2 DEF DiscardChanges
  <2>3. CASE Restart
    BY <1>2, <1>4, <2>3 DEF Restart, data, IsCommit, TxInv, TypeOK, CandidateLends
  <2>4. QED
    BY <2>1, <2>2, <2>3
<1>8. DataOK'
  BY <1>4, <1>7, TreeType DEF DataOK, TxInv, TypeOK, Trees
<1>9. QED
  BY <1>1, <1>2, <1>4, <1>5, <1>6, <1>7, <1>8, AtRest

\* A request starts with its edits, and with nothing recorded.
LEMMA StartInv ==
    ASSUME TxInv, phase = "idle", phase' = "validate", edits' \in Changes,
           todo' \subseteq DOMAIN edits',
           \A p \in DOMAIN edits' : IsCommit /\ edits'[p] # Absent => p \in dirty,
           UNCHANGED <<target, data, undoQ, at, system, unsure>>
    PROVE  TxInv'
<1>1. undoQ = <<>> /\ Records = {} /\ Records' = {}
  BY NoRecordsType DEF TxInv, PhasesInOrder, Records
<1>2. running = saved /\ candidate \in Trees
  BY <1>1, NothingStands
<1>3. TypeOK'
  BY ChangesType DEF data, TxInv, TypeOK
<1>4. RecordsAreEdits' /\ PhasesInOrder'
  BY <1>1 DEF RecordsAreEdits, PhasesInOrder
<1>5. \A p \in Points : ~Standing(p)'
  BY <1>1 DEF Standing
<1>6. RunningShows'
  BY <1>2, <1>5 DEF RunningShows, data
<1>7. CandidateLends'
  BY <1>2, TreeType DEF TxInv, CandidateLends, IsCommit, data
<1>8. QED
  BY <1>3, <1>4, <1>6, <1>7 DEF TxInv

LEMMA StartCommitInv ==
    ASSUME TxInv, StartCommit
    PROVE  TxInv'
<1>1. undoQ = <<>>
  BY DEF StartCommit, TxInv, PhasesInOrder
<1>2. candidate \in Trees
  BY <1>1, NothingStands
<1>3. Visible \cup Deleted \in SUBSET Points
  BY DEF Visible, Deleted, TxInv, TypeOK
<1>4. \A p \in Visible \cup Deleted : candidate[p] \in ContentsOf(p) /\ candidate[p] \in Contents
  BY <1>2, <1>3, TreeType
<1> DEFINE D == Visible \cup Deleted
           on(E) == {e \in [E -> Contents] : \A p \in E : e[p] \in ContentsOf(p)}
<1>5. edits' \in on(D)
  BY <1>4 DEF StartCommit
<1>6. edits' \in Changes
  <2> HIDE DEF D
  <2>1. edits' \in UNION {on(E) : E \in SUBSET Points}
    BY <1>3, <1>5 DEF D
  <2>2. QED
    BY <2>1 DEF Changes
<1>7. todo' \subseteq DOMAIN edits'
  BY DEF StartCommit
<1>8. \A p \in DOMAIN edits' : edits'[p] # Absent => p \in dirty
  BY DEF StartCommit, Visible, Deleted
<1>9. QED
  BY <1>6, <1>7, <1>8, StartInv DEF StartCommit

\* Steps of a request that leave the trees and the records alone.
LEMMA QuietInv ==
    ASSUME TxInv, UNCHANGED <<target, running, dirty, saved, edits, undoQ, system, unsure>>,
           candidate' \in [Points -> Contents \cup {Marker}],
           \A p \in Points : candidate'[p] \in {candidate[p], Absent},
           todo' \subseteq todo \/ (phase = "validate" /\ todo' = DOMAIN edits),
           \A p \in DOMAIN edits \ todo' : phase' \in {"apply", "commit"} => Mentions(p),
           \/ phase = "validate" /\ phase' \in {"validate", "apply"} /\ at' = at
           \/ phase = "apply" /\ phase' = "commit" /\ todo' = {} /\ at' = 1
           \/ phase \in {"apply", "commit"} /\ phase' = "rollback" /\ at' = 1
    PROVE  TxInv'
<1>1. Len(undoQ) \in Nat /\ Records' = Records
  BY DEF TxInv, TypeOK, Records
<1>2. todo' \subseteq DOMAIN edits /\ DOMAIN edits \subseteq Points
  BY ChangesType DEF TxInv, TypeOK, PhasesInOrder
<1>3. TypeOK'
  BY <1>1, <1>2 DEF TxInv, TypeOK
<1>4. phase = "validate" => Records = {}
  BY NoRecordsType DEF TxInv, PhasesInOrder, Records
<1>5. RecordsAreEdits'
  BY <1>1, <1>4 DEF TxInv, RecordsAreEdits
<1>6. \A i \in Records : Stands(i) /\ Stands(i)'
  BY <1>1, <1>4 DEF Stands, Records
<1>7. \A p : Standing(p)' <=> Standing(p)
  BY <1>1, <1>6 DEF Standing
<1>8. PhasesInOrder'
  <2>1. \A p : Mentions(p)' <=> Mentions(p)
    BY DEF Mentions
  <2>2. QED
    BY <1>1, <1>2, <1>4, <2>1 DEF TxInv, PhasesInOrder, Records
<1>9. RunningShows'
  BY <1>7 DEF TxInv, RunningShows
<1>10. CandidateLends'
  BY <1>7 DEF TxInv, CandidateLends, IsCommit, ContentsOf
<1>11. QED
  BY <1>3, <1>5, <1>8, <1>9, <1>10 DEF TxInv

\* A point whose callback refused loses at most its pending edit.
LEMMA MarkRefusedType ==
    ASSUME TxInv, NEW p, MarkRefused(p)
    PROVE  /\ candidate' \in [Points -> Contents \cup {Marker}]
           /\ \A q \in Points : candidate'[q] \in {candidate[q], Absent}
BY DEF MarkRefused, TxInv, TypeOK, Contents

LEMMA ValidateInv ==
    ASSUME TxInv,
           \/ \E e \in Changes : StartEdit(e)
           \/ \E p \in Points : ValidateAccepted(p) \/ ValidateRefused(p)
           \/ Validated
           \/ CheckFailed
    PROVE  TxInv'
<1>1. ASSUME NEW e \in Changes, StartEdit(e)
      PROVE  TxInv'
  BY <1>1, StartInv DEF StartEdit
<1>2. ASSUME NEW p \in Points, ValidateAccepted(p)
      PROVE  TxInv'
  BY <1>2, QuietInv DEF ValidateAccepted, data, TxInv, TypeOK
<1>3. ASSUME NEW p \in Points, ValidateRefused(p)
      PROVE  TxInv'
  <2>1. undoQ = <<>>
    BY <1>3 DEF ValidateRefused, TxInv, PhasesInOrder
  <2>2. MarkRefused(p)
    BY <1>3 DEF ValidateRefused
  <2>3. QED
    BY <1>3, <2>1, <2>2, MarkRefusedType, EndInv DEF ValidateRefused
<1>4. CASE Validated
  BY <1>4, QuietInv DEF Validated, data, TxInv, TypeOK
<1>5. CASE CheckFailed
  <2>1. undoQ = <<>>
    BY <1>5 DEF CheckFailed, TxInv, PhasesInOrder
  <2>2. QED
    BY <1>5, <2>1, EndInv DEF CheckFailed, data, TxInv, TypeOK
<1>6. QED
  BY <1>1, <1>2, <1>3, <1>4, <1>5

-----------------------------------------------------------------------------
(***************************************************************************)
(* Steps that apply, commit and undo edits.                                *)
(***************************************************************************)

LEMMA AppliedInv ==
    ASSUME TxInv,
           \/ \E p \in Points : ApplyRefused(p)
           \/ Applied
           \/ RootCheckFailed
    PROVE  TxInv'
<1>1. ASSUME NEW p \in Points, ApplyRefused(p)
      PROVE  TxInv'
  <2>1. MarkRefused(p)
    BY <1>1 DEF ApplyRefused
  <2>2. QED
    BY <1>1, <2>1, MarkRefusedType, QuietInv DEF ApplyRefused, NextToApply, StartRollback
<1>2. CASE Applied
  BY <1>2, QuietInv DEF Applied, data, TxInv, TypeOK, PhasesInOrder
<1>3. CASE RootCheckFailed
  BY <1>3, QuietInv DEF RootCheckFailed, StartRollback, data, TxInv, TypeOK
<1>4. QED
  BY <1>1, <1>2, <1>3

LEMMA ApplyInv ==
    ASSUME TxInv, NEW p \in Points, ApplyAccepted(p)
    PROVE  TxInv'
<1> DEFINE u == [point |-> p, old |-> running[p], new |-> edits[p], commit_res |-> "skipped"]
<1>1. phase = "apply" /\ phase' = "apply" /\ p \in todo /\ p \in DOMAIN edits
  BY DEF ApplyAccepted, NextToApply, TxInv, PhasesInOrder
<1>2. /\ edits[p] \in ContentsOf(p) /\ edits[p] \in Contents /\ edits[p] # Marker
      /\ running[p] \in Contents
  BY <1>1, ChangesType, TreeType DEF TxInv, TypeOK
<1>3. u \in UndoRecords
  BY <1>2 DEF UndoRecords
<1>4. /\ undoQ' = Append(undoQ, u)
      /\ undoQ' \in Seq(UndoRecords)
      /\ Len(undoQ) \in Nat
      /\ Len(undoQ') = Len(undoQ) + 1
      /\ \A i \in Records : undoQ'[i] = undoQ[i]
      /\ undoQ'[Len(undoQ) + 1] = u
  <2>1. undoQ' = Append(undoQ, u)
    BY DEF ApplyAccepted
  <2>2. undoQ \in Seq(UndoRecords)
    BY DEF TxInv, TypeOK
  <2> HIDE DEF u
  <2>3. QED
    BY <1>3, <2>1, <2>2, AppendProperties DEF Records
<1>5. Records' = Records \cup {Len(undoQ) + 1} /\ Len(undoQ) + 1 \notin Records
  BY <1>4 DEF Records
<1> DEFINE n == Len(undoQ) + 1
<1>6. /\ undoQ'[n].point = p
      /\ undoQ'[n].new = edits[p]
      /\ undoQ'[n].old = running[p]
      /\ undoQ'[n].commit_res = "skipped"
  BY <1>4
<1>7. /\ Records' = Records \cup {n}
      /\ n \notin Records
      /\ \A i \in Records : undoQ'[i] = undoQ[i]
  BY <1>4, <1>5
<1> HIDE DEF n, u
<1>8. \A i \in Records : undoQ[i].point # p
  BY <1>1 DEF TxInv, RecordsAreEdits
<1>9. ~Standing(p) /\ running[p] = saved[p]
  BY <1>8 DEF Standing, TxInv, RunningShows
<1>10. TypeOK'
  <2>1. running' \in Trees
    BY <1>2, TreeExcept DEF ApplyAccepted, TxInv, TypeOK
  <2>2. candidate' \in [Points -> Contents \cup {Marker}]
    BY DEF ApplyAccepted, TxInv, TypeOK
  <2>3. system' \in [Points -> [active : Contents, staged : Contents \cup {Nothing}]]
    BY <1>2 DEF ApplyAccepted, TxInv, TypeOK
  <2>4. QED
    BY <1>1, <1>4, <2>1, <2>2, <2>3 DEF ApplyAccepted, TxInv, TypeOK
<1>11. RecordsAreEdits'
  <2>1. edits' = edits /\ todo' = todo \ {p} /\ saved' = saved
    BY DEF ApplyAccepted
  <2>2. QED
    BY <1>1, <1>6, <1>7, <1>8, <1>9, <2>1 DEF TxInv, RecordsAreEdits
<1>12. PhasesInOrder'
  <2>1. edits' = edits /\ todo' = todo \ {p}
    BY DEF ApplyAccepted
  <2>2. ASSUME NEW q \in DOMAIN edits \ todo'
        PROVE  Mentions(q)'
    BY <1>1, <1>4, <1>6, <1>7, <2>1 DEF TxInv, PhasesInOrder, Mentions, Records
  <2>3. \A i \in Records' : undoQ'[i].commit_res = "skipped"
    BY <1>1, <1>6, <1>7 DEF TxInv, PhasesInOrder
  <2>4. QED
    BY <1>1, <2>1, <2>2, <2>3 DEF TxInv, PhasesInOrder
<1>13. \A q : Standing(q)' <=> q = p \/ Standing(q)
  BY <1>1, <1>6, <1>7 DEF Standing, Stands
<1>14. RunningShows'
  BY <1>13 DEF ApplyAccepted, TxInv, TypeOK, Trees, RunningShows
<1>15. CandidateLends'
  <2>1. target' = target /\ saved' = saved /\ dirty' = dirty /\ edits' = edits
    BY DEF ApplyAccepted
  <2>2. CASE Lends(running[p], edits[p], p)
    <3>1. candidate' = [candidate EXCEPT ![p] = Marker] /\ IsCommit /\ edits[p] # Absent
      BY <2>2 DEF ApplyAccepted, Lends
    <3>2. p \in dirty
      BY <1>1, <3>1 DEF TxInv, CandidateLends
    <3>3. QED
      BY <1>13, <2>1, <3>1, <3>2 DEF TxInv, TypeOK, CandidateLends, IsCommit, ContentsOf
  <2>3. CASE ~Lends(running[p], edits[p], p)
    BY <1>13, <2>1, <2>3 DEF ApplyAccepted, TxInv, CandidateLends, IsCommit, ContentsOf
  <2>4. QED
    BY <2>2, <2>3
<1>16. QED
  BY <1>10, <1>11, <1>12, <1>14, <1>15 DEF TxInv

\* What a COMMIT callback answers is noted in the record of its edit.
LEMMA NotedAnswer ==
    ASSUME TypeOK, at \in Records, NEW r \in {"accepted", "refused"},
           undoQ' = [undoQ EXCEPT ![at].commit_res = r]
    PROVE  /\ undoQ' \in Seq(UndoRecords)
           /\ Len(undoQ') = Len(undoQ)
           /\ \A i \in Records : undoQ'[i].point = undoQ[i].point
           /\ \A i \in Records : undoQ'[i].new = undoQ[i].new
           /\ \A i \in Records : undoQ'[i].old = undoQ[i].old
           /\ \A i \in Records :
                undoQ'[i].commit_res = IF i = at THEN r ELSE undoQ[i].commit_res
<1> DEFINE e == [undoQ[at] EXCEPT !.commit_res = r]
<1>1. undoQ \in Seq(UndoRecords) /\ at \in 1 .. Len(undoQ) /\ undoQ[at] \in UndoRecords
  BY RecordType DEF TypeOK, Records
<1>2. /\ e \in UndoRecords
      /\ e.point = undoQ[at].point
      /\ e.new = undoQ[at].new
      /\ e.old = undoQ[at].old
      /\ e.commit_res = r
  BY <1>1 DEF UndoRecords
<1>3. undoQ' = [undoQ EXCEPT ![at] = e]
  OBVIOUS
<1> HIDE DEF e
<1>4. /\ undoQ' \in Seq(UndoRecords)
      /\ Len(undoQ') = Len(undoQ)
      /\ \A i \in Records : undoQ'[i] = IF i = at THEN e ELSE undoQ[i]
  <2>1. e \in UndoRecords
    BY <1>2
  <2>2. /\ [undoQ EXCEPT ![at] = e] \in Seq(UndoRecords)
        /\ Len([undoQ EXCEPT ![at] = e]) = Len(undoQ)
        /\ \A i \in 1 .. Len(undoQ) :
             [undoQ EXCEPT ![at] = e][i] = IF i = at THEN e ELSE undoQ[i]
    BY <1>1, <2>1, ExceptSeq
  <2>3. QED
    BY <1>3, <2>2 DEF Records
<1>5. QED
  BY <1>2, <1>4

LEMMA CommitInv ==
    ASSUME TxInv, CommitAccepted \/ CommitRefused
    PROVE  TxInv'
<1>1. phase = "commit" /\ todo = {} /\ at \in Records /\ Len(undoQ) \in Nat
  BY DEF CommitAccepted, CommitRefused, TxInv, TypeOK, PhasesInOrder, Records
<1>2. UNCHANGED <<target, running, candidate, dirty, saved, edits, todo, unsure>>
  BY DEF CommitAccepted, CommitRefused, data
<1>3. PICK r \in {"accepted", "refused"} : undoQ' = [undoQ EXCEPT ![at].commit_res = r]
  BY DEF CommitAccepted, CommitRefused
<1>4. /\ undoQ' \in Seq(UndoRecords)
      /\ Records' = Records
      /\ Len(undoQ') = Len(undoQ)
      /\ \A i \in Records : undoQ'[i].point = undoQ[i].point
      /\ \A i \in Records : undoQ'[i].new = undoQ[i].new
      /\ \A i \in Records : undoQ'[i].old = undoQ[i].old
  BY <1>1, <1>3, NotedAnswer DEF TxInv, Records
<1>5. \/ phase' = "rollback" /\ at' = 1
      \/ phase' = "commit" /\ at' = at + 1
  BY <1>1 DEF CommitAccepted, CommitRefused, StartRollback
<1>6. TypeOK'
  <2>1. \A i \in Records : undoQ[i].point \in Points /\ undoQ[i].new \in Contents
    BY RecordType DEF TxInv, UndoRecords
  <2>2. system' \in [Points -> [active : Contents, staged : Contents \cup {Nothing}]]
    <3>1. CASE CommitAccepted
      BY <1>1, <2>1, <3>1 DEF CommitAccepted, TxInv, TypeOK
    <3>2. CASE CommitRefused
      BY <1>1, <2>1, <3>2 DEF CommitRefused, TxInv, TypeOK
    <3>3. QED
      BY <3>1, <3>2
  <2>3. phase' \in {"commit", "rollback"} /\ at' \in 0 .. Len(undoQ') + 1
    BY <1>1, <1>4, <1>5 DEF Records
  <2>4. QED
    BY <1>2, <1>4, <2>2, <2>3 DEF TxInv, TypeOK
<1>7. RecordsAreEdits'
  BY <1>2, <1>4 DEF TxInv, RecordsAreEdits
<1>8. PhasesInOrder'
  <2>1. \A p : Mentions(p) => Mentions(p)'
    BY <1>4 DEF Mentions, Records
  <2>2. CASE phase' = "rollback" /\ at' = 1
    BY <1>1, <1>2, <1>4, <2>2 DEF TxInv, PhasesInOrder
  <2>3. CASE CommitAccepted
    <3>1. phase' = "commit" /\ at' = at + 1
      BY <1>1, <2>3 DEF CommitAccepted
    <3>2. \A i \in Records :
            undoQ'[i].commit_res = IF i < at + 1 THEN "accepted" ELSE "skipped"
      <4>1. undoQ' = [undoQ EXCEPT ![at].commit_res = "accepted"]
        BY <2>3 DEF CommitAccepted
      <4>2. \A i \in Records :
              undoQ'[i].commit_res = IF i = at THEN "accepted" ELSE undoQ[i].commit_res
        BY <1>1, <4>1, NotedAnswer DEF TxInv
      <4>3. \A i \in Records : undoQ[i].commit_res = IF i < at THEN "accepted" ELSE "skipped"
        BY <1>1 DEF TxInv, PhasesInOrder
      <4>4. QED
        BY <1>1, <4>2, <4>3 DEF Records
    <3>3. at' \in 1 .. Len(undoQ') + 1
      BY <1>1, <1>4, <3>1 DEF Records
    <3>4. QED
      BY <1>1, <1>2, <1>4, <2>1, <3>1, <3>2, <3>3 DEF TxInv, PhasesInOrder
  <2>4. QED
    BY <1>5, <2>2, <2>3 DEF CommitAccepted, CommitRefused, StartRollback
<1>9. \A p : Standing(p)' <=> Standing(p)
  <2>1. \A i \in Records : Stands(i) /\ Stands(i)'
    BY <1>1, <1>5 DEF Stands, Records
  <2>2. QED
    BY <1>4, <2>1 DEF Standing
<1>10. RunningShows' /\ CandidateLends'
  BY <1>2, <1>9 DEF TxInv, RunningShows, CandidateLends, IsCommit
<1>11. QED
  BY <1>6, <1>7, <1>8, <1>10 DEF TxInv

\* One record is undone: its point is the only one that stops standing.
LEMMA UndoneInv ==
    ASSUME TxInv, phase = "rollback", at \in Records, Restore(undoQ[at]), at' = at + 1,
           UNCHANGED <<target, dirty, saved, phase, edits, todo, undoQ>>,
           system' \in [Points -> [active : Contents, staged : Contents \cup {Nothing}]],
           unsure' \subseteq Points
    PROVE  TxInv'
<1> DEFINE p == undoQ[at].point
<1>1. /\ Len(undoQ) \in Nat
      /\ p \in Points
      /\ p \in DOMAIN edits
      /\ undoQ[at].new = edits[p]
      /\ undoQ[at].old = saved[p]
  BY RecordType DEF TxInv, TypeOK, RecordsAreEdits
<1>2. Records' = Records
  BY DEF Records
<1>3. \A q : Standing(q)' <=> Standing(q) /\ q # p
  <2>1. \A i \in Records : Stands(i) <=> at <= i
    BY DEF Stands
  <2>2. \A i \in Records : Stands(i)' <=> at <= i /\ i # at
    BY <1>1 DEF Stands, Records
  <2>3. \A i \in Records : undoQ[i].point = p => i = at
    BY DEF TxInv, RecordsAreEdits
  <2>4. QED
    BY <1>2, <2>1, <2>2, <2>3 DEF Standing
<1>4. /\ running' = [running EXCEPT ![p] = saved[p]]
      /\ candidate' = IF candidate[p] = Marker THEN [candidate EXCEPT ![p] = edits[p]]
                                               ELSE candidate
  BY <1>1 DEF Restore
<1>5. /\ saved[p] \in ContentsOf(p)
      /\ edits[p] \in ContentsOf(p) /\ edits[p] \in Contents /\ edits[p] # Marker
  BY <1>1, TreeType, ChangesType DEF TxInv, TypeOK
<1> HIDE DEF p
<1>6. TypeOK'
  <2>1. running' \in Trees
    BY <1>1, <1>4, <1>5, TreeExcept DEF TxInv, TypeOK
  <2>2. candidate' \in [Points -> Contents \cup {Marker}]
    BY <1>4, <1>5 DEF TxInv, TypeOK
  <2>3. at' \in 0 .. Len(undoQ) + 1
    BY <1>1 DEF Records
  <2>4. QED
    BY <2>1, <2>2, <2>3 DEF TxInv, TypeOK
<1>7. RecordsAreEdits'
  BY <1>2 DEF TxInv, RecordsAreEdits
<1>8. PhasesInOrder'
  BY <1>1, <1>2 DEF TxInv, PhasesInOrder, Records
<1>9. RunningShows'
  BY <1>3, <1>4 DEF TxInv, TypeOK, Trees, RunningShows
<1>10. CandidateLends'
  <2>1. ASSUME NEW q \in Points, q # p
        PROVE  candidate'[q] = candidate[q] /\ (Standing(q)' <=> Standing(q))
    BY <1>3, <1>4, <2>1
  <2>2. CASE candidate[p] = Marker
    <3>1. IsCommit /\ edits[p] # Absent /\ p \in dirty
      BY <1>1, <2>2 DEF TxInv, CandidateLends
    <3>2. candidate'[p] = edits[p]
      BY <1>1, <1>4, <2>2 DEF TxInv, TypeOK
    <3>3. QED
      BY <1>5, <2>1, <3>1, <3>2 DEF TxInv, CandidateLends, IsCommit
  <2>3. CASE candidate[p] # Marker
    BY <1>4, <2>1, <2>3 DEF TxInv, CandidateLends, IsCommit
  <2>4. QED
    BY <2>2, <2>3
<1>11. QED
  BY <1>6, <1>7, <1>8, <1>9, <1>10 DEF TxInv

LEMMA RollbackInv ==
    ASSUME TxInv, RollbackAccepted \/ RollbackRefused
    PROVE  TxInv'
<1>1. phase = "rollback" /\ at \in Records
  BY DEF RollbackAccepted, RollbackRefused, TxInv, TypeOK, PhasesInOrder, Records
<1>2. undoQ[at].point \in Points /\ undoQ[at].old \in Contents
  BY <1>1, RecordType DEF TxInv, UndoRecords
<1>3. CASE RollbackAccepted
  <2>1. system' \in [Points -> [active : Contents, staged : Contents \cup {Nothing}]]
    <3>1. UndoAccepted(undoQ[at])
      BY <1>3 DEF RollbackAccepted
    <3>2. system \in [Points -> [active : Contents, staged : Contents \cup {Nothing}]]
      BY DEF TxInv, TypeOK
    <3>3. QED
      BY <1>2, <3>1, <3>2 DEF UndoAccepted
  <2>2. QED
    BY <1>1, <1>3, <2>1, UndoneInv DEF RollbackAccepted, TxInv, TypeOK
<1>4. CASE RollbackRefused
  BY <1>1, <1>2, <1>4, UndoneInv DEF RollbackRefused, TxInv, TypeOK
<1>5. QED
  BY <1>3, <1>4

LEMMA FinishInv ==
    ASSUME TxInv, Finish \/ RolledBack
    PROVE  TxInv'
<1>1. CASE Finish
  <2>1. candidate' \in Trees
    <3>1. CASE IsCommit
      BY <1>1, <3>1 DEF Finish, TxInv, TypeOK
    <3>2. CASE ~IsCommit
      <4>1. \A p \in Points : candidate[p] \in ContentsOf(p)
        BY <3>2 DEF TxInv, CandidateLends
      <4>2. \A p \in Points : candidate[p] \in Contents
        BY <4>1 DEF Contents, ContentsOf, Values
      <4>3. QED
        BY <1>1, <3>2, <4>1, <4>2 DEF Finish, TxInv, TypeOK, Trees
    <3>3. QED
      BY <3>1, <3>2
  <2>2. candidate' \in [Points -> Contents \cup {Marker}]
    BY <2>1 DEF Trees
  <2>3. DataOK'
    BY <1>1, <2>2 DEF Finish, EndTransaction, DataOK, TxInv, TypeOK
  <2>4. IsCommit' => candidate' = saved'
    BY <1>1 DEF Finish, IsCommit
  <2>5. QED
    BY <1>1, <2>1, <2>3, <2>4, AtRest DEF Finish, EndTransaction
<1>2. CASE RolledBack
  BY <1>2, EndInv DEF RolledBack, data, TxInv, TypeOK
<1>3. QED
  BY <1>1, <1>2

LEMMA TxNext == TxInv /\ [Next]_vars => TxInv'
<1> SUFFICES ASSUME TxInv, [Next]_vars PROVE TxInv'
  OBVIOUS
<1>1. ASSUME NEW p \in Points, NEW v \in ContentsOf(p), EditCandidate(p, v)
      PROVE  TxInv'
  BY <1>1, IdleInv
<1>2. CASE DiscardChanges \/ Restart
  BY <1>2, IdleInv
<1>3. CASE StartCommit
  BY <1>3, StartCommitInv
<1>4. CASE \/ \E e \in Changes : StartEdit(e)
           \/ \E p \in Points : ValidateAccepted(p) \/ ValidateRefused(p)
           \/ Validated
           \/ CheckFailed
  BY <1>4, ValidateInv
<1>5. ASSUME NEW p \in Points, ApplyAccepted(p)
      PROVE  TxInv'
  BY <1>5, ApplyInv
<1>6. CASE (\E p \in Points : ApplyRefused(p)) \/ Applied \/ RootCheckFailed
  BY <1>6, AppliedInv
<1>7. ASSUME NEW p \in Points, DeletionRefused(p)
      PROVE  TxInv'
  BY <1>7, StopInv DEF DeletionRefused
<1>8. CASE Crash
  BY <1>8, StopInv DEF Crash
<1>9. CASE CommitAccepted \/ CommitRefused
  BY <1>9, CommitInv
<1>10. CASE RollbackAccepted \/ RollbackRefused
  BY <1>10, RollbackInv
<1>11. CASE Finish \/ RolledBack
  BY <1>11, FinishInv
<1>12. CASE UNCHANGED vars
  BY <1>12 DEF vars, data, txcb, TxInv, TypeOK, RecordsAreEdits, PhasesInOrder, RunningShows,
               CandidateLends, Records, Stands, Standing, Mentions, IsCommit
<1>13. QED
  BY <1>1, <1>2, <1>3, <1>4, <1>5, <1>6, <1>7, <1>8, <1>9, <1>10, <1>11, <1>12
     DEF Next, Carry

-----------------------------------------------------------------------------
(***************************************************************************)
(* The data trees.                                                         *)
(***************************************************************************)

\* TxInv holds in every reachable state.
THEOREM Inductive == Spec => []TxInv
<1>1. Init => TxInv
  BY TxInit
<1>2. TxInv /\ [Next]_vars => TxInv'
  BY TxNext
<1>3. QED
  BY <1>1, <1>2, PTL DEF Spec

\* The variables have their types, and no undo record outlives its request.
THEOREM TypeCorrect == Spec => []TypeOK
<1>1. TxInv => TypeOK
  BY DEF TxInv
<1>2. QED
  BY <1>1, Inductive, PTL

\* Between requests every edit of the candidate is marked for the next commit and
\* no node of the candidate is still lent to running, whatever callbacks refused.
THEOREM EditsPending == Spec => []EditsStayPending
<1>1. TxInv => EditsStayPending
  <2> SUFFICES ASSUME TxInv, phase = "idle", IsCommit PROVE EditsStayPending
    BY DEF EditsStayPending
  <2>1. undoQ = <<>>
    BY DEF TxInv, PhasesInOrder
  <2>2. running = saved /\ candidate \in Trees
    BY <2>1, NothingStands
  <2>3. QED
    BY <2>2, TreeType DEF TxInv, CandidateLends, EditsStayPending
<1>2. QED
  BY <1>1, Inductive, PTL

-----------------------------------------------------------------------------
(***************************************************************************)
(* The instrumented system.                                                *)
(***************************************************************************)

\* The callbacks of the point are as the saved configuration wants them.
Settled(p) == p \in unsure \/ system[p] = [active |-> saved[p], staged |-> Nothing]

\* The answer of its COMMIT callback tells what record i has activated.
Answered(i) ==
    LET p == undoQ[i].point IN
    /\ undoQ[i].commit_res = "accepted" =>
         system[p] = [active |-> undoQ[i].new, staged |-> Nothing]
    /\ undoQ[i].commit_res = "skipped" =>
         p \in unsure \/ system[p] = [active |-> saved[p], staged |-> undoQ[i].new]
    /\ undoQ[i].commit_res = "refused" => Settled(p)

PointsSettled == \A p \in Points : Standing(p) \/ Settled(p)

AnswersTell == \A i \in Records : Stands(i) => Answered(i)

SystemInv == PointsSettled /\ AnswersTell

LEMMA AllSettled ==
    ASSUME TxInv, SystemInv, undoQ = <<>> \/ (phase = "rollback" /\ at = Len(undoQ) + 1)
    PROVE  \A p \in Points : Settled(p)
<1>1. Len(undoQ) \in Nat
  BY DEF TxInv, TypeOK
<1>2. \A p \in Points : ~Standing(p)
  <2>1. CASE undoQ = <<>>
    BY <2>1, NoRecordsType DEF Standing, Records
  <2>2. CASE phase = "rollback" /\ at = Len(undoQ) + 1
    BY <1>1, <2>2 DEF Standing, Stands, Records
  <2>3. QED
    BY <2>1, <2>2
<1>3. QED
  BY <1>2 DEF SystemInv, PointsSettled

\* A record the step does not concern.
LEMMA SameAnswer ==
    ASSUME NEW i, Answered(i), saved' = saved,
           undoQ'[i].point = undoQ[i].point,
           undoQ'[i].new = undoQ[i].new,
           undoQ'[i].commit_res = undoQ[i].commit_res,
           system'[undoQ[i].point] = system[undoQ[i].point],
           undoQ[i].point \in unsure => undoQ[i].point \in unsure'
    PROVE  Answered(i)'
<1>1. PICK p, v, c : p = undoQ[i].point /\ v = undoQ[i].new /\ c = undoQ[i].commit_res
  OBVIOUS
<1>2. /\ c = "accepted" => system[p] = [active |-> v, staged |-> Nothing]
      /\ c = "skipped" => p \in unsure \/ system[p] = [active |-> saved[p], staged |-> v]
      /\ c = "refused" => p \in unsure \/ system[p] = [active |-> saved[p], staged |-> Nothing]
  BY <1>1 DEF Answered, Settled
<1>3. /\ undoQ'[i].point = p /\ undoQ'[i].new = v /\ undoQ'[i].commit_res = c
      /\ system'[p] = system[p] /\ (p \in unsure => p \in unsure')
  BY <1>1
<1>4. QED
  BY <1>2, <1>3 DEF Answered, Settled

LEMMA SettledAtRest ==
    ASSUME undoQ' = <<>>, \A p \in Points : Settled(p)'
    PROVE  SystemInv'
<1>1. Records' = {}
  BY NoRecordsType DEF Records
<1>2. QED
  BY <1>1 DEF SystemInv, PointsSettled, AnswersTell

LEMMA SystemInit == Init => SystemInv
<1>1. ASSUME Init PROVE Records = {} /\ \A p \in Points : Settled(p)
  BY <1>1, NoRecordsType DEF Init, Records, Settled
<1>2. QED
  BY <1>1 DEF SystemInv, PointsSettled, AnswersTell

\* Steps that call no callback, or none that changes the system.
LEMMA SystemQuiet ==
    ASSUME SystemInv, UNCHANGED <<saved, undoQ, system, unsure>>,
           \A i \in Records : Stands(i)' <=> Stands(i)
    PROVE  SystemInv'
<1>1. Records' = Records
  BY DEF Records
<1>2. \A p : (Standing(p)' <=> Standing(p)) /\ (Settled(p)' <=> Settled(p))
  BY <1>1 DEF Standing, Settled
<1>3. \A i : Answered(i) => Answered(i)'
  BY SameAnswer
<1>4. QED
  BY <1>1, <1>2, <1>3 DEF SystemInv, PointsSettled, AnswersTell

\* Steps that end the request with nothing standing, and the end of the server.
LEMMA SystemEnd ==
    ASSUME TxInv, SystemInv,
           \/ \E p \in Points : ValidateRefused(p) \/ DeletionRefused(p)
           \/ CheckFailed \/ RolledBack \/ Crash
    PROVE  SystemInv'
<1>1. ASSUME Stop PROVE SystemInv'
  BY <1>1, SettledAtRest DEF Stop, Settled
<1>2. ASSUME EndTransaction, UNCHANGED <<saved, system, unsure>>,
             undoQ = <<>> \/ (phase = "rollback" /\ at = Len(undoQ) + 1)
      PROVE  SystemInv'
  <2>1. \A p \in Points : Settled(p)
    BY <1>2, AllSettled
  <2>2. \A p \in Points : Settled(p)'
    BY <1>2, <2>1 DEF Settled
  <2>3. QED
    BY <1>2, <2>2, SettledAtRest DEF EndTransaction
<1>3. phase = "validate" => undoQ = <<>>
  BY DEF TxInv, PhasesInOrder
<1>4. ASSUME NEW p \in Points, ValidateRefused(p)
      PROVE  SystemInv'
  BY <1>2, <1>3, <1>4 DEF ValidateRefused
<1>5. ASSUME NEW p \in Points, DeletionRefused(p)
      PROVE  SystemInv'
  BY <1>1, <1>5 DEF DeletionRefused
<1>6. CASE CheckFailed
  BY <1>2, <1>3, <1>6 DEF CheckFailed, data
<1>7. CASE RolledBack
  BY <1>2, <1>7 DEF RolledBack, data
<1>8. CASE Crash
  BY <1>1, <1>8 DEF Crash
<1>9. QED
  BY <1>4, <1>5, <1>6, <1>7, <1>8

LEMMA SystemApply ==
    ASSUME TxInv, SystemInv, NEW p \in Points, ApplyAccepted(p)
    PROVE  SystemInv'
<1> DEFINE n == Len(undoQ) + 1
           u == [point |-> p, old |-> running[p], new |-> edits[p], commit_res |-> "skipped"]
<1>1. phase = "apply" /\ phase' = "apply" /\ p \in todo /\ p \in DOMAIN edits
  BY DEF ApplyAccepted, NextToApply, TxInv, PhasesInOrder
<1>2. u \in UndoRecords
  BY <1>1, ChangesType, TreeType DEF TxInv, TypeOK, UndoRecords
<1>3. /\ Len(undoQ) \in Nat
      /\ Len(undoQ') = n
      /\ \A i \in Records : undoQ'[i] = undoQ[i]
      /\ undoQ'[n] = u
  <2>1. undoQ \in Seq(UndoRecords) /\ undoQ' = Append(undoQ, u)
    BY DEF ApplyAccepted, TxInv, TypeOK
  <2> HIDE DEF u
  <2>2. QED
    BY <1>2, <2>1, AppendProperties DEF Records
<1>4. undoQ'[n].point = p /\ undoQ'[n].new = edits[p] /\ undoQ'[n].commit_res = "skipped"
  BY <1>3
<1>5. Records' = Records \cup {n} /\ n \notin Records
  BY <1>3 DEF Records
<1> HIDE DEF n, u
<1>6. \A i \in Records : undoQ[i].point # p /\ undoQ[i].point \in Points
  BY <1>1, RecordType DEF TxInv, RecordsAreEdits
<1>7. Settled(p)
  BY <1>6 DEF SystemInv, PointsSettled, Standing
<1>8. /\ UNCHANGED <<saved, unsure>>
      /\ \A q \in Points \ {p} : system'[q] = system[q]
      /\ system'[p] = [system[p] EXCEPT !.staged = edits[p]]
  BY DEF ApplyAccepted, TxInv, TypeOK
<1>9. p \in unsure' \/ system'[p] = [active |-> saved'[p], staged |-> edits[p]]
  BY <1>7, <1>8 DEF Settled
<1>10. (\A i \in Records' : Stands(i)') /\ (\A i \in Records : Stands(i))
  BY <1>1 DEF Stands
<1>11. PointsSettled'
  <2>1. Standing(p)'
    BY <1>4, <1>5, <1>10 DEF Standing
  <2>2. \A q : Standing(q) => Standing(q)'
    BY <1>3, <1>5, <1>10 DEF Standing
  <2>3. \A q \in Points \ {p} : Settled(q) => Settled(q)'
    BY <1>8 DEF Settled
  <2>4. QED
    BY <2>1, <2>2, <2>3 DEF SystemInv, PointsSettled
<1>12. ASSUME NEW i \in Records
       PROVE  Answered(i)'
  <2>1. Answered(i) /\ undoQ[i].point \in Points \ {p}
    BY <1>6, <1>10 DEF SystemInv, AnswersTell
  <2>2. QED
    BY <1>3, <1>8, <2>1, SameAnswer
<1>13. ASSUME NEW i, i = n
       PROVE  Answered(i)'
  BY <1>4, <1>9, <1>13 DEF Answered
<1>14. QED
  BY <1>5, <1>11, <1>12, <1>13 DEF SystemInv, AnswersTell

LEMMA SystemCommit ==
    ASSUME TxInv, SystemInv, CommitAccepted \/ CommitRefused
    PROVE  SystemInv'
<1>1. phase = "commit" /\ at \in Records /\ Len(undoQ) \in Nat
  BY DEF CommitAccepted, CommitRefused, TxInv, TypeOK, PhasesInOrder, Records
<1>2. PICK k \in Records : k = at
  BY <1>1
<1>3. PICK p \in Points : p = undoQ[k].point
  BY <1>2, RecordType DEF TxInv
<1>4. PICK r \in {"accepted", "refused"} :
        /\ undoQ' = [undoQ EXCEPT ![at].commit_res = r]
        /\ r = "accepted" => CommitAccepted
        /\ r = "refused" => CommitRefused
  BY DEF CommitAccepted, CommitRefused
<1>5. /\ Records' = Records
      /\ \A i \in Records : undoQ'[i].point = undoQ[i].point
      /\ \A i \in Records : undoQ'[i].new = undoQ[i].new
      /\ \A i \in Records :
            undoQ'[i].commit_res = IF i = k THEN r ELSE undoQ[i].commit_res
  BY <1>1, <1>2, <1>4, NotedAnswer DEF TxInv, Records
<1>6. UNCHANGED <<saved, unsure>>
  BY DEF CommitAccepted, CommitRefused, data
<1>7. \A i \in Records \ {k} : undoQ[i].point \in Points \ {p}
  BY <1>2, <1>3, RecordType DEF TxInv, RecordsAreEdits
<1>8. \A i \in Records : Stands(i) /\ Stands(i)'
  BY <1>1 DEF Stands, Records, CommitAccepted, CommitRefused, StartRollback
<1>9. p \in unsure \/ system[p] = [active |-> saved[p], staged |-> undoQ[k].new]
  <2>1. undoQ[k].commit_res = "skipped"
    BY <1>1, <1>2 DEF TxInv, PhasesInOrder, Records
  <2>2. Answered(k)
    BY <1>8 DEF SystemInv, AnswersTell
  <2>3. QED
    BY <1>3, <2>1, <2>2 DEF Answered
<1>10. \A q \in Points \ {p} : system'[q] = system[q]
  BY <1>2, <1>3 DEF CommitAccepted, CommitRefused, TxInv, TypeOK
<1>11. PointsSettled'
  <2>1. \A q : Standing(q) => Standing(q)'
    BY <1>5, <1>8 DEF Standing
  <2>2. Standing(p)
    BY <1>3, <1>8 DEF Standing
  <2>3. \A q \in Points \ {p} : Settled(q) => Settled(q)'
    BY <1>6, <1>10 DEF Settled
  <2>4. QED
    BY <2>1, <2>2, <2>3 DEF SystemInv, PointsSettled
<1>12. ASSUME NEW i \in Records, i # k
       PROVE  Answered(i)'
  <2>1. Answered(i)
    BY <1>8 DEF SystemInv, AnswersTell
  <2>2. system'[undoQ[i].point] = system[undoQ[i].point]
    BY <1>7, <1>10, <1>12
  <2>3. QED
    BY <1>5, <1>6, <1>12, <2>1, <2>2, SameAnswer
<1>13. Answered(k)'
  <2>1. undoQ'[k].point = p /\ undoQ'[k].new = undoQ[k].new /\ undoQ'[k].commit_res = r
    BY <1>3, <1>5
  <2>2. CASE r = "accepted"
    <3>1. system' = [system EXCEPT ![p] = [active |-> undoQ[k].new, staged |-> Nothing]]
      BY <1>2, <1>3, <1>4, <2>2 DEF CommitAccepted
    <3>2. system'[p] = [active |-> undoQ[k].new, staged |-> Nothing]
      BY <3>1 DEF TxInv, TypeOK
    <3>3. QED
      BY <2>1, <2>2, <3>2 DEF Answered
  <2>3. CASE r = "refused"
    <3>1. system' = [system EXCEPT ![p].staged = Nothing]
      BY <1>2, <1>3, <1>4, <2>3 DEF CommitRefused
    <3>2. system'[p] = [system[p] EXCEPT !.staged = Nothing]
      BY <3>1 DEF TxInv, TypeOK
    <3>3. Settled(p)'
      BY <1>6, <1>9, <3>2 DEF Settled
    <3>4. QED
      BY <2>1, <2>3, <3>3 DEF Answered, Settled
  <2>4. QED
    BY <2>2, <2>3
<1>14. QED
  BY <1>5, <1>11, <1>12, <1>13 DEF SystemInv, AnswersTell

LEMMA SystemRollback ==
    ASSUME TxInv, SystemInv, RollbackAccepted \/ RollbackRefused
    PROVE  SystemInv'
<1>1. /\ phase = "rollback" /\ phase' = "rollback"
      /\ at \in Records /\ at' = at + 1
      /\ Len(undoQ) \in Nat
      /\ UNCHANGED <<saved, undoQ>>
  BY DEF RollbackAccepted, RollbackRefused, TxInv, TypeOK, PhasesInOrder, Records
<1>2. PICK k \in Records : k = at
  BY <1>1
<1>3. PICK p \in Points : p = undoQ[k].point
  BY <1>2, RecordType DEF TxInv
<1>4. Records' = Records
  BY <1>1 DEF Records
<1>5. Stands(k) /\ \A i \in Records : Stands(i)' <=> Stands(i) /\ i # k
  BY <1>1, <1>2 DEF Stands, Records
<1>6. \A i \in Records \ {k} : undoQ[i].point \in Points \ {p}
  BY <1>2, <1>3, RecordType DEF TxInv, RecordsAreEdits
<1>7. undoQ[k].old = saved[p]
  BY <1>3 DEF TxInv, RecordsAreEdits
<1>8. /\ \A q \in Points \ {p} : system'[q] = system[q]
      /\ \A q \in unsure : q \in unsure'
  <2>1. CASE RollbackAccepted
    <3>1. UndoAccepted(undoQ[k]) /\ unsure' = unsure
      BY <1>2, <2>1 DEF RollbackAccepted
    <3>2. QED
      BY <1>3, <3>1 DEF UndoAccepted, TxInv, TypeOK
  <2>2. CASE RollbackRefused
    BY <2>2 DEF RollbackRefused
  <2>3. QED
    BY <2>1, <2>2
<1>9. Settled(p)'
  <2>1. CASE RollbackAccepted
    <3>1. UndoAccepted(undoQ[k]) /\ unsure' = unsure
      BY <1>2, <2>1 DEF RollbackAccepted
    <3>2. Answered(k)
      BY <1>5 DEF SystemInv, AnswersTell
    <3>3. CASE undoQ[k].commit_res = "accepted"
      <4>1. system' = [system EXCEPT ![p] = [active |-> saved[p], staged |-> Nothing]]
        BY <1>3, <1>7, <3>1, <3>3 DEF UndoAccepted
      <4>2. system'[p] = [active |-> saved[p], staged |-> Nothing]
        BY <4>1 DEF TxInv, TypeOK
      <4>3. QED
        BY <1>1, <4>2 DEF Settled
    <3>4. CASE undoQ[k].commit_res = "skipped"
      <4>1. system' = [system EXCEPT ![p].staged = Nothing]
        BY <1>3, <3>1, <3>4 DEF UndoAccepted
      <4>2. system'[p] = [system[p] EXCEPT !.staged = Nothing]
        BY <4>1 DEF TxInv, TypeOK
      <4>3. p \in unsure \/ system[p] = [active |-> saved[p], staged |-> undoQ[k].new]
        BY <1>3, <3>2, <3>4 DEF Answered
      <4>4. QED
        BY <1>1, <3>1, <4>2, <4>3 DEF Settled
    <3>5. CASE undoQ[k].commit_res = "refused"
      <4>1. system' = system
        BY <3>1, <3>5 DEF UndoAccepted
      <4>2. Settled(p)
        BY <1>3, <3>2, <3>5 DEF Answered
      <4>3. QED
        BY <1>1, <3>1, <4>1, <4>2 DEF Settled
    <3>6. undoQ[k].commit_res \in {"skipped", "accepted", "refused"}
      BY RecordType DEF TxInv
    <3>7. QED
      BY <3>3, <3>4, <3>5, <3>6
  <2>2. CASE RollbackRefused
    <3>1. p \in unsure'
      BY <1>2, <1>3, <2>2 DEF RollbackRefused
    <3>2. QED
      BY <3>1 DEF Settled
  <2>3. QED
    BY <2>1, <2>2
<1>10. PointsSettled'
  <2>1. \A q \in Points \ {p} : Standing(q) => Standing(q)'
    BY <1>1, <1>3, <1>4, <1>5 DEF Standing
  <2>2. \A q \in Points \ {p} : Settled(q) => Settled(q)'
    BY <1>1, <1>8 DEF Settled
  <2>3. QED
    BY <1>9, <2>1, <2>2 DEF SystemInv, PointsSettled
<1>11. ASSUME NEW i \in Records', Stands(i)'
       PROVE  Answered(i)'
  <2>1. i \in Records /\ i # k /\ Stands(i)
    BY <1>4, <1>5, <1>11
  <2>2. Answered(i)
    BY <2>1 DEF SystemInv, AnswersTell
  <2>3. system'[undoQ[i].point] = system[undoQ[i].point]
    BY <1>6, <1>8, <2>1
  <2>4. QED
    BY <1>1, <1>8, <2>2, <2>3, SameAnswer
<1>12. QED
  BY <1>10, <1>11 DEF SystemInv, AnswersTell

LEMMA SystemFinish ==
    ASSUME TxInv, SystemInv, Finish
    PROVE  SystemInv'
<1>1. /\ phase = "commit" /\ at = Len(undoQ) + 1 /\ Len(undoQ) \in Nat
      /\ saved' = running /\ system' = system /\ undoQ' = <<>>
      /\ unsure' = {p \in unsure : ~Mentions(p)}
  BY DEF Finish, EndTransaction, TxInv, TypeOK
<1>2. \A i \in Records : Stands(i) /\ undoQ[i].commit_res = "accepted"
  BY <1>1 DEF Stands, Records, TxInv, PhasesInOrder
<1>3. ASSUME NEW p \in Points
      PROVE  Settled(p)'
  <2>1. CASE Mentions(p)
    <3>1. PICK i \in Records : undoQ[i].point = p
      BY <2>1 DEF Mentions, Records
    <3>2. Standing(p)
      BY <1>2, <3>1 DEF Standing
    <3>3. system[p] = [active |-> undoQ[i].new, staged |-> Nothing] /\ undoQ[i].new = edits[p]
      BY <1>2, <3>1 DEF SystemInv, AnswersTell, Answered, TxInv, RecordsAreEdits
    <3>4. running[p] = edits[p]
      BY <3>2 DEF TxInv, RunningShows
    <3>5. QED
      BY <1>1, <3>3, <3>4 DEF Settled
  <2>2. CASE ~Mentions(p)
    <3>1. ~Standing(p)
      BY <2>2 DEF Standing, Mentions, Records
    <3>2. Settled(p) /\ running[p] = saved[p]
      BY <3>1 DEF SystemInv, PointsSettled, TxInv, RunningShows
    <3>3. QED
      BY <1>1, <2>2, <3>2 DEF Settled
  <2>3. QED
    BY <2>1, <2>2
<1>4. QED
  BY <1>1, <1>3, SettledAtRest

LEMMA SystemNext == TxInv /\ SystemInv /\ [Next]_vars => SystemInv'
<1> SUFFICES ASSUME TxInv, SystemInv, [Next]_vars PROVE SystemInv'
  OBVIOUS
<1>1. ASSUME \/ \E p \in Points : \E v \in ContentsOf(p) : EditCandidate(p, v)
             \/ DiscardChanges \/ Restart \/ StartCommit
             \/ \E e \in Changes : StartEdit(e)
             \/ \E p \in Points : ValidateAccepted(p)
             \/ Validated \/ Applied \/ UNCHANGED vars
      PROVE  SystemInv'
  <2>1. UNCHANGED <<saved, undoQ, system, unsure>>
    BY <1>1 DEF EditCandidate, DiscardChanges, Restart, StartCommit, StartEdit,
                ValidateAccepted, Validated, Applied, vars, data, txcb
  <2>2. \/ phase # "rollback" /\ phase' # "rollback"
        \/ phase' = phase /\ at' = at
    BY <1>1 DEF EditCandidate, DiscardChanges, Restart, StartCommit, StartEdit,
                ValidateAccepted, Validated, Applied, vars, txcb
  <2>3. \A i \in Records : Stands(i)' <=> Stands(i)
    BY <2>2 DEF Stands
  <2>4. QED
    BY <2>1, <2>3, SystemQuiet
<1>2. ASSUME (\E p \in Points : ApplyRefused(p)) \/ RootCheckFailed
      PROVE  SystemInv'
  <2>1. UNCHANGED <<saved, undoQ, system, unsure>>
    BY <1>2 DEF ApplyRefused, RootCheckFailed, data
  <2>2. phase = "apply" /\ phase' = "rollback" /\ at' = 1
    BY <1>2 DEF ApplyRefused, RootCheckFailed, NextToApply, StartRollback
  <2>3. \A i \in Records : Stands(i)' <=> Stands(i)
    BY <2>2 DEF Stands, Records
  <2>4. QED
    BY <2>1, <2>3, SystemQuiet
<1>3. ASSUME \/ \E p \in Points : ValidateRefused(p) \/ DeletionRefused(p)
             \/ CheckFailed \/ RolledBack \/ Crash
      PROVE  SystemInv'
  BY <1>3, SystemEnd
<1>4. ASSUME NEW p \in Points, ApplyAccepted(p)
      PROVE  SystemInv'
  BY <1>4, SystemApply
<1>5. CASE CommitAccepted \/ CommitRefused
  BY <1>5, SystemCommit
<1>6. CASE RollbackAccepted \/ RollbackRefused
  BY <1>6, SystemRollback
<1>7. CASE Finish
  BY <1>7, SystemFinish
<1>8. QED
  BY <1>1, <1>2, <1>3, <1>4, <1>5, <1>6, <1>7 DEF Next, Carry

\* At rest every point is settled.
THEOREM SystemSettled == Spec => [](TxInv /\ SystemInv)
<1>1. Init => TxInv /\ SystemInv
  BY TxInit, SystemInit
<1>2. TxInv /\ SystemInv /\ [Next]_vars => TxInv' /\ SystemInv'
  BY TxNext, SystemNext
<1>3. QED
  BY <1>1, <1>2, PTL DEF Spec

\* Between requests the instrumented system has activated what running shows, but
\* for points whose callback refused to undo what it had accepted.
THEOREM SystemFollows == Spec => []SystemAgrees
<1>1. TxInv /\ SystemInv => SystemAgrees
  <2> SUFFICES ASSUME TxInv, SystemInv, phase = "idle" PROVE SystemAgrees
    BY DEF SystemAgrees
  <2>1. undoQ = <<>>
    BY DEF TxInv, PhasesInOrder
  <2>2. running = saved /\ \A p \in Points : Settled(p)
    BY <2>1, NothingStands, AllSettled
  <2>3. \A p \in Points \ unsure : system[p] = [active |-> saved[p], staged |-> Nothing]
    BY <2>2 DEF Settled
  <2>4. ASSUME NEW p \in Points \ unsure PROVE system[p].active = running[p]
    <3>1. system[p] = [active |-> running[p], staged |-> Nothing]
      BY <2>2, <2>3
    <3>2. QED
      BY <3>1
  <2>5. QED
    BY <2>4 DEF SystemAgrees
<1>2. QED
  BY <1>1, SystemSettled, PTL

\* Between requests no callback holds a reservation, but for points whose callback
\* refused to undo: every accepted APPLY is followed by a COMMIT or a ROLLBACK.
THEOREM NothingReserved == Spec => []ReservationsReleased
<1>1. TxInv /\ SystemInv => ReservationsReleased
  <2> SUFFICES ASSUME TxInv, SystemInv, phase = "idle" PROVE ReservationsReleased
    BY DEF ReservationsReleased
  <2>1. undoQ = <<>>
    BY DEF TxInv, PhasesInOrder
  <2>2. \A p \in Points : Settled(p)
    BY <2>1, AllSettled
  <2>3. \A p \in Points \ unsure : system[p] = [active |-> saved[p], staged |-> Nothing]
    BY <2>2 DEF Settled
  <2>4. ASSUME NEW p \in Points \ unsure PROVE system[p].staged = Nothing
    <3>1. system[p] = [active |-> saved[p], staged |-> Nothing]
      BY <2>3
    <3>2. QED
      BY <3>1
  <2>5. QED
    BY <2>4 DEF ReservationsReleased
<1>2. QED
  BY <1>1, SystemSettled, PTL

-----------------------------------------------------------------------------
(***************************************************************************)
(* All or nothing.                                                         *)
(***************************************************************************)

\* No VALIDATE or APPLY callback of a leaf refuses.
LeavesAccept == Leaves \cap (Refusing["validate"] \cup Refusing["apply"]) = {}

\* A commit goes on with the candidate it started with, markers apart.
Kept ==
    Busy /\ IsCommit =>
        \A p \in Points :
            IF p \in DOMAIN edits THEN candidate[p] \in {edits[p], Marker}
                                  ELSE candidate[p] = saved[p]

\* The candidate and the request as AtomicEdits sees them.
Shown == [p \in Points |-> IF candidate[p] = Marker THEN edits[p] ELSE candidate[p]]

Asked == [busy |-> Busy, edits |-> IF Busy /\ ~IsCommit THEN edits ELSE NoEdits]

LEMMA SavedIsSeen == TxInv => (IF Busy THEN saved ELSE running) = saved
<1> SUFFICES ASSUME TxInv PROVE (IF Busy THEN saved ELSE running) = saved
  OBVIOUS
<1>1. CASE ~Busy
  <2>1. undoQ = <<>>
    BY <1>1 DEF Busy, TxInv, TypeOK, PhasesInOrder
  <2>2. QED
    BY <1>1, <2>1, NothingStands
<1>2. QED
  BY <1>1

LEMMA NothingLent ==
    ASSUME TxInv, candidate \in Trees
    PROVE  Shown = candidate
<1>1. \A p \in Points : candidate[p] # Marker
  BY TreeType
<1>2. QED
  BY <1>1 DEF Shown, Trees

LEMMA AtRestShown ==
    TxInv /\ ~Busy => candidate \in Trees /\ Shown = candidate /\ edits = NoEdits
<1> SUFFICES ASSUME TxInv, ~Busy
             PROVE  candidate \in Trees /\ Shown = candidate /\ edits = NoEdits
  OBVIOUS
<1>1. undoQ = <<>> /\ edits = NoEdits
  BY DEF Busy, TxInv, TypeOK, PhasesInOrder
<1>2. QED
  BY <1>1, NothingStands, NothingLent

LEMMA NothingAsked == ~Busy => Asked = [busy |-> FALSE, edits |-> NoEdits]
<1> SUFFICES ASSUME ~Busy PROVE Asked = [busy |-> FALSE, edits |-> NoEdits]
  OBVIOUS
<1>1. Busy = FALSE
  OBVIOUS
<1>2. (IF Busy /\ ~IsCommit THEN edits ELSE NoEdits) = NoEdits
  OBVIOUS
<1>3. QED
  BY <1>1, <1>2 DEF Asked

\* Steps of a request on its way.
InRequest ==
    \/ \E p \in Points : ValidateAccepted(p) \/ ApplyAccepted(p) \/ ApplyRefused(p)
    \/ Validated \/ Applied \/ RootCheckFailed
    \/ CommitAccepted \/ CommitRefused
    \/ RollbackAccepted \/ RollbackRefused

\* Where the candidate changes, a node is lent or comes back.
LEMMA InRequestStep ==
    ASSUME LeavesAccept, TxInv, InRequest
    PROVE  /\ Busy /\ Busy'
           /\ UNCHANGED <<target, saved, edits>>
           /\ \A p \in Points :
                \/ candidate'[p] = candidate[p]
                \/ IsCommit /\ p \in DOMAIN edits /\ candidate'[p] \in {edits[p], Marker}
<1> DEFINE Step ==
      /\ Busy /\ Busy'
      /\ UNCHANGED <<target, saved, edits>>
      /\ \A p \in Points :
           \/ candidate'[p] = candidate[p]
           \/ IsCommit /\ p \in DOMAIN edits /\ candidate'[p] \in {edits[p], Marker}
<1>1. ASSUME \/ \E p \in Points : ValidateAccepted(p)
             \/ Validated \/ Applied \/ RootCheckFailed
             \/ CommitAccepted \/ CommitRefused
      PROVE  Step
  BY <1>1 DEF ValidateAccepted, Validated, Applied, RootCheckFailed, CommitAccepted,
              CommitRefused, StartRollback, Busy, data
<1>2. ASSUME NEW p \in Points, ApplyAccepted(p)
      PROVE  Step
  <2>1. p \in DOMAIN edits
    BY <1>2 DEF ApplyAccepted, NextToApply, TxInv, PhasesInOrder
  <2>2. QED
    BY <1>2, <2>1 DEF ApplyAccepted, NextToApply, Lends, Busy, TxInv, TypeOK
<1>3. ASSUME NEW p \in Points, ApplyRefused(p)
      PROVE  Step
  <2>1. candidate' = candidate
    BY <1>3 DEF ApplyRefused, MarkRefused, LeavesAccept
  <2>2. QED
    BY <1>3, <2>1 DEF ApplyRefused, NextToApply, StartRollback, Busy
<1>4. ASSUME RollbackAccepted \/ RollbackRefused
      PROVE  Step
  <2>1. phase = "rollback" /\ at \in Records /\ Restore(undoQ[at])
    BY <1>4 DEF RollbackAccepted, RollbackRefused, TxInv, TypeOK, PhasesInOrder, Records
  <2>2. PICK p \in Points : p = undoQ[at].point
    BY <2>1, RecordType DEF TxInv
  <2>3. p \in DOMAIN edits /\ undoQ[at].new = edits[p]
    BY <2>1, <2>2 DEF TxInv, RecordsAreEdits
  <2>4. candidate' = IF candidate[p] = Marker THEN [candidate EXCEPT ![p] = edits[p]]
                                              ELSE candidate
    BY <2>1, <2>2, <2>3 DEF Restore
  <2>5. candidate[p] = Marker => IsCommit
    BY DEF TxInv, CandidateLends
  <2>6. QED
    BY <1>4, <2>3, <2>4, <2>5 DEF RollbackAccepted, RollbackRefused, Busy, TxInv, TypeOK
<1>5. QED
  BY <1>1, <1>2, <1>3, <1>4 DEF InRequest

\* Requests that end with the candidate as it was, and with nothing done.
Failed ==
    \/ \E p \in Points : ValidateRefused(p)
    \/ CheckFailed
    \/ RolledBack

LEMMA FailedStep ==
    ASSUME LeavesAccept, TxInv, Failed
    PROVE  /\ Busy /\ ~Busy' /\ edits' = NoEdits
           /\ UNCHANGED <<target, saved, candidate>>
           /\ candidate \in Trees
<1>1. UNCHANGED <<target, saved, candidate>>
  BY DEF Failed, ValidateRefused, CheckFailed, RolledBack, MarkRefused, LeavesAccept, data
<1>2. Busy /\ ~Busy' /\ edits' = NoEdits
  BY DEF Failed, ValidateRefused, CheckFailed, RolledBack, EndTransaction, Busy
<1>3. undoQ = <<>> \/ (phase = "rollback" /\ at = Len(undoQ) + 1)
  BY DEF Failed, ValidateRefused, CheckFailed, RolledBack, TxInv, PhasesInOrder
<1>4. QED
  BY <1>1, <1>2, <1>3, NothingStands

LEMMA StartKept ==
    ASSUME TxInv, StartCommit
    PROVE  Kept'
<1>1. undoQ = <<>>
  BY DEF StartCommit, TxInv, PhasesInOrder
<1>2. running = saved
  BY <1>1, NothingStands
<1>3. UNCHANGED <<candidate, saved>> /\ edits' = [p \in Visible \cup Deleted |-> candidate[p]]
  BY DEF StartCommit, data
<1>4. ASSUME NEW p \in Points, p \notin Visible \cup Deleted
      PROVE  candidate[p] = saved[p]
  BY <1>2, <1>4 DEF Visible, Deleted, StartCommit, TxInv, CandidateLends
<1>5. QED
  BY <1>3, <1>4 DEF Kept

LEMMA KeptNext ==
    ASSUME LeavesAccept, TxInv, Kept, [Next]_vars
    PROVE  Kept'
<1>1. CASE InRequest
  BY <1>1, InRequestStep DEF Kept, IsCommit
<1>2. CASE StartCommit
  BY <1>2, StartKept
<1>3. ASSUME NEW e \in Changes, StartEdit(e)
      PROVE  Kept'
  BY <1>3 DEF StartEdit, Kept, IsCommit
<1>4. CASE UNCHANGED vars
  BY <1>4 DEF vars, data, txcb, Kept, Busy, IsCommit
<1>5. ASSUME \/ \E p \in Points : \E v \in ContentsOf(p) : EditCandidate(p, v)
             \/ \E p \in Points : DeletionRefused(p)
             \/ Failed \/ DiscardChanges \/ Restart \/ Crash \/ Finish
      PROVE  Kept'
  <2>1. phase' \in {"idle", "down"}
    BY <1>5 DEF EditCandidate, DeletionRefused, Failed, ValidateRefused, CheckFailed,
                RolledBack, EndTransaction, DiscardChanges, Restart, Crash, Finish, Stop
  <2>2. QED
    BY <2>1 DEF Kept, Busy
<1>6. QED
  BY <1>1, <1>2, <1>3, <1>4, <1>5 DEF Next, Carry, InRequest, Failed

\* What a step of the engine is for a client.
LEMMA AtomicStep ==
    ASSUME LeavesAccept, TxInv, TxInv', Kept, [Next]_vars
    PROVE  [Promise!Next]_(Promise!vars)
<1> DEFINE Seen == IF Busy THEN saved ELSE running
<1>1. Seen = saved /\ Seen' = saved'
  <2>1. (TxInv => Seen = saved)'
    BY SavedIsSeen, PTL
  <2>2. QED
    BY <2>1, SavedIsSeen
<1>2. ~Busy' => candidate' \in Trees /\ Shown' = candidate' /\ edits' = NoEdits
  <2>1. (TxInv /\ ~Busy => candidate \in Trees /\ Shown = candidate /\ edits = NoEdits)'
    BY AtRestShown, PTL
  <2>2. QED
    BY <2>1
<1>3. ~Busy => candidate \in Trees /\ Shown = candidate /\ edits = NoEdits
  BY AtRestShown
<1>4. /\ ~Busy => Asked = [busy |-> FALSE, edits |-> NoEdits]
      /\ ~Busy' => Asked' = [busy |-> FALSE, edits |-> NoEdits]
  <2>1. (~Busy => Asked = [busy |-> FALSE, edits |-> NoEdits])'
    BY NothingAsked, PTL
  <2>2. QED
    BY <2>1, NothingAsked
<1>5. Trees \subseteq Promise!Trees /\ saved \in Trees /\ running \in Trees
  BY DEF TxInv, TypeOK, Trees, Promise!Trees, Contents
<1>6. ASSUME UNCHANGED <<target, saved, Shown, Asked>>
      PROVE  [Promise!Next]_(Promise!vars)
  BY <1>1, <1>6 DEF Promise!vars, Shown, Asked
<1>7. CASE InRequest
  <2>1. /\ UNCHANGED <<target, saved, edits>> /\ Busy /\ Busy'
        /\ \A p \in Points :
             \/ candidate'[p] = candidate[p]
             \/ IsCommit /\ p \in DOMAIN edits /\ candidate'[p] \in {edits[p], Marker}
    BY <1>7, InRequestStep
  <2>2. Shown' = Shown
    BY <2>1 DEF Shown, Kept
  <2>3. QED
    BY <1>6, <2>1, <2>2 DEF Asked, IsCommit
<1>8. CASE StartCommit
  <2>1. ~Busy /\ Busy' /\ IsCommit /\ UNCHANGED <<target, saved, candidate>>
    BY <1>8 DEF StartCommit, Busy, data
  <2>2. Shown' = Shown
    <3>1. \A p \in Points : candidate[p] # Marker
      BY <1>3, <2>1, TreeType
    <3>2. QED
      BY <2>1, <3>1 DEF Shown
  <2>3. Promise!Ask
    BY <1>1, <2>1, <2>2 DEF Promise!Ask, Promise!NoEdits, NoEdits, IsCommit, Shown
  <2>4. QED
    BY <2>3 DEF Promise!Next
<1>9. ASSUME NEW e \in Changes, StartEdit(e)
      PROVE  Promise!Next
  <2>1. ~Busy /\ Busy' /\ ~IsCommit /\ UNCHANGED <<target, saved, candidate>> /\ edits' = e
    BY <1>9 DEF StartEdit, Busy, data
  <2>2. Shown' = Shown
    <3>1. \A p \in Points : candidate[p] # Marker
      BY <1>3, <2>1, TreeType
    <3>2. QED
      BY <2>1, <3>1 DEF Shown
  <2>3. e \in Promise!Edits \cup {Promise!NoEdits}
    <3>1. DOMAIN e \in SUBSET Points /\ e \in [DOMAIN e -> Values \cup {Absent}]
      BY ChangesType DEF Contents
    <3>2. CASE DOMAIN e = {}
      BY <3>1, <3>2 DEF Promise!NoEdits
    <3>3. CASE DOMAIN e # {}
      <4>1. \E D \in (SUBSET Points) \ {{}} : e \in [D -> Values \cup {Absent}]
        BY <3>1, <3>3
      <4>2. QED
        BY <4>1 DEF Promise!Edits
    <3>4. QED
      BY <3>2, <3>3
  <2>4. Promise!Ask
    BY <1>1, <2>1, <2>2, <2>3 DEF Promise!Ask, IsCommit, Shown, TxInv, TypeOK
  <2>5. QED
    BY <2>4 DEF Promise!Next
<1>10. CASE Failed
  <2>1. /\ Busy /\ ~Busy' /\ UNCHANGED <<target, saved, candidate>>
        /\ candidate \in Trees
    BY <1>10, FailedStep
  <2>2. Shown' = Shown
    BY <1>2, <2>1, NothingLent
  <2>3. Promise!Fail
    BY <1>1, <1>4, <2>1, <2>2
       DEF Promise!Fail, Promise!NoRequest, Promise!NoEdits, NoEdits, Shown, Asked
  <2>4. QED
    BY <2>3 DEF Promise!Next
<1>11. ASSUME Stop
       PROVE  Promise!Next
  <2>1. /\ ~Busy' /\ UNCHANGED <<target, saved>>
        /\ candidate' = IF IsCommit THEN saved ELSE candidate
    BY <1>11 DEF Stop, Busy
  <2>2. ~IsCommit => Shown = candidate
    BY DEF Shown, TxInv, TypeOK, CandidateLends
  <2>3. Shown' = IF IsCommit THEN saved ELSE Shown
    BY <1>2, <2>1, <2>2
  <2>4. Promise!Restart
    BY <1>1, <1>4, <2>1, <2>3
       DEF Promise!Restart, Promise!NoRequest, Promise!NoEdits, NoEdits, Shown, Asked, IsCommit
  <2>5. QED
    BY <2>4 DEF Promise!Next
<1>12. CASE DiscardChanges \/ \E p \in Points : \E v \in ContentsOf(p) : EditCandidate(p, v)
  <2>1. ~Busy /\ ~Busy' /\ IsCommit /\ UNCHANGED <<target, saved, edits>>
    BY <1>12 DEF DiscardChanges, EditCandidate, Busy, txcb
  <2>2. Shown' \in Promise!Trees
    BY <1>2, <1>5, <2>1
  <2>3. Promise!EditCandidate
    BY <1>1, <1>4, <2>1, <2>2 DEF Promise!EditCandidate, Shown, Asked, IsCommit
  <2>4. QED
    BY <2>3 DEF Promise!Next
<1>13. CASE Finish
  <2>1. /\ Busy /\ ~Busy' /\ target' = target /\ saved' = running
        /\ candidate' = IF IsCommit THEN running ELSE candidate
        /\ phase = "commit" /\ todo = {}
    BY <1>13 DEF Finish, EndTransaction, Busy, TxInv, PhasesInOrder
  <2>2. \A p \in Points : Standing(p) <=> p \in DOMAIN edits
    <3>1. \A p \in DOMAIN edits : Mentions(p)
      BY <2>1 DEF TxInv, PhasesInOrder
    <3>2. \A i \in Records : Stands(i) /\ undoQ[i].point \in DOMAIN edits
      BY <2>1 DEF Stands, TxInv, RecordsAreEdits
    <3>3. QED
      BY <3>1, <3>2 DEF Standing, Mentions, Records
  <2>3. \A p \in Points : running[p] = IF p \in DOMAIN edits THEN edits[p] ELSE saved[p]
    BY <2>2 DEF TxInv, RunningShows
  <2>4. running = [p \in Points |-> running[p]]
    BY <1>5 DEF Trees
  <2>5. CASE IsCommit
    <3>1. \A p \in Points : running[p] = IF candidate[p] = Marker THEN edits[p] ELSE candidate[p]
      BY <2>1, <2>2, <2>3, <2>5 DEF Kept, TxInv, CandidateLends
    <3>2. Shown = running
      BY <2>4, <3>1 DEF Shown
    <3>3. Shown' = running
      BY <1>2, <2>1, <2>5
    <3>4. Promise!Commit
      BY <1>1, <1>4, <2>1, <2>5, <3>2, <3>3
         DEF Promise!Commit, Promise!NoRequest, Promise!NoEdits, NoEdits, Shown, Asked, IsCommit
    <3>5. QED
      BY <3>4 DEF Promise!Next
  <2>6. CASE ~IsCommit
    <3>1. Shown = candidate
      BY <2>6 DEF Shown, TxInv, TypeOK, CandidateLends
    <3>2. Shown' = Shown
      BY <1>2, <2>1, <2>6, <3>1
    <3>3. running = Promise!Overridden(saved, edits)
      BY <2>3, <2>4 DEF Promise!Overridden
    <3>4. Promise!EditRunning
      BY <1>1, <1>4, <2>1, <2>6, <3>2, <3>3
         DEF Promise!EditRunning, Promise!NoRequest, Promise!NoEdits, NoEdits, Shown, Asked,
             IsCommit, TxInv, TypeOK
    <3>5. QED
      BY <3>4 DEF Promise!Next
  <2>7. QED
    BY <2>5, <2>6
<1>14. CASE Restart
  <2>1. ~Busy /\ ~Busy' /\ UNCHANGED <<target, saved, candidate, edits>>
    BY <1>14 DEF Restart, Busy, data, txcb
  <2>2. QED
    BY <1>2, <1>3, <1>4, <1>6, <2>1
<1>15. CASE UNCHANGED vars
  BY <1>6, <1>15 DEF vars, data, txcb, Shown, Asked, Busy, IsCommit
<1>16. CASE Crash \/ \E p \in Points : DeletionRefused(p)
  BY <1>11, <1>16 DEF Crash, DeletionRefused
<1>17. QED
  BY <1>7, <1>8, <1>9, <1>10, <1>12, <1>13, <1>14, <1>15, <1>16
     DEF Next, Carry, InRequest, Failed

LEMMA AtomicInit == Init => Promise!Init /\ Kept
<1> SUFFICES ASSUME Init PROVE Promise!Init /\ Kept
  OBVIOUS
<1>1. TxInv /\ ~Busy
  BY TxInit DEF Init, Busy
<1>2. candidate \in Trees /\ Shown = candidate
  BY <1>1, AtRestShown
<1>3. \A t \in Trees : t \in Promise!Trees
  BY DEF Trees, Promise!Trees, Contents
<1>4. Asked = [busy |-> FALSE, edits |-> NoEdits]
  BY <1>1, NothingAsked
<1>5. Promise!Init
  BY <1>1, <1>2, <1>3, <1>4
     DEF Init, Promise!Init, Promise!NoRequest, Promise!NoEdits, NoEdits, Shown, Asked, IsCommit
<1>6. QED
  BY <1>1, <1>5 DEF Kept

\* If leaves do not refuse VALIDATE and APPLY, requests that change running do so in
\* full or not at all and a failed commit leaves the candidate's edits alone, whatever
\* other callbacks refuse, the rollback's included, and wherever the server stops.
THEOREM Atomicity == LeavesAccept => (Spec => AllOrNothing)
<1> SUFFICES ASSUME LeavesAccept
             PROVE  Spec => AllOrNothing
  OBVIOUS
<1>1. Init => Promise!Init /\ TxInv /\ Kept
  BY AtomicInit, TxInit
<1>2. TxInv /\ TxInv' /\ Kept /\ [Next]_vars => [Promise!Next]_(Promise!vars)
  BY AtomicStep
<1>3. TxInv /\ Kept /\ [Next]_vars => TxInv' /\ Kept'
  BY TxNext, KeptNext
<1>4. QED
  BY <1>1, <1>2, <1>3, PTL DEF Spec, AllOrNothing, Promise!Spec

=============================================================================
