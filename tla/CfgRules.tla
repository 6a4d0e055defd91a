------------------------------ MODULE CfgRules ------------------------------
(***************************************************************************)
(* The access rules of a configuration datastore, cfg.c.  A datastore is   *)
(* unlocked (READY), covered in part by partial locks (PLOCK) or held as a *)
(* whole by one session (FLOCK).  Every operation of the server asks these *)
(* rules before it touches a datastore.  The states of a server that has   *)
(* not booted (NONE, INIT, CLEANUP) are left out: no session exists then.  *)
(***************************************************************************)

CONSTANTS
    Sessions,       \* the session ids the server hands out
    NoSession       \* session id 0, the server itself

ASSUME NoSessionAssumption == NoSession \notin Sessions

\* A datastore's lock state and the session that holds its global lock.
CfgEntries == [state : {"READY", "PLOCK", "FLOCK"},
               locked_by : Sessions \cup {NoSession}]

Unlocked == [state |-> "READY", locked_by |-> NoSession]

LockedBy(s) == [state |-> "FLOCK", locked_by |-> s]

\* A global lock needs an unlocked datastore, and a candidate without edits.
OkToLock(entry, hasEdits) == entry.state = "READY" /\ ~hasEdits

OkToUnlock(entry, s) == entry.state = "FLOCK" /\ entry.locked_by = s

\* Partial locks are checked node by node, so PLOCK does not stop a writer.
OkToWrite(entry, s) == entry.state = "FLOCK" => entry.locked_by = s

OkToPartialLock(entry) == entry.state # "FLOCK"

\* Faulty variant: the owner is left in the entry.
ReleaseState(entry, s) ==
    IF entry.locked_by = s THEN [entry EXCEPT !.state = "READY"] ELSE entry

\* What the end of session s does to the lock of one datastore.
ReleaseLock(entry, s) == IF entry.locked_by = s THEN Unlocked ELSE entry
=============================================================================
