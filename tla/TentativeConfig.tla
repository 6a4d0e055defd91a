-------------------------- MODULE TentativeConfig --------------------------
(***************************************************************************)
(* What a confirmed commit promises, whatever sessions, locks and files    *)
(* are behind it.  A change of the running configuration is either final,  *)
(* and saved with the step that makes it, or tentative: then the           *)
(* configuration to fall back to is kept, nothing is saved, and the change *)
(* ends confirmed, reverted, or lost in a restart.                         *)
(***************************************************************************)

CONSTANTS
    Config,     \* the configurations
    None        \* no change is pending

VARIABLES
    running,    \* the configuration in force
    saved,      \* the configuration the next restart loads
    pending     \* what a revert restores, None when nothing is tentative

vars == <<running, saved, pending>>

TypeOK ==
    /\ running \in Config
    /\ saved \in Config
    /\ pending \in Config \cup {None}

Init ==
    /\ running \in Config
    /\ saved = running
    /\ pending = None

\* A final change.
Commit ==
    /\ pending = None
    /\ running' \in Config
    /\ saved' = running'
    /\ UNCHANGED pending

\* A tentative change: the configuration it replaces is kept.
Propose ==
    /\ pending = None
    /\ running' \in Config
    /\ pending' = running
    /\ UNCHANGED saved

\* More changes under the same fallback.
Extend ==
    /\ pending # None
    /\ running' \in Config
    /\ UNCHANGED <<saved, pending>>

\* The tentative change, possibly with a last change on top, becomes final.
Confirm ==
    /\ pending # None
    /\ running' \in Config
    /\ saved' = running'
    /\ pending' = None

Revert ==
    /\ pending # None
    /\ running' = pending
    /\ pending' = None
    /\ UNCHANGED saved

Restart ==
    /\ running' = saved
    /\ pending' = None
    /\ UNCHANGED saved

Next == Commit \/ Propose \/ Extend \/ Confirm \/ Revert \/ Restart

Spec == Init /\ [][Next]_vars
=============================================================================
