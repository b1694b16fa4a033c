------------------------------ MODULE Promotion ------------------------------
(***************************************************************************)
(* Promotion of live evidence into the retained results of one family      *)
(* (promotion.py: promote and _apply), by any number of promoter           *)
(* processes.  Directories are moved and copied, never edited in place:    *)
(*   destination                       results/<family>                    *)
(*   made, backup[r]                   candidate root r, and its           *)
(*                                     previous/<family>                   *)
(*   prepared[i]                       results/.<family>.promotion-<pid i> *)
(* A version of the family is named after the promoter that staged it; a   *)
(* directory holds a version, nothing (None) or an unfinished copy (Torn). *)
(* A process may stop anywhere: by an exception, a signal or a crash.      *)
(***************************************************************************)
EXTENDS Naturals, FiniteSets

CONSTANTS
  Promoters,   \* processes that run promote once
  Roots,       \* candidate roots they are given
  Pids,        \* process ids the kernel hands out, reused after the end
  Original,    \* the version published before all of them
  None, Torn   \* no directory; an unfinished copy

Versions == Promoters \cup {Original}

ASSUME PromotionAssumption ==
  /\ Original \notin Promoters
  /\ None \notin Versions /\ Torn \notin Versions /\ None # Torn
  /\ None \notin Roots /\ None \notin Pids

VARIABLES
  pc,           \* position of each promoter
  apply,        \* --apply was given
  root, pid,    \* its candidate root and its process id
  destination,  \* content of results/<family>
  made,         \* candidate roots that exist
  backup,       \* content of previous/<family> under each candidate root
  prepared      \* content of the prepared directory of each process id

vars == <<pc, apply, root, pid, destination, made, backup, prepared>>

Window == {"moved", "restoring"}     \* between the two renames of _apply
Live   == {"created", "copied", "validated", "preparing", "prepared"} \cup Window
\* "failed": ended, with the destination in place; "stuck": ended without.
Over   == {"done", "failed", "stuck"}

TypeOK ==
  /\ pc \in [Promoters -> {"idle"} \cup Live \cup Over]
  /\ apply \in [Promoters -> BOOLEAN]
  /\ root \in [Promoters -> Roots \cup {None}]
  /\ pid \in [Promoters -> Pids \cup {None}]
  /\ destination \in Versions \cup {None}
  /\ made \subseteq Roots
  /\ backup \in [Roots -> Versions \cup {None}]
  /\ prepared \in [Pids -> Versions \cup {None, Torn}]

Init ==
  /\ pc = [p \in Promoters |-> "idle"]
  /\ apply \in [Promoters -> BOOLEAN]
  /\ root = [p \in Promoters |-> None]
  /\ pid = [p \in Promoters |-> None]
  /\ destination = Original
  /\ made = {}
  /\ backup = [r \in Roots |-> None]
  /\ prepared = [i \in Pids |-> None]

-----------------------------------------------------------------------------

Goto(p, step) == pc' = [pc EXCEPT ![p] = step]

\* The candidate root must not exist; mkdir makes it this promoter's own.
Create(p, r, i) ==
  /\ pc[p] = "idle" /\ r \notin made
  /\ \A q \in Promoters : pc[q] \in Live => pid[q] # i
  /\ made' = made \cup {r}
  /\ root' = [root EXCEPT ![p] = r]
  /\ pid' = [pid EXCEPT ![p] = i]
  /\ Goto(p, "created")
  /\ UNCHANGED <<apply, destination, backup, prepared>>

\* The candidate root exists already: ValueError (or FileExistsError).
CreateRefused(p, r) ==
  /\ pc[p] = "idle" /\ r \in made
  /\ Goto(p, "failed")
  /\ UNCHANGED <<apply, root, pid, destination, made, backup, prepared>>

\* copytree(destination, candidate) needs a destination.
CopyFamily(p) ==
  /\ pc[p] = "created"
  /\ Goto(p, IF destination # None THEN "copied" ELSE "failed")
  /\ UNCHANGED <<apply, root, pid, destination, made, backup, prepared>>

\* Defect: publish without --apply.
Validate_IgnoresApply(p) ==
  /\ pc[p] = "copied"
  /\ Goto(p, "validated")
  /\ UNCHANGED <<apply, root, pid, destination, made, backup, prepared>>

\* The new raw evidence is staged, the family is built and validated.
\* Without --apply that is all.
Validate(p) ==
  /\ pc[p] = "copied"
  /\ Goto(p, IF apply[p] THEN "validated" ELSE "done")
  /\ UNCHANGED <<apply, root, pid, destination, made, backup, prepared>>

\* _apply: neither the backup nor the prepared directory may exist yet.
BeginPrepare(p) ==
  /\ pc[p] = "validated"
  /\ IF backup[root[p]] = None /\ prepared[pid[p]] = None
       THEN prepared' = [prepared EXCEPT ![pid[p]] = Torn] /\ Goto(p, "preparing")
       ELSE Goto(p, "failed") /\ UNCHANGED prepared
  /\ UNCHANGED <<apply, root, pid, destination, made, backup>>

\* copytree(candidate, prepared) is complete.
EndPrepare(p) ==
  /\ pc[p] = "preparing"
  /\ prepared' = [prepared EXCEPT ![pid[p]] = p]
  /\ Goto(p, "prepared")
  /\ UNCHANGED <<apply, root, pid, destination, made, backup>>

\* Defect: a missing destination goes unnoticed.
MoveAway_Unguarded(p) ==
  /\ pc[p] = "prepared"
  /\ backup' = [backup EXCEPT ![root[p]] = destination]
  /\ destination' = None
  /\ Goto(p, "moved")
  /\ UNCHANGED <<apply, root, pid, made, prepared>>

\* Defect: the previous family is removed, not kept.
MoveAway_Deletes(p) ==
  /\ pc[p] = "prepared" /\ destination # None
  /\ destination' = None
  /\ Goto(p, "moved")
  /\ UNCHANGED <<apply, root, pid, made, backup, prepared>>

\* destination.rename(backup); there may be no destination any more.
MoveAway(p) ==
  /\ pc[p] = "prepared"
  /\ IF destination # None
       THEN /\ backup' = [backup EXCEPT ![root[p]] = destination]
            /\ destination' = None
            /\ Goto(p, "moved")
       ELSE Goto(p, "failed") /\ UNCHANGED <<backup, destination>>
  /\ UNCHANGED <<apply, root, pid, made, prepared>>

\* prepared.rename(destination); a destination in the way is an error.
MoveIn(p) ==
  /\ pc[p] = "moved"
  /\ IF destination = None
       THEN /\ destination' = prepared[pid[p]]
            /\ prepared' = [prepared EXCEPT ![pid[p]] = None]
            /\ Goto(p, "done")
       ELSE Goto(p, "restoring") /\ UNCHANGED <<destination, prepared>>
  /\ UNCHANGED <<apply, root, pid, made, backup>>

\* Defect: no except clause.
MoveInFails_NoRestore(p) ==
  /\ pc[p] = "moved"
  /\ Goto(p, "failed")
  /\ UNCHANGED <<apply, root, pid, destination, made, backup, prepared>>

\* Any other OSError of that rename.
MoveInFails(p) ==
  /\ pc[p] = "moved"
  /\ Goto(p, "restoring")
  /\ UNCHANGED <<apply, root, pid, destination, made, backup, prepared>>

\* Defect: the except clause moves the wrong directory back.
Restore_Prepared(p) ==
  /\ pc[p] = "restoring" /\ destination = None
  /\ destination' = prepared[pid[p]]
  /\ Goto(p, "failed")
  /\ UNCHANGED <<apply, root, pid, made, backup, prepared>>

\* The except clause: backup.rename(destination), then raise.
Restore(p) ==
  /\ pc[p] = "restoring"
  /\ IF destination = None
       THEN /\ destination' = backup[root[p]]
            /\ backup' = [backup EXCEPT ![root[p]] = None]
            /\ Goto(p, "failed")
       ELSE Goto(p, "stuck") /\ UNCHANGED <<destination, backup>>
  /\ UNCHANGED <<apply, root, pid, made, prepared>>

\* An exception, a signal or a crash outside the window: what was written stays.
Stop(p) ==
  /\ pc[p] \in Live \ Window
  /\ Goto(p, "failed")
  /\ UNCHANGED <<apply, root, pid, destination, made, backup, prepared>>

\* A crash or a KeyboardInterrupt inside the window (the clause only catches
\* Exception), or a restoring rename that fails as well.
StopInWindow(p) ==
  /\ pc[p] \in Window
  /\ Goto(p, "stuck")
  /\ UNCHANGED <<apply, root, pid, destination, made, backup, prepared>>

-----------------------------------------------------------------------------

Step(p) ==
  \/ CopyFamily(p) \/ Validate(p) \/ BeginPrepare(p) \/ EndPrepare(p)
  \/ MoveAway(p) \/ MoveIn(p) \/ Restore(p)

Fault(p) == MoveInFails(p) \/ Stop(p) \/ StopInWindow(p)

Begin(p) ==
  \/ \E r \in Roots, i \in Pids : Create(p, r, i)
  \/ \E r \in Roots : CreateRefused(p, r)

Terminating == (\A p \in Promoters : pc[p] \in Over) /\ UNCHANGED vars

Next == (\E p \in Promoters : Begin(p) \/ Step(p) \/ Fault(p)) \/ Terminating

Spec == Init /\ [][Next]_vars

\* A promoter that is not stopped keeps running.
FairSpec == Spec /\ \A p \in Promoters : WF_vars(Step(p))

-----------------------------------------------------------------------------
(* The published version, as PublishedFamily understands it.               *)

Published == {p \in Promoters : pc[p] = "done" /\ apply[p]}
Opened    == {p \in Promoters : pc[p] \in Window \cup {"stuck"}}

\* While the destination is missing, the version it held is still the current
\* one: it sits in the backup of the promoter that moved it.
current  == IF destination # None THEN destination
            ELSE backup[root[CHOOSE p \in Opened : TRUE]]
retained == {backup[root[p]] : p \in Published}

Family == INSTANCE PublishedFamily
            WITH Versions <- Versions, Original <- Original,
                 current <- current, retained <- retained

-----------------------------------------------------------------------------
(* Properties.                                                             *)

\* The destination is missing only while, or because, exactly one promoter is
\* between the two renames, and then its backup holds a published version:
\* concurrent promoters cannot both move the family away.
WindowIsOwned ==
  destination = None => /\ \E p \in Opened : Opened = {p} /\ backup[root[p]] # None
                        /\ \A p \in Opened : backup[root[p]] \in Published \cup {Original}

\* What is published was staged, validated and applied by one promoter that came
\* to its end: never an unfinished copy, never what a dead promoter with the same
\* process id left behind, never a candidate staged without --apply.
PublishedIsValidated == destination \in Published \cup {Original, None}

\* Every version that was ever published is the destination or a backup: neither a
\* crash, nor a restore, nor another promoter loses one.
NoVersionIsLost ==
  \A v \in Published \cup {Original} :
    destination = v \/ \E r \in Roots : backup[r] = v

\* A directory in the way of a rename is never there: the failed rename of
\* prepared can always be undone.
RestoreFindsRoom == \A p \in Promoters : pc[p] \in Window => destination = None

\* Promotion implements the atomic publication of PublishedFamily.
AtomicPublication == Family!Spec

\* Once the family is moved away it comes back, unless the promoter is stopped
\* inside the window.
WindowCloses == destination = None ~> (destination # None \/ \E p \in Promoters : pc[p] = "stuck")

\* What results/README.md:54 and scripts/README.md:31 say, "atomically replace one
\* validated family": a reader finds a version at the destination at all times.
DestinationAlwaysPublished == destination # None

=============================================================================
