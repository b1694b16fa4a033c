--------------------------- MODULE Promotion_proofs --------------------------
(***************************************************************************)
(* Proofs about Promotion, for any number of concurrent promoters, process *)
(* ids and candidate roots: the window between the two renames has one     *)
(* owner, no version is lost, and promotion implements PublishedFamily.    *)
(***************************************************************************)
EXTENDS Promotion, TLAPS

\* Each candidate root has one owner, each process id one live process.
OwnerInv ==
  /\ \A p \in Promoters :
       /\ pc[p] = "idle" => root[p] = None
       /\ pc[p] \in Live \cup {"done", "stuck"} => root[p] \in Roots /\ pid[p] \in Pids
       /\ root[p] # None => root[p] \in made
  /\ \A p, q \in Promoters : p # q /\ root[p] = root[q] => root[p] = None
  /\ \A p, q \in Promoters : p # q /\ pc[p] \in Live /\ pc[q] \in Live => pid[p] # pid[q]

\* Only an applied promotion goes on after the validation, with its own copy.
PreparedInv ==
  \A p \in Promoters :
    /\ pc[p] \in {"validated", "preparing", "prepared", "stuck"} \cup Window => apply[p]
    /\ pc[p] \in {"prepared"} \cup Window => prepared[pid[p]] = p

\* A candidate root holds no backup before its owner moves the family away.
BackupInv ==
  /\ \A r \in Roots \ made : backup[r] = None
  /\ \A p \in Promoters : pc[p] \in Live \ Window => backup[root[p]] = None
  /\ \A p \in Published \cup Opened : backup[root[p]] \in Published \cup {Original}

\* The destination is missing exactly while one promoter has the window open.
WindowInv ==
  /\ destination \in Published \cup {Original, None}
  /\ destination = None <=> Opened # {}
  /\ \A p, q \in Opened : p = q

IInv == OwnerInv /\ PreparedInv /\ BackupInv /\ WindowInv /\ NoVersionIsLost

LEMMA TypeInit == Init => TypeOK
  BY PromotionAssumption DEF Init, TypeOK, Versions, Live, Over, Window

LEMMA TypeStep == TypeOK /\ IInv /\ [Next]_vars => TypeOK'
<1> SUFFICES ASSUME TypeOK, IInv, [Next]_vars PROVE TypeOK'
  OBVIOUS
<1>1. CASE UNCHANGED vars
  BY <1>1 DEF vars, TypeOK
<1>2. ASSUME NEW p \in Promoters, Begin(p)
      PROVE  TypeOK'
  BY <1>2 DEF Begin, Create, CreateRefused, Goto, TypeOK, Live, Over, Window
<1>3. ASSUME NEW p \in Promoters, Step(p)
      PROVE  TypeOK'
  <2> p \in Versions /\ Versions \cup {None} \subseteq Versions \cup {None, Torn}
    BY DEF Versions
  <2>1. CASE CopyFamily(p) \/ Validate(p)
    BY <2>1 DEF CopyFamily, Validate, Goto, TypeOK, Live, Over, Window
  <2>2. CASE BeginPrepare(p) \/ EndPrepare(p)
    BY <2>2 DEF BeginPrepare, EndPrepare, Goto, TypeOK, Live, Over, Window
  <2>3. CASE MoveAway(p)
    BY <2>3 DEF MoveAway, Goto, TypeOK, Live, Over, Window
  <2>4. CASE MoveIn(p)
    <3>1. prepared[pid[p]] = p
      BY <2>4 DEF MoveIn, IInv, PreparedInv, Window
    <3> QED
      BY <2>4, <3>1 DEF MoveIn, Goto, TypeOK, Live, Over, Window
  <2>5. CASE Restore(p)
    <3>1. backup[root[p]] \in Versions
      BY <2>5 DEF Restore, IInv, BackupInv, Opened, Published, Window, Versions
    <3> QED
      BY <2>5, <3>1 DEF Restore, Goto, TypeOK, Live, Over, Window
  <2> QED
    BY <1>3, <2>1, <2>2, <2>3, <2>4, <2>5 DEF Step
<1>4. ASSUME NEW p \in Promoters, Fault(p)
      PROVE  TypeOK'
  BY <1>4 DEF Fault, MoveInFails, Stop, StopInWindow, Goto, TypeOK, Live, Over, Window
<1> QED
  BY <1>1, <1>2, <1>3, <1>4 DEF Next, Terminating

LEMMA InvInit == Init => IInv
  BY PromotionAssumption
     DEF Init, IInv, OwnerInv, PreparedInv, BackupInv, WindowInv, NoVersionIsLost, Published,
         Opened, Live, Window, Versions

LEMMA InvStep == TypeOK /\ IInv /\ [Next]_vars => IInv'
<1> SUFFICES ASSUME TypeOK, IInv, [Next]_vars PROVE IInv'
  OBVIOUS
<1> USE PromotionAssumption
    DEF TypeOK, IInv, OwnerInv, PreparedInv, BackupInv, WindowInv, NoVersionIsLost, Published,
        Opened, Live, Over, Window, Versions, Goto
<1>1. CASE UNCHANGED vars
  BY <1>1 DEF vars
<1>2. ASSUME NEW p \in Promoters, NEW r \in Roots, NEW i \in Pids, Create(p, r, i)
      PROVE  IInv'
  BY <1>2 DEF Create
<1>3. ASSUME NEW p \in Promoters, NEW r \in Roots, CreateRefused(p, r)
      PROVE  IInv'
  BY <1>3 DEF CreateRefused
<1>4. ASSUME NEW p \in Promoters, CopyFamily(p)
      PROVE  IInv'
  BY <1>4 DEF CopyFamily
<1>5. ASSUME NEW p \in Promoters, Validate(p)
      PROVE  IInv'
  BY <1>5 DEF Validate
<1>6. ASSUME NEW p \in Promoters, BeginPrepare(p)
      PROVE  IInv'
  BY <1>6 DEF BeginPrepare
<1>7. ASSUME NEW p \in Promoters, EndPrepare(p)
      PROVE  IInv'
  BY <1>7 DEF EndPrepare
<1>8. ASSUME NEW p \in Promoters, MoveAway(p)
      PROVE  IInv'
  BY <1>8 DEF MoveAway
<1>9. ASSUME NEW p \in Promoters, MoveIn(p)
      PROVE  IInv'
  BY <1>9 DEF MoveIn
<1>10. ASSUME NEW p \in Promoters, Restore(p)
       PROVE  IInv'
  BY <1>10 DEF Restore
<1>11. ASSUME NEW p \in Promoters, Fault(p)
       PROVE  IInv'
  BY <1>11 DEF Fault, MoveInFails, Stop, StopInWindow
<1> HIDE DEF IInv, TypeOK
<1> QED
  BY <1>1, <1>2, <1>3, <1>4, <1>5, <1>6, <1>7, <1>8, <1>9, <1>10, <1>11
     DEF Next, Begin, Step, Terminating

LEMMA Invariance == Spec => [](TypeOK /\ IInv)
<1>1. Init => TypeOK /\ IInv
  BY TypeInit, InvInit
<1>2. TypeOK /\ IInv /\ [Next]_vars => (TypeOK /\ IInv)'
  BY TypeStep, InvStep
<1> QED
  BY <1>1, <1>2, PTL DEF Spec

\* The directories hold what they may hold.
THEOREM TypeCorrect == Spec => []TypeOK
  BY Invariance, PTL

\* Two promoters never both move the family away (destination.rename in _apply).
THEOREM WindowIsOwnedHolds == Spec => []WindowIsOwned
<1>1. TypeOK /\ IInv => WindowIsOwned
  <2> SUFFICES ASSUME TypeOK, IInv, destination = None
               PROVE  /\ \E p \in Opened : Opened = {p} /\ backup[root[p]] # None
                      /\ \A p \in Opened : backup[root[p]] \in Published \cup {Original}
    BY DEF WindowIsOwned
  <2>1. PICK p \in Opened : TRUE
    BY DEF IInv, WindowInv
  <2>2. Opened = {p}
    BY <2>1 DEF IInv, WindowInv
  <2>3. None \notin Published \cup {Original}
    BY PromotionAssumption DEF Published, Versions
  <2> QED
    BY <2>2, <2>3 DEF IInv, BackupInv
<1> QED
  BY <1>1, Invariance, PTL

\* What is published was staged, validated and applied by one promoter.
THEOREM PublishedIsValidatedHolds == Spec => []PublishedIsValidated
<1>1. IInv => PublishedIsValidated
  BY DEF IInv, WindowInv, PublishedIsValidated
<1> QED
  BY <1>1, Invariance, PTL

\* No published version is ever lost (the backups of _apply).
THEOREM NoVersionIsLostHolds == Spec => []NoVersionIsLost
<1>1. IInv => NoVersionIsLost
  BY DEF IInv
<1> QED
  BY <1>1, Invariance, PTL

\* A promoter whose second rename failed finds the destination free, so its
\* Restore never leaves the family moved away.
THEOREM RestoreFindsRoomHolds == Spec => []RestoreFindsRoom
<1>1. IInv => RestoreFindsRoom
  BY DEF IInv, WindowInv, RestoreFindsRoom, Opened
<1> QED
  BY Invariance, <1>1, PTL

-----------------------------------------------------------------------------
(* Refinement: of all the steps only the second rename publishes.          *)

LEMMA FamilyInit == Init => Family!Init
  BY PromotionAssumption DEF Init, Family!Init, current, retained, Published, Versions

\* While the window is open its owner holds the current version.
LEMMA OwnerHoldsCurrent ==
  ASSUME TypeOK, IInv, NEW p \in Opened
  PROVE  destination = None /\ Opened = {p} /\ current = backup[root[p]]
<1>1. destination = None /\ Opened = {p}
  BY DEF IInv, WindowInv
<1>2. (CHOOSE q \in Opened : TRUE) = p
  BY <1>1
<1> QED
  BY <1>1, <1>2 DEF current

\* The current version and the retained ones were published before.
LEMMA FamilyIsPublished ==
  ASSUME TypeOK, IInv
  PROVE  retained \cup {current} \subseteq Published \cup {Original}
<1>1. retained \subseteq Published \cup {Original}
  BY DEF retained, IInv, BackupInv
<1>2. CASE destination # None
  BY <1>1, <1>2 DEF current, IInv, WindowInv
<1>3. CASE destination = None
  <2>1. PICK p \in Opened : TRUE
    BY <1>3 DEF IInv, WindowInv
  <2> QED
    BY <1>1, <2>1, OwnerHoldsCurrent DEF IInv, BackupInv
<1> QED
  BY <1>2, <1>3

\* A step that changes neither what was published nor the backups of it.
LEMMA RetainedUnchanged ==
  ASSUME TypeOK, IInv, Published' = Published,
         \A p \in Published : backup'[root'[p]] = backup[root[p]]
  PROVE  retained' = retained
  BY DEF retained

LEMMA FamilyStep == TypeOK /\ IInv /\ [Next]_vars => [Family!Next]_<<current, retained>>
<1> SUFFICES ASSUME TypeOK, IInv, [Next]_vars
             PROVE  [Family!Next]_<<current, retained>>
  OBVIOUS
<1> IInv' /\ TypeOK'
  BY InvStep, TypeStep
<1> DEFINE Stutters == UNCHANGED <<current, retained>>
<1>1. ASSUME UNCHANGED <<destination, backup>>, Published' = Published, Opened' = Opened,
             \A p \in Published \cup Opened : root'[p] = root[p]
      PROVE  Stutters
  <2>1. retained' = retained
    BY <1>1, RetainedUnchanged
  <2>2. CASE destination # None
    BY <1>1, <2>1, <2>2 DEF current
  <2>3. CASE destination = None
    <3>1. PICK p \in Opened : TRUE
      BY <2>3 DEF IInv, WindowInv
    <3>2. current = backup[root[p]] /\ Opened = {p}
      BY <3>1, OwnerHoldsCurrent
    <3>3. current' = backup'[root'[p]]
      <4>1. (CHOOSE q \in Opened' : TRUE) = p
        BY <1>1, <3>2
      <4> QED
        BY <1>1, <2>3, <4>1 DEF current
    <3> QED
      BY <1>1, <2>1, <3>2, <3>3
  <2> QED
    BY <2>2, <2>3
<1>2. CASE UNCHANGED vars
  BY <1>1, <1>2 DEF vars, Published, Opened
<1>3. ASSUME NEW p \in Promoters, Begin(p)
      PROVE  Stutters
  BY <1>1, <1>3 DEF Begin, Create, CreateRefused, Goto, TypeOK, Published, Opened, Window
<1>4. ASSUME NEW p \in Promoters,
             CopyFamily(p) \/ Validate(p) \/ BeginPrepare(p) \/ EndPrepare(p) \/ Fault(p)
      PROVE  Stutters
  BY <1>1, <1>4
     DEF CopyFamily, Validate, BeginPrepare, EndPrepare, Fault, MoveInFails, Stop, StopInWindow,
         Goto, TypeOK, Published, Opened, Live, Window
<1>5. ASSUME NEW p \in Promoters, MoveAway(p)
      PROVE  Stutters
  <2>1. CASE destination = None
    BY <1>1, <1>5, <2>1 DEF MoveAway, Goto, TypeOK, Published, Opened, Window
  <2>2. CASE destination # None
    <3>1. /\ backup' = [backup EXCEPT ![root[p]] = destination] /\ destination' = None
          /\ pc' = [pc EXCEPT ![p] = "moved"] /\ UNCHANGED <<root, apply>>
          /\ pc[p] = "prepared" /\ root[p] \in Roots
      BY <1>5, <2>2 DEF MoveAway, Goto, IInv, OwnerInv, Live
    <3>2. p \in Opened' /\ Published' = Published
      BY <3>1 DEF TypeOK, Opened, Published, Window
    <3>3. current' = backup'[root'[p]]
      <4>1. Opened' = {p} /\ destination' = None
        BY <3>1, <3>2 DEF IInv, WindowInv
      <4> QED
        BY <4>1 DEF current
    <3>4. current' = current
      BY <2>2, <3>1, <3>3 DEF TypeOK, current
    <3>5. \A q \in Published : backup'[root'[q]] = backup[root[q]]
      BY <3>1, PromotionAssumption DEF Published, TypeOK, IInv, OwnerInv, Live, Window
    <3> QED
      BY <3>2, <3>4, <3>5, RetainedUnchanged
  <2> QED
    BY <2>1, <2>2
<1>6. ASSUME NEW p \in Promoters, MoveIn(p)
      PROVE  Family!Publish(p)
  <2>1. p \in Opened /\ apply[p]
    BY <1>6 DEF MoveIn, Opened, Window, IInv, PreparedInv
  <2>2. destination = None /\ current = backup[root[p]]
    BY <2>1, OwnerHoldsCurrent
  <2>3. destination' = p /\ pc' = [pc EXCEPT ![p] = "done"] /\ UNCHANGED <<root, apply, backup>>
    BY <1>6, <2>2 DEF MoveIn, Goto, IInv, PreparedInv, Window
  <2>4. Published' = Published \cup {p}
    BY <2>1, <2>3 DEF Published, TypeOK
  <2>5. retained' = retained \cup {current}
    BY <2>2, <2>3, <2>4 DEF retained
  <2>6. p # None
    BY PromotionAssumption DEF Versions
  <2>7. current' = p
    BY <2>3, <2>6 DEF current
  <2>8. p \notin Published \cup {Original}
    BY <1>6, PromotionAssumption DEF MoveIn, Published
  <2> QED
    BY <2>5, <2>7, <2>8, FamilyIsPublished DEF Family!Publish
<1>7. ASSUME NEW p \in Promoters, Restore(p)
      PROVE  Stutters
  <2>1. p \in Opened
    BY <1>7 DEF Restore, Opened, Window
  <2>2. destination = None /\ current = backup[root[p]]
    BY <2>1, OwnerHoldsCurrent
  <2>3. /\ destination' = current /\ pc' = [pc EXCEPT ![p] = "failed"] /\ UNCHANGED <<root, apply>>
        /\ backup' = [backup EXCEPT ![root[p]] = None]
        /\ pc[p] = "restoring" /\ root[p] \in Roots
    BY <1>7, <2>2 DEF Restore, Goto, IInv, OwnerInv, Live, Window
  <2>4. current # None
    BY FamilyIsPublished, PromotionAssumption DEF Published, Versions
  <2>5. current' = current
    BY <2>3, <2>4 DEF current
  <2>6. Published' = Published
    BY <2>3 DEF Published, TypeOK
  <2>7. \A q \in Published : backup'[root'[q]] = backup[root[q]]
    BY <2>3, PromotionAssumption DEF Published, TypeOK, IInv, OwnerInv, Live, Window
  <2> QED
    BY <2>5, <2>6, <2>7, RetainedUnchanged
<1>8. Promoters \subseteq Versions
  BY DEF Versions
<1> QED
  BY <1>2, <1>3, <1>4, <1>5, <1>6, <1>7, <1>8 DEF Next, Step, Terminating, Family!Next

\* Promotion is, in its logical content, an atomic publication.
THEOREM PromotionImplementsFamily == Spec => AtomicPublication
<1>1. Init => Family!Init
  BY FamilyInit
<1>2. TypeOK /\ IInv /\ [Next]_vars => [Family!Next]_<<current, retained>>
  BY FamilyStep
<1> QED
  BY <1>1, <1>2, Invariance, PTL DEF Spec, AtomicPublication, Family!Spec

=============================================================================
