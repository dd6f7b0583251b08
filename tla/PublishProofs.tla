----------------------------- MODULE PublishProofs ----------------------------
(* For any number of publishers: a bundle survives, is put back, and only       *)
(* verified bundles are served.  The invariant follows a bundle on its way from *)
(* the staging directory over the destination into a backup.                    *)
EXTENDS Publish, TLAPS

\* The publisher's own bundle has been verified.
Publishing == {"publish", "look", "direct", "backup", "install", "rmtree", "confirm"}

\* A publisher has staged a bundle, and past its verification it is a valid one.
Prepared ==
  \A p \in Publishers :
    /\ pc[p] \in {"staged"} \cup Publishing => staged[p] # None
    /\ pc[p] \in Publishing => staged[p].valid

\* Between the two renames the old bundle is in the publisher's backup.
Moved == \A p \in Publishers : pc[p] = "install" => backup[p] # None

\* A result is there only once the call has returned.
Returned == \A p \in Publishers : result[p] # None => pc[p] = "done"

\* Whoever has got past the first check found no damaged bundle, and none appears
\* later: a damaged one is still the tracked one, and nobody touches it.
DamagedIsUntouched ==
  /\ dest # None /\ ~dest.valid => \A p \in Publishers : pc[p] \in {"idle", "done"}
  /\ \A p \in Publishers : backup[p] # None => backup[p].valid

\* Between verifying and reading, the reader can only meet valid bundles.
ReaderIsSafe == reader.pc = "read" => dest = None \/ dest.valid

\* A bundle survives outside the backups that are about to be removed.
Kept ==
  ever => dest # None \/ \E p \in Publishers : backup[p] # None /\ pc[p] # "rmtree"

\* If no bundle is at the destination, somebody is about to put one there or has
\* been stopped from doing so.
Restorable ==
  ever => \/ dest # None
          \/ \E p \in Publishers : pc[p] = "install" \/ result[p] \in {"RestoreError", "crashed"}

Inv == /\ TypeOK /\ Prepared /\ Moved /\ Returned
       /\ DamagedIsUntouched /\ ReaderIsSafe /\ ServedIsVerified
       /\ Kept /\ Restorable

LEMMA InitEstablishes == Init => Inv
<1> SUFFICES ASSUME Init PROVE Inv
  OBVIOUS
<1> USE NoneIsNoBundle DEF Init
<1>1. TypeOK
  BY DEF TypeOK, Idle, Requests
<1>2. Prepared /\ Moved /\ Returned
  BY DEF Prepared, Moved, Returned, Publishing
<1>3. DamagedIsUntouched /\ ReaderIsSafe /\ ServedIsVerified
  BY DEF DamagedIsUntouched, ReaderIsSafe, ServedIsVerified, Idle
<1>4. Kept /\ Restorable
  BY DEF Kept, Restorable
<1> QED
  BY <1>1, <1>2, <1>3, <1>4 DEF Inv

LEMMA PublisherPreserves ==
  ASSUME Inv, NEW p \in Publishers, Publisher(p)
  PROVE  Inv'
<1> USE NoneIsNoBundle, PublishConstants DEF exists, Goto, Return, Install
<1>1. CASE run(p)
  <2> USE <1>1 DEF run, Inv
  <2>1. TypeOK'
    BY DEF TypeOK, Prepared, Returned, Publishing
  <2>2. Prepared' /\ Moved' /\ Returned'
    BY DEF TypeOK, Prepared, Moved, Returned, Publishing
  <2>3. DamagedIsUntouched' /\ ReaderIsSafe' /\ ServedIsVerified'
    BY DEF TypeOK, Prepared, Publishing, Moved, DamagedIsUntouched, ReaderIsSafe, ServedIsVerified
  <2>4. Kept'
    BY DEF TypeOK, Prepared, Publishing, Moved, Kept
  <2>5. Restorable'
    BY DEF TypeOK, Prepared, Publishing, Moved, Returned, Restorable
  <2> QED
    BY <2>1, <2>2, <2>3, <2>4, <2>5
<1>2. CASE VerifyStaged(p)
  <2> USE <1>2 DEF VerifyStaged, Inv
  <2>1. TypeOK'
    BY DEF TypeOK, Prepared, Returned, Publishing
  <2>2. Prepared' /\ Moved' /\ Returned'
    BY DEF TypeOK, Prepared, Moved, Returned, Publishing
  <2>3. DamagedIsUntouched' /\ ReaderIsSafe' /\ ServedIsVerified'
    BY DEF TypeOK, Prepared, Publishing, Moved, DamagedIsUntouched, ReaderIsSafe, ServedIsVerified
  <2>4. Kept'
    BY DEF TypeOK, Prepared, Publishing, Moved, Kept
  <2>5. Restorable'
    BY DEF TypeOK, Prepared, Publishing, Moved, Returned, Restorable
  <2> QED
    BY <2>1, <2>2, <2>3, <2>4, <2>5
<1>3. CASE CheckMayReplace(p)
  <2> USE <1>3 DEF CheckMayReplace, Inv
  <2>1. TypeOK'
    BY DEF TypeOK, Prepared, Returned, Publishing
  <2>2. Prepared' /\ Moved' /\ Returned'
    BY DEF TypeOK, Prepared, Moved, Returned, Publishing
  <2>3. DamagedIsUntouched' /\ ReaderIsSafe' /\ ServedIsVerified'
    BY DEF TypeOK, Prepared, Publishing, Moved, DamagedIsUntouched, ReaderIsSafe, ServedIsVerified
  <2>4. Kept'
    BY DEF TypeOK, Prepared, Publishing, Moved, Kept
  <2>5. Restorable'
    BY DEF TypeOK, Prepared, Publishing, Moved, Returned, Restorable
  <2> QED
    BY <2>1, <2>2, <2>3, <2>4, <2>5
<1>4. CASE LookAgain(p)
  <2> USE <1>4 DEF LookAgain, Inv
  <2>1. TypeOK'
    BY DEF TypeOK, Prepared, Returned, Publishing
  <2>2. Prepared' /\ Moved' /\ Returned'
    BY DEF TypeOK, Prepared, Moved, Returned, Publishing
  <2>3. DamagedIsUntouched' /\ ReaderIsSafe' /\ ServedIsVerified'
    BY DEF TypeOK, Prepared, Publishing, Moved, DamagedIsUntouched, ReaderIsSafe, ServedIsVerified
  <2>4. Kept'
    BY DEF TypeOK, Prepared, Publishing, Moved, Kept
  <2>5. Restorable'
    BY DEF TypeOK, Prepared, Publishing, Moved, Returned, Restorable
  <2> QED
    BY <2>1, <2>2, <2>3, <2>4, <2>5
<1>5. CASE PublishDirectly(p)
  <2> USE <1>5 DEF PublishDirectly, Inv
  <2>1. TypeOK'
    <3>1. CASE Install(p) /\ Goto(p, "confirm")
      BY <3>1 DEF TypeOK, Prepared, Returned, Publishing
    <3>2. CASE Return(p, "OSError") /\ UNCHANGED <<dest, ever>>
      BY <3>2 DEF TypeOK, Prepared, Returned, Publishing
    <3> QED
      BY <3>1, <3>2
  <2>2. Prepared' /\ Moved' /\ Returned'
    BY DEF TypeOK, Prepared, Moved, Returned, Publishing
  <2>3. DamagedIsUntouched' /\ ReaderIsSafe' /\ ServedIsVerified'
    BY DEF TypeOK, Prepared, Publishing, Moved, DamagedIsUntouched, ReaderIsSafe, ServedIsVerified
  <2>4. Kept'
    <3>1. CASE Install(p) /\ Goto(p, "confirm")
      BY <3>1 DEF TypeOK, Prepared, Publishing, Kept
    <3>2. CASE Return(p, "OSError") /\ UNCHANGED <<dest, ever>>
      BY <3>2 DEF TypeOK, Prepared, Publishing, Kept
    <3> QED
      BY <3>1, <3>2
  <2>5. Restorable'
    <3>1. CASE Install(p) /\ Goto(p, "confirm")
      BY <3>1 DEF Prepared, Publishing, Restorable
    <3>2. CASE Return(p, "OSError") /\ UNCHANGED <<dest, ever>>
      BY <3>2 DEF TypeOK, Prepared, Publishing, Moved, Returned, Restorable
    <3> QED
      BY <3>1, <3>2
  <2> QED
    BY <2>1, <2>2, <2>3, <2>4, <2>5
<1>6. CASE MoveToBackup(p)
  <2> USE <1>6 DEF MoveToBackup, Inv
  <2>1. TypeOK'
    BY DEF TypeOK, Prepared, Returned, Publishing
  <2>2. Prepared' /\ Moved' /\ Returned'
    BY DEF TypeOK, Prepared, Moved, Returned, Publishing
  <2>3. DamagedIsUntouched' /\ ReaderIsSafe' /\ ServedIsVerified'
    BY DEF TypeOK, Prepared, Publishing, Moved, DamagedIsUntouched, ReaderIsSafe, ServedIsVerified
  <2>4. Kept'
    BY DEF TypeOK, Prepared, Publishing, Moved, Kept
  <2>5. Restorable'
    BY DEF TypeOK, Prepared, Publishing, Moved, Returned, Restorable
  <2> QED
    BY <2>1, <2>2, <2>3, <2>4, <2>5
<1>7. CASE InstallReplacement(p)
  <2> USE <1>7 DEF InstallReplacement, Inv
  <2>1. TypeOK'
    BY DEF TypeOK, Prepared, Returned, Publishing
  <2>2. Prepared' /\ Moved' /\ Returned'
    BY DEF TypeOK, Prepared, Moved, Returned, Publishing
  <2>3. DamagedIsUntouched' /\ ReaderIsSafe' /\ ServedIsVerified'
    BY DEF TypeOK, Prepared, Publishing, Moved, DamagedIsUntouched, ReaderIsSafe, ServedIsVerified
  <2>4. Kept'
    BY DEF TypeOK, Prepared, Publishing, Moved, Kept
  <2>5. Restorable'
    BY DEF TypeOK, Prepared, Publishing, Moved, Returned, Restorable
  <2> QED
    BY <2>1, <2>2, <2>3, <2>4, <2>5
<1>8. CASE Restore(p)
  <2> USE <1>8 DEF Restore, Inv
  <2>1. TypeOK'
    BY DEF TypeOK, Prepared, Returned, Publishing
  <2>2. Prepared' /\ Moved' /\ Returned'
    BY DEF TypeOK, Prepared, Moved, Returned, Publishing
  <2>3. DamagedIsUntouched' /\ ReaderIsSafe' /\ ServedIsVerified'
    BY DEF TypeOK, Prepared, Publishing, Moved, DamagedIsUntouched, ReaderIsSafe, ServedIsVerified
  <2>4. Kept'
    BY DEF TypeOK, Prepared, Publishing, Moved, Kept
  <2>5. Restorable'
    BY DEF TypeOK, Prepared, Publishing, Moved, Returned, Restorable
  <2> QED
    BY <2>1, <2>2, <2>3, <2>4, <2>5
<1>9. CASE RestoreFails(p)
  <2> USE <1>9 DEF RestoreFails, Inv
  <2>1. TypeOK'
    BY DEF TypeOK, Prepared, Returned, Publishing
  <2>2. Prepared' /\ Moved' /\ Returned'
    BY DEF TypeOK, Prepared, Moved, Returned, Publishing
  <2>3. DamagedIsUntouched' /\ ReaderIsSafe' /\ ServedIsVerified'
    BY DEF TypeOK, Prepared, Publishing, Moved, DamagedIsUntouched, ReaderIsSafe, ServedIsVerified
  <2>4. Kept'
    BY DEF TypeOK, Prepared, Publishing, Moved, Kept
  <2>5. Restorable'
    BY DEF TypeOK, Prepared, Publishing, Moved, Returned, Restorable
  <2> QED
    BY <2>1, <2>2, <2>3, <2>4, <2>5
<1>10. CASE RemoveBackup(p)
  <2> USE <1>10 DEF RemoveBackup, Inv
  <2>1. TypeOK'
    BY DEF TypeOK, Prepared, Returned, Publishing
  <2>2. Prepared' /\ Moved' /\ Returned'
    BY DEF TypeOK, Prepared, Moved, Returned, Publishing
  <2>3. DamagedIsUntouched' /\ ReaderIsSafe' /\ ServedIsVerified'
    BY DEF TypeOK, Prepared, Publishing, Moved, DamagedIsUntouched, ReaderIsSafe, ServedIsVerified
  <2>4. Kept'
    BY DEF TypeOK, Prepared, Publishing, Moved, Kept
  <2>5. Restorable'
    BY DEF TypeOK, Prepared, Publishing, Moved, Returned, Restorable
  <2> QED
    BY <2>1, <2>2, <2>3, <2>4, <2>5
<1>11. CASE RemoveBackupFails(p)
  <2> USE <1>11 DEF RemoveBackupFails, Inv
  <2>1. TypeOK'
    BY DEF TypeOK, Prepared, Returned, Publishing
  <2>2. Prepared' /\ Moved' /\ Returned'
    BY DEF TypeOK, Prepared, Moved, Returned, Publishing
  <2>3. DamagedIsUntouched' /\ ReaderIsSafe' /\ ServedIsVerified'
    BY DEF TypeOK, Prepared, Publishing, Moved, DamagedIsUntouched, ReaderIsSafe, ServedIsVerified
  <2>4. Kept'
    BY DEF TypeOK, Prepared, Publishing, Moved, Kept
  <2>5. Restorable'
    BY DEF TypeOK, Prepared, Publishing, Moved, Returned, Restorable
  <2> QED
    BY <2>1, <2>2, <2>3, <2>4, <2>5
<1>12. CASE VerifyPublished(p)
  <2> USE <1>12 DEF VerifyPublished, Inv
  <2>1. TypeOK'
    BY DEF TypeOK, Prepared, Returned, Publishing
  <2>2. Prepared' /\ Moved' /\ Returned'
    BY DEF TypeOK, Prepared, Moved, Returned, Publishing
  <2>3. DamagedIsUntouched' /\ ReaderIsSafe' /\ ServedIsVerified'
    BY DEF TypeOK, Prepared, Publishing, Moved, DamagedIsUntouched, ReaderIsSafe, ServedIsVerified
  <2>4. Kept'
    BY DEF TypeOK, Prepared, Publishing, Moved, Kept
  <2>5. Restorable'
    BY DEF TypeOK, Prepared, Publishing, Moved, Returned, Restorable
  <2> QED
    BY <2>1, <2>2, <2>3, <2>4, <2>5
<1>13. CASE Crash(p)
  <2> USE <1>13 DEF Crash, Inv
  <2>1. TypeOK'
    BY DEF TypeOK, Prepared, Returned, Publishing
  <2>2. Prepared' /\ Moved' /\ Returned'
    BY DEF TypeOK, Prepared, Moved, Returned, Publishing
  <2>3. DamagedIsUntouched' /\ ReaderIsSafe' /\ ServedIsVerified'
    BY DEF TypeOK, Prepared, Publishing, Moved, DamagedIsUntouched, ReaderIsSafe, ServedIsVerified
  <2>4. Kept'
    BY DEF TypeOK, Prepared, Publishing, Moved, Kept
  <2>5. Restorable'
    BY DEF TypeOK, Prepared, Publishing, Moved, Returned, Restorable
  <2> QED
    BY <2>1, <2>2, <2>3, <2>4, <2>5
<1> QED
  BY <1>1, <1>2, <1>3, <1>4, <1>5, <1>6, <1>7, <1>8, <1>9, <1>10, <1>11, <1>12, <1>13
     DEF Publisher, publish_directory

\* A request of the dashboard changes nothing on disk, so only the reader's own part
\* of the invariant is at stake.
LEMMA DashboardPreserves == Inv /\ Dashboard => Inv'
<1> SUFFICES ASSUME Inv, Dashboard PROVE Inv'
  OBVIOUS
<1> USE NoneIsNoBundle DEF exists, Answer
<1>1. publishVars' = publishVars
  BY DEF Dashboard, ReadManifest, verify_registered_bundle, present_bundle, artifact_response,
         NextRequest
<1>2. /\ Prepared' /\ Moved' /\ Returned' /\ DamagedIsUntouched'
      /\ Kept' /\ Restorable'
  BY <1>1 DEF publishVars, Inv, Prepared, Moved, Returned, DamagedIsUntouched, Kept, Restorable
<1>3. TypeOK' /\ ReaderIsSafe' /\ ServedIsVerified'
  <2> USE <1>1 DEF Inv, TypeOK, publishVars, ReaderIsSafe, ServedIsVerified
  <2>1. ASSUME NEW k \in Requests, ReadManifest(k)
        PROVE  TypeOK' /\ ReaderIsSafe' /\ ServedIsVerified'
    BY <2>1 DEF ReadManifest
  <2>2. CASE verify_registered_bundle
    <3>1. CASE Answer(None)
      BY <2>2, <3>1 DEF verify_registered_bundle
    <3>2. CASE dest # None /\ dest.valid /\ reader' = [reader EXCEPT !.pc = "read"]
      BY <2>2, <3>2 DEF verify_registered_bundle
    <3> QED
      BY <2>2, <3>1, <3>2 DEF verify_registered_bundle
  <2>3. CASE present_bundle \/ artifact_response
    <3>1. PICK b \in {dest, None} : Answer(b)
      BY <2>3 DEF present_bundle, artifact_response
    <3>2. b = None \/ b.valid
      BY <2>3, <3>1 DEF present_bundle, artifact_response
    <3>3. /\ b \in Bundles \cup {None}
          /\ reader' = [reader EXCEPT !.pc = "answered", !.served = b]
      BY <3>1
    <3>4. reader'.pc = "answered" /\ reader'.served = b
      BY <3>3
    <3>5. TypeOK'
      BY <3>3
    <3> QED
      BY <3>2, <3>4, <3>5
  <2>5. CASE NextRequest
    BY <2>5 DEF NextRequest, Idle
  <2> QED
    BY <2>1, <2>2, <2>3, <2>5 DEF Dashboard
<1> QED
  BY <1>2, <1>3 DEF Inv

LEMMA StepPreserves == Inv /\ [Next]_vars => Inv'
<1>1. ASSUME Inv, UNCHANGED vars PROVE Inv'
  BY <1>1 DEF vars, publishVars, Inv, TypeOK, Prepared, Moved, Returned, DamagedIsUntouched,
              ReaderIsSafe, ServedIsVerified, Kept, Restorable
<1> QED
  BY <1>1, PublisherPreserves, DashboardPreserves DEF Next

LEMMA Invariance == Spec => []Inv
  BY InitEstablishes, StepPreserves, PTL DEF Spec

-------------------------------------------------------------------------------

\* The state of publishers and reader keeps its type, and backups exist only where
\* publish_directory left them.
THEOREM TypeCorrect == Spec => []TypeOK
<1>1. Inv => TypeOK
  BY DEF Inv
<1> QED
  BY <1>1, Invariance, PTL

\* Once a bundle was published there is always a complete one on disk, whichever of
\* any number of publishers dies between the renames of publish_directory.
THEOREM BundleSurvivesAlways == Spec => []BundleSurvives
<1>1. Inv => BundleSurvives
  BY DEF Inv, Kept, BundleSurvives
<1> QED
  BY <1>1, Invariance, PTL

\* If nobody was killed and no rename back failed for itself, then a bundle is at the
\* destination when all calls of publish_directory have returned.
THEOREM DestinationRestoredAlways == Spec => []DestinationRestored
<1>1. Inv => DestinationRestored
  BY DEF Inv, Restorable, DestinationRestored
<1> QED
  BY <1>1, Invariance, PTL

\* The dashboard serves and presents verified bundles only, although it looks the
\* directory up again after verifying it.
THEOREM ServedIsVerifiedAlways == Spec => []ServedIsVerified
<1>1. Inv => ServedIsVerified
  BY DEF Inv
<1> QED
  BY <1>1, Invariance, PTL
===============================================================================
