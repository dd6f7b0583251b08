-------------------------------- MODULE Publish -------------------------------
(* Publication of evidence/demo-bundle and its presentation: publish_directory  *)
(* of verifier/bundle.py and its caller VerificationOrchestrator.run, run by    *)
(* several processes at once, against the dashboard's present_bundle and        *)
(* artifact_response.  A directory is renamed as a whole; every lookup of the   *)
(* destination's path finds what is there at that moment.  What a bundle holds  *)
(* and what makes it valid is module Bundle; here it is one value, the same for *)
(* all files of a directory, with its outcome and whether verify_bundle accepts *)
(* it.                                                                          *)
EXTENDS Naturals

CONSTANTS
  Publishers,  \* calls of VerificationOrchestrator.run with the same --output-dir
  Outcomes,
  None

ASSUME PublishConstants ==
  /\ "tracked" \notin Publishers
  /\ None \notin {"ok", "BundleError", "OSError", "RestoreError", "crashed"}

VARIABLES
  dest,     \* the bundle at the destination, or None
  backup,   \* [Publishers -> the bundle in its .backup directory, or None]
  staged,   \* [Publishers -> the bundle it has generated, or None]
  replace,  \* [Publishers -> its --replace flag]
  pc,       \* [Publishers -> where the call is]
  result,   \* [Publishers -> how the call ended]
  ever,     \* a bundle has been at the destination
  reader    \* the dashboard's request: where it is, what it has read and answered

publishVars == <<dest, backup, staged, replace, pc, result, ever>>
vars == <<publishVars, reader>>

Bundles == [by : Publishers \cup {"tracked"}, verification_outcome : Outcomes, valid : BOOLEAN]
ASSUME NoneIsNoBundle == None \notin Bundles

Requests == {"demo", "artifact"}
Idle == [pc |-> "idle", kind |-> None, manifest |-> None, served |-> None]

Init ==
  /\ dest \in {b \in Bundles : b.by = "tracked"} \cup {None}
  /\ backup = [p \in Publishers |-> None]
  /\ staged = [p \in Publishers |-> None]
  /\ replace \in [Publishers -> BOOLEAN]
  /\ pc = [p \in Publishers |-> "idle"]
  /\ result = [p \in Publishers |-> None]
  /\ ever = (dest # None)
  /\ reader = Idle

exists == dest # None

Goto(p, to) == pc' = [pc EXCEPT ![p] = to] /\ UNCHANGED result

Return(p, r) == pc' = [pc EXCEPT ![p] = "done"] /\ result' = [result EXCEPT ![p] = r]

-------------------------------------------------------------------------------
(* VerificationOrchestrator.run around the publication. *)

\* The checks of the destination, among them the verification of the demo bundle
\* that is to be replaced; then the scenarios, whose bundle may be invalid.
run(p) ==
  /\ pc[p] = "idle"
  /\ IF exists /\ (~replace[p] \/ ~dest.valid)
     THEN Return(p, "BundleError") /\ UNCHANGED staged
     ELSE /\ Goto(p, "staged")
          /\ \E b \in Bundles : b.by = p /\ staged' = [staged EXCEPT ![p] = b]
  /\ UNCHANGED <<dest, backup, replace, ever, reader>>

\* Slip: the staged bundle is verified only after publication.
StagedNotVerified(p) ==
  /\ pc[p] = "staged"
  /\ Goto(p, "publish")
  /\ UNCHANGED <<dest, backup, staged, replace, ever, reader>>

VerifyStaged(p) ==
  /\ pc[p] = "staged"
  /\ IF staged[p].valid THEN Goto(p, "publish") ELSE Return(p, "BundleError")
  /\ UNCHANGED <<dest, backup, staged, replace, ever, reader>>

\* The published bundle is verified again and its digest compared.
VerifyPublished(p) ==
  /\ pc[p] = "confirm"
  /\ Return(p, IF exists /\ dest.valid /\ dest = staged[p] THEN "ok" ELSE "BundleError")
  /\ UNCHANGED <<dest, backup, staged, replace, ever, reader>>

-------------------------------------------------------------------------------
(* publish_directory, one action per look at the file system. *)

CheckMayReplace(p) ==
  /\ pc[p] = "publish"
  /\ IF exists /\ ~replace[p] THEN Return(p, "BundleError") ELSE Goto(p, "look")
  /\ UNCHANGED <<dest, backup, staged, replace, ever, reader>>

LookAgain(p) ==
  /\ pc[p] = "look"
  /\ Goto(p, IF exists THEN "backup" ELSE "direct")
  /\ UNCHANGED <<dest, backup, staged, replace, ever, reader>>

\* A rename onto a bundle fails.
Install(p) ==
  /\ ~exists
  /\ dest' = staged[p]
  /\ ever' = TRUE

PublishDirectly(p) ==
  /\ pc[p] = "direct"
  /\ \/ Install(p) /\ Goto(p, "confirm")
     \/ Return(p, "OSError") /\ UNCHANGED <<dest, ever>>
  /\ UNCHANGED <<backup, staged, replace, reader>>

MoveToBackup(p) ==
  /\ pc[p] = "backup"
  /\ \/ /\ exists
        /\ backup' = [backup EXCEPT ![p] = dest]
        /\ dest' = None
        /\ Goto(p, "install")
     \/ Return(p, "OSError") /\ UNCHANGED <<dest, backup>>
  /\ UNCHANGED <<staged, replace, ever, reader>>

InstallReplacement(p) ==
  /\ pc[p] = "install"
  /\ Install(p)
  /\ Goto(p, "rmtree")
  /\ UNCHANGED <<backup, staged, replace, reader>>

\* Slip: the second rename is not inside a try, and nothing is restored.
NotRestored(p) ==
  /\ pc[p] = "install"
  /\ Return(p, "OSError")
  /\ UNCHANGED <<dest, backup, staged, replace, ever, reader>>

\* The replacement fails, because somebody else has published meanwhile or for any
\* other reason; the backup goes back unless the place is taken.
Restore(p) ==
  /\ pc[p] = "install"
  /\ IF exists
     THEN Return(p, "OSError") /\ UNCHANGED <<dest, backup>>
     ELSE /\ dest' = backup[p]
          /\ backup' = [backup EXCEPT ![p] = None]
          /\ Return(p, "BundleError")
  /\ UNCHANGED <<staged, replace, ever, reader>>

\* The rename back fails too, though nothing is in its way.
RestoreFails(p) ==
  /\ pc[p] = "install"
  /\ ~exists
  /\ Return(p, "RestoreError")
  /\ UNCHANGED <<dest, backup, staged, replace, ever, reader>>

\* Slip: the backup is removed before the replacement is in place.
RemoveBackupFirst(p) ==
  /\ pc[p] \in {"install", "rmtree"}
  /\ backup' = [backup EXCEPT ![p] = None]
  /\ Goto(p, IF pc[p] = "rmtree" THEN "confirm" ELSE "install")
  /\ UNCHANGED <<dest, staged, replace, ever, reader>>

\* Slip: the backup is kept.
BackupKept(p) ==
  /\ pc[p] = "rmtree"
  /\ Goto(p, "confirm")
  /\ UNCHANGED <<dest, backup, staged, replace, ever, reader>>

RemoveBackup(p) ==
  /\ pc[p] = "rmtree"
  /\ backup' = [backup EXCEPT ![p] = None]
  /\ Goto(p, "confirm")
  /\ UNCHANGED <<dest, staged, replace, ever, reader>>

\* What is left of a backup that could not be removed is nobody's bundle.
RemoveBackupFails(p) ==
  /\ pc[p] = "rmtree"
  /\ backup' = [backup EXCEPT ![p] = None]
  /\ Return(p, "OSError")
  /\ UNCHANGED <<dest, staged, replace, ever, reader>>

\* The process is killed, or the machine stops.
Crash(p) ==
  /\ pc[p] \notin {"idle", "done"}
  /\ Return(p, "crashed")
  /\ UNCHANGED <<dest, backup, staged, replace, ever, reader>>

publish_directory(p) ==
  \/ CheckMayReplace(p) \/ LookAgain(p) \/ PublishDirectly(p) \/ MoveToBackup(p)
  \/ InstallReplacement(p) \/ Restore(p) \/ RestoreFails(p)
  \/ RemoveBackup(p) \/ RemoveBackupFails(p)

Publisher(p) ==
  run(p) \/ VerifyStaged(p) \/ publish_directory(p) \/ VerifyPublished(p) \/ Crash(p)

-------------------------------------------------------------------------------
(* The dashboard reads file by file. *)

Answer(b) == reader' = [reader EXCEPT !.pc = "answered", !.served = b]

\* verify_registered_bundle begins: the manifest and its digest.
ReadManifest(k) ==
  /\ reader.pc = "idle"
  /\ reader' = IF exists
               THEN [reader EXCEPT !.pc = "verify", !.kind = k, !.manifest = dest]
               ELSE [reader EXCEPT !.pc = "answered", !.kind = k]
  /\ UNCHANGED publishVars

\* The other files must hash to what the manifest says.
verify_registered_bundle ==
  /\ reader.pc = "verify"
  /\ IF exists /\ dest = reader.manifest /\ dest.valid
     THEN reader' = [reader EXCEPT !.pc = "read"]
     ELSE Answer(None)
  /\ UNCHANGED publishVars

\* present_bundle opens evidence.json once more and compares the outcomes.
present_bundle ==
  /\ reader.pc = "read"
  /\ reader.kind = "demo"
  /\ IF exists /\ dest.verification_outcome = reader.manifest.verification_outcome
     THEN Answer(dest) ELSE Answer(None)
  /\ UNCHANGED publishVars

artifact_response ==
  /\ reader.pc = "read"
  /\ reader.kind = "artifact"
  /\ Answer(dest)
  /\ UNCHANGED publishVars

NextRequest == reader.pc = "answered" /\ reader' = Idle /\ UNCHANGED publishVars

Dashboard ==
  \/ \E k \in Requests : ReadManifest(k)
  \/ verify_registered_bundle \/ present_bundle \/ artifact_response \/ NextRequest

Next == Dashboard \/ \E p \in Publishers : Publisher(p)

Spec == Init /\ [][Next]_vars

-------------------------------------------------------------------------------
(* Properties. *)

\* Every variable has its type; a backup exists only between its two renames or
\* after the publisher has failed or died there.
TypeOK ==
  /\ dest \in Bundles \cup {None}
  /\ backup \in [Publishers -> Bundles \cup {None}]
  /\ staged \in [Publishers -> Bundles \cup {None}]
  /\ replace \in [Publishers -> BOOLEAN]
  /\ pc \in [Publishers -> {"idle", "staged", "publish", "look", "direct", "backup",
                            "install", "rmtree", "confirm", "done"}]
  /\ result \in [Publishers -> {None, "ok", "BundleError", "OSError", "RestoreError", "crashed"}]
  /\ ever \in BOOLEAN
  /\ reader \in [pc : {"idle", "verify", "read", "answered"}, kind : Requests \cup {None},
                 manifest : Bundles \cup {None}, served : Bundles \cup {None}]
  /\ \A p \in Publishers :
       backup[p] # None =>
         pc[p] \in {"install", "rmtree"} \/ result[p] \in {"OSError", "RestoreError", "crashed"}

\* Once a bundle has been published a complete one is always on disk, at the
\* destination or in a backup beside it, whichever publisher is killed or fails
\* at whichever point (publish_directory's two renames).
BundleSurvives == ever => dest # None \/ \E p \in Publishers : backup[p] # None

\* When all publishers have returned, none was killed and no rename back failed for
\* itself, a bundle is at the destination: a failing publisher restores what it had
\* moved away, unless another has published in between (publish_directory's except
\* clause).
DestinationRestored ==
  /\ ever
  /\ \A p \in Publishers :
       /\ pc[p] \in {"idle", "done"}
       /\ result[p] \notin {"RestoreError", "crashed"}
  => dest # None

\* Whatever the dashboard serves or presents was accepted by verify_bundle, although
\* it looks the destination up again after verifying it and publishers may have
\* replaced it meanwhile (verify_registered_bundle, present_bundle, artifact_response).
ServedIsVerified == reader.served # None => reader.served.valid

\* verifier/bundle.py:491: without --replace an existing output directory is
\* refused, so no bundle is moved away.
NoReplaceWithoutFlag == \A p \in Publishers : backup[p] # None => replace[p]
===============================================================================
