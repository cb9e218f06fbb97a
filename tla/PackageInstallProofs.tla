------------------------ MODULE PackageInstallProofs ------------------------
(***************************************************************************)
(* For any number of installers, archives, releases and faults, nothing    *)
(* partial is ever visible under a final name (PublishedIsWhole).          *)
(***************************************************************************)
EXTENDS PackageInstall, TLAPS

(* Past the manifest, past the root, and past the coordinate. *)
AfterManifest == {"test-root", "extract", "verify", "rename-root"}
AfterRoot     == {"test-registration", "write-registration", "rename-registration"}
AfterPlace    == {"write-registration", "rename-registration"}

(* What an installer knows at its step: it has an archive; what it is about to
   rename is whole, and its own; past the manifest the archive is valid; past
   the root that root is whole, since no root is ever removed; past the
   coordinate the archive has a release. *)
Knows(p) ==
  /\ at[p] # "idle" => archive[p] \in Archives
  /\ at[p] = "rename-blob" => temporary[p][archive[p]] = "whole"
  /\ at[p] = "rename-root" => scratch[p][archive[p]] = "whole"
  /\ at[p] \in AfterManifest => archive[p] \notin Invalid
  /\ at[p] \in AfterRoot => root[archive[p]] = "whole"
  /\ at[p] \in AfterPlace => archive[p] \notin Unplaced

InstallInv ==
  /\ TypeOK
  /\ \A p \in Installers : Knows(p)
  /\ PublishedIsWhole

(* The empty directory satisfies the invariant. *)
LEMMA InitInstallInv == Init => InstallInv
<1> SUFFICES ASSUME Init PROVE InstallInv
  BY Zenon
<1>1. TypeOK
  BY InstallConstants DEF Init, TypeOK, Content, Steps
<1>2. PublishedIsWhole
  BY Zenon DEF Init, PublishedIsWhole
<1>3. ASSUME NEW p \in Installers PROVE Knows(p)
  BY Zenon DEF Init, Knows, AfterManifest, AfterRoot, AfterPlace
<1> QED BY <1>1, <1>2, <1>3, Zenon DEF InstallInv

(* Every step of every installer keeps it, crashes and errors included. *)
LEMMA NextInstallInv == InstallInv /\ [Next]_vars => InstallInv'
<1> SUFFICES ASSUME InstallInv, [Next]_vars PROVE InstallInv'
  BY Zenon
<1> USE InstallConstants DEF InstallInv
<1>0. CASE UNCHANGED vars
  BY <1>0, Zenon DEF vars, files, process, TypeOK, Knows, PublishedIsWhole
<1> SUFFICES ASSUME NEW p \in Installers,
                    (\E a \in Archives : Start(p, a)) \/ Retry(p) \/ Step(p) \/ Crash(p) \/ Error(p)
             PROVE  InstallInv'
  BY <1>0, Zenon DEF Next
<1>1. ASSUME NEW a \in Archives, Start(p, a) PROVE InstallInv'
  <2>1. TypeOK'
    BY <1>1, Zenon DEF Start, Goto, files, TypeOK, Knows, AfterPlace, Content, Steps
  <2>2. ASSUME NEW q \in Installers PROVE Knows(q)'
    BY <1>1 DEF Start, Goto, files, TypeOK, Knows, AfterManifest, AfterRoot, AfterPlace, PublishedIsWhole
  <2>3. PublishedIsWhole'
    BY <1>1, Zenon DEF Start, Goto, files, TypeOK, Knows, AfterManifest, AfterRoot, AfterPlace, PublishedIsWhole
  <2> QED BY <2>1, <2>2, <2>3, Zenon
<1>2. CASE Retry(p)
  <2>1. TypeOK'
    BY <1>2, Zenon DEF Retry, Goto, files, TypeOK, Knows, AfterPlace, Content, Steps
  <2>2. ASSUME NEW q \in Installers PROVE Knows(q)'
    BY <1>2, Zenon DEF Retry, Goto, files, TypeOK, Knows, AfterManifest, AfterRoot, AfterPlace, PublishedIsWhole
  <2>3. PublishedIsWhole'
    BY <1>2, Zenon DEF Retry, Goto, files, TypeOK, Knows, AfterManifest, AfterRoot, AfterPlace, PublishedIsWhole
  <2> QED BY <2>1, <2>2, <2>3, Zenon
<1>3. CASE TestBlob(p)
  <2>1. TypeOK'
    BY <1>3, Zenon DEF TestBlob, Goto, files, TypeOK, Knows, AfterPlace, Content, Steps
  <2>2. ASSUME NEW q \in Installers PROVE Knows(q)'
    BY <1>3, Zenon DEF TestBlob, Goto, files, TypeOK, Knows, AfterManifest, AfterRoot, AfterPlace, PublishedIsWhole
  <2>3. PublishedIsWhole'
    BY <1>3, Zenon DEF TestBlob, Goto, files, TypeOK, Knows, AfterManifest, AfterRoot, AfterPlace, PublishedIsWhole
  <2> QED BY <2>1, <2>2, <2>3
<1>4. CASE Copy(p)
  <2>1. TypeOK'
    BY <1>4, Zenon DEF Copy, Goto, files, TypeOK, Knows, AfterPlace, Content, Steps
  <2>2. ASSUME NEW q \in Installers PROVE Knows(q)'
    BY <1>4, Zenon DEF Copy, Goto, files, TypeOK, Knows, AfterManifest, AfterRoot, AfterPlace, PublishedIsWhole
  <2>3. PublishedIsWhole'
    BY <1>4, Zenon DEF Copy, Goto, files, TypeOK, Knows, AfterManifest, AfterRoot, AfterPlace, PublishedIsWhole
  <2> QED BY <2>1, <2>2, <2>3
<1>5. CASE VerifyCopy(p)
  <2>1. TypeOK'
    BY <1>5, Zenon DEF VerifyCopy, Goto, files, TypeOK, Knows, AfterPlace, Content, Steps
  <2>2. ASSUME NEW q \in Installers PROVE Knows(q)'
    BY <1>5, Zenon DEF VerifyCopy, Goto, files, TypeOK, Knows, AfterManifest, AfterRoot, AfterPlace, PublishedIsWhole
  <2>3. PublishedIsWhole'
    BY <1>5, Zenon DEF VerifyCopy, Goto, files, TypeOK, Knows, AfterManifest, AfterRoot, AfterPlace, PublishedIsWhole
  <2> QED BY <2>1, <2>2, <2>3
<1>6. CASE RenameBlob(p)
  <2>1. TypeOK'
    BY <1>6, Zenon DEF RenameBlob, Goto, files, TypeOK, Knows, AfterPlace, Content, Steps
  <2>2. ASSUME NEW q \in Installers PROVE Knows(q)'
    BY <1>6, Zenon DEF RenameBlob, Goto, files, TypeOK, Knows, AfterManifest, AfterRoot, AfterPlace, PublishedIsWhole
  <2>3. PublishedIsWhole'
    BY <1>6, Zenon DEF RenameBlob, Goto, files, TypeOK, Knows, AfterManifest, AfterRoot, AfterPlace, PublishedIsWhole
  <2> QED BY <2>1, <2>2, <2>3
<1>7. CASE ReadManifest(p)
  <2>1. TypeOK'
    BY <1>7, Zenon DEF ReadManifest, Goto, files, TypeOK, Knows, AfterPlace, Content, Steps
  <2>2. ASSUME NEW q \in Installers PROVE Knows(q)'
    BY <1>7, Zenon DEF ReadManifest, Goto, files, TypeOK, Knows, AfterManifest, AfterRoot, AfterPlace, PublishedIsWhole
  <2>3. PublishedIsWhole'
    BY <1>7, Zenon DEF ReadManifest, Goto, files, TypeOK, Knows, AfterManifest, AfterRoot, AfterPlace, PublishedIsWhole
  <2> QED BY <2>1, <2>2, <2>3
<1>8. CASE RejectManifest(p)
  <2>1. TypeOK'
    BY <1>8, Zenon DEF RejectManifest, Discard, Goto, files, TypeOK, Knows, AfterPlace, Content, Steps
  <2>2. ASSUME NEW q \in Installers PROVE Knows(q)'
    BY <1>8 DEF RejectManifest, Discard, Goto, files, TypeOK, Knows, AfterManifest, AfterRoot, AfterPlace, PublishedIsWhole
  <2>3. PublishedIsWhole'
    BY <1>8 DEF RejectManifest, Discard, Goto, files, TypeOK, Knows, AfterManifest, AfterRoot, AfterPlace, PublishedIsWhole
  <2> QED BY <2>1, <2>2, <2>3
<1>9. CASE TestRoot(p)
  <2>1. TypeOK'
    BY <1>9, Zenon DEF TestRoot, Goto, files, TypeOK, Knows, AfterPlace, Content, Steps
  <2>2. ASSUME NEW q \in Installers PROVE Knows(q)'
    BY <1>9 DEF TestRoot, Goto, files, TypeOK, Knows, AfterManifest, AfterRoot, AfterPlace, PublishedIsWhole
  <2>3. PublishedIsWhole'
    BY <1>9, Zenon DEF TestRoot, Goto, files, TypeOK, Knows, AfterManifest, AfterRoot, AfterPlace, PublishedIsWhole
  <2> QED BY <2>1, <2>2, <2>3
<1>10. CASE Extract(p)
  <2>1. TypeOK'
    BY <1>10, Zenon DEF Extract, Goto, files, TypeOK, Knows, AfterPlace, Content, Steps
  <2>2. ASSUME NEW q \in Installers PROVE Knows(q)'
    BY <1>10 DEF Extract, Goto, files, TypeOK, Knows, AfterManifest, AfterRoot, AfterPlace, PublishedIsWhole
  <2>3. PublishedIsWhole'
    BY <1>10, Zenon DEF Extract, Goto, files, TypeOK, Knows, AfterManifest, AfterRoot, AfterPlace, PublishedIsWhole
  <2> QED BY <2>1, <2>2, <2>3
<1>11. CASE VerifyScratch(p)
  <2>1. TypeOK'
    BY <1>11, Zenon DEF VerifyScratch, Goto, files, TypeOK, Knows, AfterPlace, Content, Steps
  <2>2. ASSUME NEW q \in Installers PROVE Knows(q)'
    BY <1>11 DEF VerifyScratch, Goto, files, TypeOK, Knows, AfterManifest, AfterRoot, AfterPlace, PublishedIsWhole
  <2>3. PublishedIsWhole'
    BY <1>11, Zenon DEF VerifyScratch, Goto, files, TypeOK, Knows, AfterManifest, AfterRoot, AfterPlace, PublishedIsWhole
  <2> QED BY <2>1, <2>2, <2>3
<1>12. CASE RenameRoot(p)
  <2>1. TypeOK'
    BY <1>12, Zenon DEF RenameRoot, Goto, files, TypeOK, Knows, AfterPlace, Content, Steps
  <2>2. ASSUME NEW q \in Installers PROVE Knows(q)'
    BY <1>12 DEF RenameRoot, Goto, files, TypeOK, Knows, AfterManifest, AfterRoot, AfterPlace, PublishedIsWhole
  <2>3. PublishedIsWhole'
    BY <1>12 DEF RenameRoot, Goto, files, TypeOK, Knows, AfterManifest, AfterRoot, AfterPlace, PublishedIsWhole
  <2> QED BY <2>1, <2>2, <2>3
<1>13. CASE TestRegistration(p)
  <2>1. TypeOK'
    BY <1>13, Zenon DEF TestRegistration, Placed, Release, Goto, files, TypeOK, Knows, AfterPlace, Content, Steps
  <2>2. ASSUME NEW q \in Installers PROVE Knows(q)'
    BY <1>13 DEF TestRegistration, Placed, Release, Goto, files, TypeOK, Knows, AfterManifest, AfterRoot, AfterPlace, PublishedIsWhole
  <2>3. PublishedIsWhole'
    BY <1>13, Zenon DEF TestRegistration, Placed, Release, Goto, files, TypeOK, Knows, AfterManifest, AfterRoot, AfterPlace, PublishedIsWhole
  <2> QED BY <2>1, <2>2, <2>3
<1>14. CASE WriteRegistration(p)
  <2>1. TypeOK'
    BY <1>14, Zenon DEF WriteRegistration, Placed, Release, Goto, files, TypeOK, Knows, AfterPlace, Content, Steps
  <2>2. ASSUME NEW q \in Installers PROVE Knows(q)'
    BY <1>14, Zenon DEF WriteRegistration, Placed, Release, Goto, files, TypeOK, Knows, AfterManifest, AfterRoot, AfterPlace, PublishedIsWhole
  <2>3. PublishedIsWhole'
    BY <1>14, Zenon DEF WriteRegistration, Placed, Release, Goto, files, TypeOK, Knows, AfterManifest, AfterRoot, AfterPlace, PublishedIsWhole
  <2> QED BY <2>1, <2>2, <2>3
<1>15. CASE RenameRegistration(p)
  <2>1. TypeOK'
    BY <1>15, Zenon DEF RenameRegistration, Placed, Release, Goto, files, TypeOK, Knows, AfterPlace, Content, Steps
  <2>2. ASSUME NEW q \in Installers PROVE Knows(q)'
    BY <1>15, Zenon DEF RenameRegistration, Placed, Release, Goto, files, TypeOK, Knows, AfterManifest, AfterRoot, AfterPlace, PublishedIsWhole
  <2>3. PublishedIsWhole'
    BY <1>15, Zenon DEF RenameRegistration, Placed, Release, Goto, files, TypeOK, Knows, AfterManifest, AfterRoot, AfterPlace, PublishedIsWhole
  <2> QED BY <2>1, <2>2, <2>3
<1>16. CASE Crash(p)
  <2>1. TypeOK'
    BY <1>16 DEF Crash, Running, Fault, Goto, files, TypeOK, Knows, AfterPlace, Content, Steps
  <2>2. ASSUME NEW q \in Installers PROVE Knows(q)'
    BY <1>16 DEF Crash, Running, Fault, Goto, files, TypeOK, Knows, AfterManifest, AfterRoot, AfterPlace, PublishedIsWhole
  <2>3. PublishedIsWhole'
    BY <1>16, Zenon DEF Crash, Running, Fault, Goto, files, TypeOK, Knows, AfterManifest, AfterRoot, AfterPlace, PublishedIsWhole
  <2> QED BY <2>1, <2>2, <2>3
<1>17. CASE Error(p)
  <2>1. TypeOK'
    <3>1. CASE CopyDiffers(p)
      BY <1>17, <3>1 DEF Error, Fault, CopyDiffers, TypeOK, Knows, AfterPlace, Content, Steps
    <3>2. CASE RenameBlobFails(p)
      BY <1>17, <3>2 DEF Error, Fault, RenameBlobFails, TypeOK, Knows, AfterPlace, Content, Steps
    <3>3. CASE RootFails(p)
      BY <1>17, <3>3 DEF Error, Fault, RootFails, TypeOK, Knows, AfterPlace, Content, Steps
    <3>4. CASE RenameRegistrationFails(p)
      BY <1>17, <3>4 DEF Error, Fault, RenameRegistrationFails, Placed, Release, TypeOK, Knows, AfterPlace, Content, Steps
    <3>5. CASE at[p] = "manifest" /\ Discard(p)
      BY <1>17, <3>5 DEF Error, Fault, Discard, TypeOK, Knows, AfterPlace, Content, Steps
    <3> QED BY <1>17, <3>1, <3>2, <3>3, <3>4, <3>5, Zenon DEF Error
  <2>2. ASSUME NEW q \in Installers PROVE Knows(q)'
    BY <1>17 DEF Error, CopyDiffers, RenameBlobFails, RootFails, RenameRegistrationFails, Discard,
              Placed, Release, TypeOK, Knows, AfterManifest, AfterRoot, AfterPlace, PublishedIsWhole
  <2>3. PublishedIsWhole'
    BY <1>17 DEF Error, CopyDiffers, RenameBlobFails, RootFails, RenameRegistrationFails, Discard,
              Placed, Release, TypeOK, Knows, AfterManifest, AfterRoot, AfterPlace, PublishedIsWhole
  <2> QED BY <2>1, <2>2, <2>3
<1> QED
  BY <1>1, <1>2, <1>3, <1>4, <1>5, <1>6, <1>7, <1>8, <1>9, <1>10, <1>11, <1>12, <1>13, <1>14, <1>15, <1>16, <1>17, Zenon DEF Step

(* Whatever the numbers of installers, archives and faults, what others can
   see is complete: no partial archive or root under a final name, and every
   registration names a whole root of its release (install_archive_at). *)
THEOREM WhatIsPublishedIsWhole == Spec => []PublishedIsWhole
<1>1. InstallInv => PublishedIsWhole
  BY Zenon DEF InstallInv
<1> QED BY InitInstallInv, NextInstallInv, <1>1, PTL DEF Spec

=============================================================================
