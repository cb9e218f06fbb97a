--------------------------- MODULE PackageInstall ---------------------------
(***************************************************************************)
(* install_archive_at (package/install.rs): several processes install      *)
(* package archives into one distribution directory without any lock.      *)
(* Every step is one operation on the file system that others can see; a   *)
(* process may crash between any two of them, leaving its temporary files, *)
(* an operation may fail, and the archive may change while it is copied.   *)
(* Temporary names carry the process id, so a restarted process may find   *)
(* its own leftovers.  fs::rename replaces an existing file and refuses to *)
(* replace a directory that is not empty.                                  *)
(***************************************************************************)
EXTENDS Naturals, FiniteSets

CONSTANTS
  Installers,    \* processes
  Archives,      \* archives, named by their digests
  Invalid,       \* archives whose manifest read_archive rejects
  Unplaced,      \* archives whose identity is no coordinate tap:owner/name
  Releases,      \* coordinate and version, the names of registration files
  ReleaseOf,     \* Archives \ Unplaced -> Releases, from the manifest
  Nothing,       \* no archive
  MaxFaults      \* bound on crashes, failed operations and changed archives

ASSUME InstallConstants ==
  /\ Invalid \subseteq Archives
  /\ Unplaced \subseteq Archives
  /\ ReleaseOf \in [Archives \ Unplaced -> Releases]
  /\ Nothing \notin Archives
  /\ MaxFaults \in Nat

VARIABLES
  blob,           \* Archives -> content of archives/sha256/<digest>.harp
  root,           \* Archives -> content of roots/sha256/<digest>
  registration,   \* Releases -> the archive its file records, or Nothing
  temporary,      \* Installers -> Archives -> its copy of the archive
  scratch,        \* Installers -> Archives -> its extraction directory
  draft,          \* Installers -> Releases -> its temporary registration exists
  at,             \* Installers -> next step
  archive,        \* Installers -> archive being installed
  created,        \* Installers -> created_archive
  faults          \* faults so far

files   == <<blob, root, registration, temporary, scratch, draft>>
process == <<at, archive, created>>
vars    == <<files, process, faults>>

Content == {"absent", "partial", "whole"}
Steps == {"idle", "test-blob", "copy", "verify-copy", "rename-blob", "manifest", "test-root", "extract",
          "verify", "rename-root", "test-registration", "write-registration",
          "rename-registration", "installed", "failed"}

TypeOK ==
  /\ blob \in [Archives -> Content]
  /\ root \in [Archives -> Content]
  /\ registration \in [Releases -> Archives \cup {Nothing}]
  /\ temporary \in [Installers -> [Archives -> Content]]
  /\ scratch \in [Installers -> [Archives -> Content]]
  /\ draft \in [Installers -> [Releases -> BOOLEAN]]
  /\ at \in [Installers -> Steps]
  /\ archive \in [Installers -> Archives \cup {Nothing}]
  /\ created \in [Installers -> BOOLEAN]
  /\ faults \in 0 .. MaxFaults

Init ==
  /\ blob = [a \in Archives |-> "absent"]
  /\ root = [a \in Archives |-> "absent"]
  /\ registration = [r \in Releases |-> Nothing]
  /\ temporary = [p \in Installers |-> [a \in Archives |-> "absent"]]
  /\ scratch = [p \in Installers |-> [a \in Archives |-> "absent"]]
  /\ draft = [p \in Installers |-> [r \in Releases |-> FALSE]]
  /\ at = [p \in Installers |-> "idle"]
  /\ archive = [p \in Installers |-> Nothing]
  /\ created = [p \in Installers |-> FALSE]
  /\ faults = 0

Goto(p, step) == at' = [at EXCEPT ![p] = step] /\ UNCHANGED <<archive, faults>>

(* normalize_coordinate and split_coordinate: the name of the registration. *)
Placed(p) == archive[p] \notin Unplaced
Release(p) == ReleaseOf[archive[p]]

----------------------------------------------------------------------------
(* install_archive_at: the digest of the archive names every target. *)
Start(p, a) ==
  /\ at[p] \in {"idle", "installed"}
  /\ at' = [at EXCEPT ![p] = "test-blob"]
  /\ archive' = [archive EXCEPT ![p] = a]
  /\ created' = [created EXCEPT ![p] = FALSE]
  /\ UNCHANGED <<files, faults>>

(* The user tries again after an error or a crash. *)
Retry(p) ==
  /\ at[p] = "failed"
  /\ created' = [created EXCEPT ![p] = FALSE]
  /\ Goto(p, "test-blob")
  /\ UNCHANGED files

(* install_archive_blob: a cached archive must have the digest in its name. *)
TestBlob(p) ==
  /\ at[p] = "test-blob"
  /\ Goto(p, CASE blob[archive[p]] = "absent" -> "copy"
               [] blob[archive[p]] = "whole" -> "manifest"
               [] OTHER -> "failed")
  /\ UNCHANGED <<files, created>>

(* A stale copy is removed and the archive copied again. *)
Copy(p) ==
  /\ at[p] = "copy"
  /\ temporary' = [temporary EXCEPT ![p][archive[p]] = "partial"]
  /\ Goto(p, "verify-copy")
  /\ UNCHANGED <<blob, root, registration, scratch, draft, created>>

(* The digest of the finished copy is compared before it is renamed. *)
VerifyCopy(p) ==
  /\ at[p] = "verify-copy"
  /\ temporary' = [temporary EXCEPT ![p][archive[p]] = "whole"]
  /\ Goto(p, "rename-blob")
  /\ UNCHANGED <<blob, root, registration, scratch, draft, created>>

RenameBlob(p) ==
  /\ at[p] = "rename-blob"
  /\ blob' = [blob EXCEPT ![archive[p]] = temporary[p][archive[p]]]
  /\ temporary' = [temporary EXCEPT ![p][archive[p]] = "absent"]
  /\ created' = [created EXCEPT ![p] = TRUE]
  /\ Goto(p, "manifest")
  /\ UNCHANGED <<root, registration, scratch, draft>>

(* read_archive accepts; extraction, the next to open the archive, comes later. *)
ReadManifest(p) ==
  /\ at[p] = "manifest"
  /\ blob[archive[p]] = "whole"
  /\ archive[p] \notin Invalid
  /\ Goto(p, "test-root")
  /\ UNCHANGED <<files, created>>

(* Whoever created a cached archive that read_archive does not accept removes it. *)
Discard(p) ==
  /\ blob' = IF created[p] THEN [blob EXCEPT ![archive[p]] = "absent"] ELSE blob
  /\ at' = [at EXCEPT ![p] = "failed"]
  /\ UNCHANGED <<root, registration, temporary, scratch, draft, archive, created>>

RejectManifest(p) ==
  /\ at[p] = "manifest"
  /\ blob[archive[p]] # "whole" \/ archive[p] \in Invalid
  /\ Discard(p)
  /\ UNCHANGED faults

(* An existing root is validated against the manifest, a missing one extracted. *)
TestRoot(p) ==
  /\ at[p] = "test-root"
  /\ Goto(p, CASE root[archive[p]] = "absent" -> "extract"
               [] root[archive[p]] = "whole" -> "test-registration"
               [] OTHER -> "failed")
  /\ UNCHANGED <<files, created>>

(* Mutants: the scratch directory is published unverified; a stale one is an
   error. *)
Extract_unverified(p) ==
  /\ at[p] = "extract"
  /\ scratch' = [scratch EXCEPT ![p][archive[p]] = "partial"]
  /\ Goto(p, "rename-root")
  /\ UNCHANGED <<blob, root, registration, temporary, draft, created>>

Extract_refuses_stale(p) ==
  /\ at[p] = "extract"
  /\ scratch' = [scratch EXCEPT ![p][archive[p]] = "partial"]
  /\ Goto(p, IF scratch[p][archive[p]] = "absent" THEN "verify" ELSE "failed")
  /\ UNCHANGED <<blob, root, registration, temporary, draft, created>>

(* extract_package_root: a stale scratch directory is removed, a new one filled. *)
Extract(p) ==
  /\ at[p] = "extract"
  /\ scratch' = [scratch EXCEPT ![p][archive[p]] = "partial"]
  /\ Goto(p, "verify")
  /\ UNCHANGED <<blob, root, registration, temporary, draft, created>>

(* The archive is opened and unpacked; verify_files_at and
   validate_installed_root accept the result.  Without the archive, which its
   creator may have discarded, the scratch is removed again. *)
VerifyScratch(p) ==
  /\ at[p] = "verify"
  /\ scratch' = [scratch EXCEPT ![p][archive[p]] =
                   IF blob[archive[p]] = "whole" THEN "whole" ELSE "absent"]
  /\ Goto(p, IF blob[archive[p]] = "whole" THEN "rename-root" ELSE "failed")
  /\ UNCHANGED <<blob, root, registration, temporary, draft, created>>

(* The rename fails when another process has published the root meanwhile:
   then the scratch is removed and the whole installation fails. *)
RenameRoot(p) ==
  LET a == archive[p]
  IN /\ at[p] = "rename-root"
     /\ scratch' = [scratch EXCEPT ![p][a] = "absent"]
     /\ root' = IF root[a] = "absent" THEN [root EXCEPT ![a] = scratch[p][a]] ELSE root
     /\ Goto(p, IF root[a] = "absent" THEN "test-registration" ELSE "failed")
     /\ UNCHANGED <<blob, registration, temporary, draft, created>>

(* The identity must be a coordinate, which is looked at only now: the archive
   and its root stay where they are.  Then write_atomic, the test: an equal
   registration is success, any other one a conflict. *)
TestRegistration(p) ==
  /\ at[p] = "test-registration"
  /\ Goto(p, CASE ~Placed(p) -> "failed"
               [] Placed(p) /\ registration[Release(p)] = Nothing -> "write-registration"
               [] Placed(p) /\ registration[Release(p)] = archive[p] -> "installed"
               [] OTHER -> "failed")
  /\ UNCHANGED <<files, created>>

WriteRegistration(p) ==
  /\ at[p] = "write-registration"
  /\ draft' = [draft EXCEPT ![p][Release(p)] = TRUE]
  /\ Goto(p, "rename-registration")
  /\ UNCHANGED <<blob, root, registration, temporary, scratch, created>>

RenameRegistration(p) ==
  /\ at[p] = "rename-registration"
  /\ registration' = [registration EXCEPT ![Release(p)] = archive[p]]
  /\ draft' = [draft EXCEPT ![p][Release(p)] = FALSE]
  /\ Goto(p, "installed")
  /\ UNCHANGED <<blob, root, temporary, scratch, created>>

----------------------------------------------------------------------------
(* Faults *)

Running(p) == at[p] \notin {"idle", "installed", "failed"}
Fault == faults < MaxFaults /\ faults' = faults + 1

(* The process dies, or an operation fails whose error path cleans nothing up:
   the files stay as they are. *)
Crash(p) ==
  /\ Running(p)
  /\ Fault
  /\ at' = [at EXCEPT ![p] = "failed"]
  /\ UNCHANGED <<files, archive, created>>

(* The copy differs from the digest computed before. *)
CopyDiffers(p) ==
  /\ at[p] = "verify-copy"
  /\ temporary' = [temporary EXCEPT ![p][archive[p]] = "absent"]
  /\ at' = [at EXCEPT ![p] = "failed"]
  /\ UNCHANGED <<blob, root, registration, scratch, draft, archive, created>>

(* The rename of the archive fails; that is no error when the target is there
   by now with the same digest. *)
RenameBlobFails(p) ==
  /\ at[p] = "rename-blob"
  /\ temporary' = [temporary EXCEPT ![p][archive[p]] = "absent"]
  /\ at' = [at EXCEPT ![p] = IF blob[archive[p]] = "whole" THEN "manifest" ELSE "failed"]
  /\ UNCHANGED <<blob, root, registration, scratch, draft, archive, created>>

(* Extraction, verification or the rename of the root fails. *)
RootFails(p) ==
  /\ at[p] \in {"verify", "rename-root"}
  /\ scratch' = [scratch EXCEPT ![p][archive[p]] = "absent"]
  /\ at' = [at EXCEPT ![p] = "failed"]
  /\ UNCHANGED <<blob, root, registration, temporary, draft, archive, created>>

(* The rename of the registration fails; that is no error when the target is
   there by now with the same content. *)
RenameRegistrationFails(p) ==
  /\ at[p] = "rename-registration"
  /\ draft' = [draft EXCEPT ![p][Release(p)] = FALSE]
  /\ at' = [at EXCEPT ![p] = IF registration[Release(p)] = archive[p]
                            THEN "installed" ELSE "failed"]
  /\ UNCHANGED <<blob, root, registration, temporary, scratch, archive, created>>

(* An operation fails whose error path cleans up; reading the manifest is one. *)
Error(p) ==
  /\ Fault
  /\ \/ CopyDiffers(p)
     \/ RenameBlobFails(p)
     \/ RootFails(p)
     \/ RenameRegistrationFails(p)
     \/ at[p] = "manifest" /\ Discard(p)

Step(p) ==
  \/ TestBlob(p) \/ Copy(p) \/ VerifyCopy(p) \/ RenameBlob(p)
  \/ ReadManifest(p) \/ RejectManifest(p)
  \/ TestRoot(p) \/ Extract(p) \/ VerifyScratch(p) \/ RenameRoot(p)
  \/ TestRegistration(p) \/ WriteRegistration(p) \/ RenameRegistration(p)

Next ==
  \E p \in Installers :
    \/ \E a \in Archives : Start(p, a)
    \/ Retry(p)
    \/ Step(p)
    \/ Crash(p)
    \/ Error(p)

Spec == Init /\ [][Next]_vars

(* A running process goes on, and a failed installation is tried again. *)
FairSpec == Spec /\ \A p \in Installers : WF_vars(Step(p)) /\ WF_vars(Retry(p))

----------------------------------------------------------------------------
(* Properties *)

(* What others can see is complete at every moment, whatever crashed half way:
   no cached archive and no root is ever partial, and a registration names a
   valid archive whose identity is its release and whose root is extracted. *)
PublishedIsWhole ==
  /\ \A a \in Archives :
       /\ blob[a] # "partial" /\ root[a] # "partial"
       /\ root[a] = "whole" => a \notin Invalid
  /\ \A r \in Releases : registration[r] # Nothing =>
       /\ root[registration[r]] = "whole"
       /\ registration[r] \notin Unplaced /\ ReleaseOf[registration[r]] = r

(* An installation that is retried succeeds in the end, whatever faults and
   races with other installers of the same archive hit it: no leftover of a
   crash and no root published by somebody else stands in the way for good. *)
InstallationSucceeds ==
  \A p \in Installers, a \in Archives \ (Invalid \cup Unplaced) :
    (archive[p] = a) ~> (at[p] = "installed" \/ archive[p] # a)

(* A registration is never replaced by one of another archive: write_atomic
   answers "already records different package state" instead. *)
RegistrationIsKept ==
  [][\A r \in Releases : registration[r] # Nothing => registration'[r] = registration[r]]_vars

=============================================================================
