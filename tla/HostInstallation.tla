-------------------------- MODULE HostInstallation --------------------------
(***************************************************************************)
(* Installing the runtime on a host and activating repositories for it:    *)
(* installRuntimeHostV4, verifyRuntimeHostInstallationV4,                  *)
(* activateRuntimeRepositoryV4 and verifyRuntimeRepositoryActivationV4     *)
(* (src/runtime/host-installation.ts), run by independent command line     *)
(* processes that may crash between any two file operations.               *)
(*                                                                         *)
(* A bundle is a function from its files to versions; the installation     *)
(* identity is the hash of the bundle, here the bundle itself.             *)
(***************************************************************************)
EXTENDS Naturals, FiniteSets

CONSTANTS
    BundleFiles,    \* the files of a bundle, numbered in the order of their paths
    Repositories,   \* git roots
    RepositoryIds,  \* identities a repository policy can name
    Installers, Activators,
    MaxEdits,       \* bound on edits of the source tree
    MaxHostFaults   \* bound on crashes

ASSUME HostAssumption ==
    /\ Repositories # {} /\ MaxEdits \in Nat /\ MaxHostFaults \in Nat
    /\ BundleFiles = 1 .. Cardinality(BundleFiles)

VARIABLES
    iSource,      \* file -> version in the source tree
    iEdits, iFaults,
    iInstalled,   \* identity -> files under installations/<identity>
    iInstaller,   \* installer -> what it is doing
    iPolicy,      \* repository -> the identity its policy names
    iActivation,  \* repository -> identity in its activation-v4.json, or Absent
    iCodex,       \* repository -> what .codex/config.toml renders, or Absent
    iRegistry,    \* registered repository id -> repository
    iLock,        \* the registry lock file exists
    iActivator,   \* activator -> what it is doing
    iActivated    \* repositories some activation of which has returned

hostVars == <<iSource, iEdits, iFaults, iInstalled, iInstaller, iPolicy,
              iActivation, iCodex, iRegistry, iLock, iActivator, iActivated>>
installVars == <<iSource, iEdits, iInstalled, iInstaller>>
activateVars == <<iPolicy, iActivation, iCodex, iRegistry, iLock, iActivator, iActivated>>

Versions == 0 .. MaxEdits
Bundles == [BundleFiles -> Versions]
Unread == MaxEdits + 1        \* a file that is not read or copied yet
Partial == [BundleFiles -> Versions \cup {Unread}]
NothingRead == [f \in BundleFiles |-> Unread]
Absent == NothingRead         \* stands for a file that does not exist
\* A table with one entry added or replaced.
With(table, key, value) ==
    [k \in DOMAIN table \cup {key} |-> IF k = key THEN value ELSE table[k]]
IdleInstaller == [at |-> "idle", hashed |-> NothingRead, copied |-> NothingRead]
IdleActivator == [at |-> "idle", repository |-> CHOOSE r \in Repositories : TRUE,
                  installation |-> Absent, codex |-> Absent, registry |-> <<>>]

-----------------------------------------------------------------------------
(***************************************************************************)
(* installRuntimeHostV4: hash the source files one by one, then copy them  *)
(* one by one, comparing each copy with its hash.                          *)
(***************************************************************************)
EditSource(file) ==
    /\ iEdits < MaxEdits
    /\ iEdits' = iEdits + 1
    /\ iSource' = [iSource EXCEPT ![file] = iEdits + 1]
    /\ UNCHANGED <<iFaults, iInstalled, iInstaller, activateVars>>

SetInstaller(i, value) ==
    /\ iInstaller' = [iInstaller EXCEPT ![i] = value]
    /\ UNCHANGED <<iSource, iEdits, iFaults, activateVars>>

HashSource(i, file) ==
    /\ iInstaller[i].at = "idle" /\ iInstaller[i].hashed[file] = Unread
    /\ SetInstaller(i, [iInstaller[i] EXCEPT !.hashed[file] = iSource[file]])
    /\ UNCHANGED iInstalled

(* An installation of the same identity is verified and returned as it is. *)
CheckExisting(i) ==
    /\ iInstaller[i].at = "idle" /\ iInstaller[i].hashed \in Bundles
    /\ SetInstaller(i, IF iInstaller[i].hashed \in DOMAIN iInstalled
                       THEN IdleInstaller
                       ELSE [iInstaller[i] EXCEPT !.at = "copying"])
    /\ UNCHANGED iInstalled

CopyMatches(i, file) == iSource[file] = iInstaller[i].hashed[file]
CopyFile(i, file) ==
    /\ iInstaller[i].at = "copying" /\ iInstaller[i].copied[file] = Unread
    /\ \A earlier \in 1 .. file - 1 : iInstaller[i].copied[earlier] # Unread
    /\ SetInstaller(i, IF CopyMatches(i, file)
                       THEN [iInstaller[i] EXCEPT !.copied[file] = iSource[file]]
                       ELSE IdleInstaller)    \* the temporary tree is removed
    /\ UNCHANGED iInstalled

(* The manifest is written into the temporary tree and the tree renamed;   *)
(* renaming onto a directory that exists fails.                            *)
PublishInstallation(i) ==
    /\ iInstaller[i].at = "copying" /\ iInstaller[i].copied \in Bundles
    /\ iInstalled' = IF iInstaller[i].hashed \in DOMAIN iInstalled THEN iInstalled
                     ELSE With(iInstalled, iInstaller[i].hashed, iInstaller[i].copied)
    /\ SetInstaller(i, IdleInstaller)

-----------------------------------------------------------------------------
(***************************************************************************)
(* verifyRuntimeHostInstallationV4                                         *)
(***************************************************************************)
Verified(installation) ==
    installation \in DOMAIN iInstalled /\ iInstalled[installation] = installation

(***************************************************************************)
(* activateRuntimeRepositoryV4                                             *)
(***************************************************************************)
SetActivator(a, value) ==
    /\ iActivator' = [iActivator EXCEPT ![a] = value]
    /\ UNCHANGED <<iFaults, iPolicy, installVars>>

(* The rendered Codex configuration depends on the installation alone. *)
BeginActivation(a, repository, installation) ==
    /\ iActivator[a].at = "idle"
    /\ Verified(installation)
    /\ iCodex[repository] \in {Absent, installation}
    /\ iActivation[repository] \in {Absent, installation}
    /\ SetActivator(a, [IdleActivator EXCEPT
                           !.at = IF iActivation[repository] = Absent THEN "activation" ELSE "lock",
                           !.repository = repository, !.installation = installation,
                           !.codex = iCodex[repository]])
    /\ UNCHANGED <<iActivation, iCodex, iRegistry, iLock, iActivated>>

(* atomicJson replaces a manifest that another activation wrote meanwhile. *)
WriteActivation(a) ==
    /\ iActivator[a].at = "activation"
    /\ iActivation' = [iActivation EXCEPT ![iActivator[a].repository] = iActivator[a].installation]
    /\ SetActivator(a, [iActivator[a] EXCEPT !.at = "lock"])
    /\ UNCHANGED <<iCodex, iRegistry, iLock, iActivated>>

\* Mutant: an existing lock file is ignored.
TakeRegistryLockAnyway(a) ==
    /\ iActivator[a].at = "lock"
    /\ iLock' = TRUE
    /\ SetActivator(a, [iActivator[a] EXCEPT !.at = "read"])
    /\ UNCHANGED <<iActivation, iCodex, iRegistry, iActivated>>

TakeRegistryLock(a) ==
    /\ iActivator[a].at = "lock"
    /\ iLock' = TRUE
    /\ SetActivator(a, IF iLock THEN IdleActivator     \* repository registry is busy
                       ELSE [iActivator[a] EXCEPT !.at = "read"])
    /\ UNCHANGED <<iActivation, iCodex, iRegistry, iActivated>>

ReadRegistry(a) ==
    LET r == iActivator[a].repository
        taken == iPolicy[r] \in DOMAIN iRegistry /\ iRegistry[iPolicy[r]] # r IN
    /\ iActivator[a].at = "read"
    /\ iLock' = ~taken
    /\ SetActivator(a, IF taken THEN IdleActivator
                       ELSE [iActivator[a] EXCEPT !.at = "write", !.registry = iRegistry])
    /\ UNCHANGED <<iActivation, iCodex, iRegistry, iActivated>>

WriteRegistry(a) ==
    LET r == iActivator[a].repository IN
    /\ iActivator[a].at = "write"
    /\ iRegistry' = With(iActivator[a].registry, iPolicy[r], r)
    /\ SetActivator(a, [iActivator[a] EXCEPT !.at = "unlock", !.registry = <<>>])
    /\ UNCHANGED <<iActivation, iCodex, iLock, iActivated>>

ReleaseRegistryLock(a) ==
    /\ iActivator[a].at = "unlock"
    /\ iLock' = FALSE
    /\ SetActivator(a, [iActivator[a] EXCEPT !.at = "codex"])
    /\ UNCHANGED <<iActivation, iCodex, iRegistry, iActivated>>

(* The configuration is created exclusively: another activation may have   *)
(* written it since this one looked.                                       *)
WriteCodex(a) ==
    LET r == iActivator[a].repository
        late == iActivator[a].codex = Absent /\ iCodex[r] # Absent IN
    /\ iActivator[a].at = "codex"
    /\ iCodex' = IF iCodex[r] = Absent
                 THEN [iCodex EXCEPT ![r] = iActivator[a].installation] ELSE iCodex
    /\ iActivated' = IF late THEN iActivated ELSE iActivated \cup {r}
    /\ SetActivator(a, IdleActivator)
    /\ UNCHANGED <<iActivation, iRegistry, iLock>>

-----------------------------------------------------------------------------
(* A crash leaves every file as it is, the registry lock included. *)
CrashInstaller(i) ==
    /\ iFaults < MaxHostFaults /\ iInstaller[i] # IdleInstaller
    /\ iFaults' = iFaults + 1
    /\ iInstaller' = [iInstaller EXCEPT ![i] = IdleInstaller]
    /\ UNCHANGED <<iSource, iEdits, iInstalled, activateVars>>

CrashActivator(a) ==
    /\ iFaults < MaxHostFaults /\ iActivator[a].at # "idle"
    /\ iFaults' = iFaults + 1
    /\ iActivator' = [iActivator EXCEPT ![a] = IdleActivator]
    /\ UNCHANGED <<iPolicy, iActivation, iCodex, iRegistry, iLock, iActivated, installVars>>

HostInit ==
    /\ iSource = [f \in BundleFiles |-> 0] /\ iEdits = 0 /\ iFaults = 0
    /\ iInstalled = <<>>
    /\ iInstaller = [i \in Installers |-> IdleInstaller]
    /\ iPolicy \in [Repositories -> RepositoryIds]
    /\ iActivation = [r \in Repositories |-> Absent]
    /\ iCodex = [r \in Repositories |-> Absent]
    /\ iRegistry = <<>> /\ iLock = FALSE
    /\ iActivator = [a \in Activators |-> IdleActivator]
    /\ iActivated = {}

HostNext ==
    \/ \E f \in BundleFiles : EditSource(f)
    \/ \E i \in Installers :
          \/ \E f \in BundleFiles : HashSource(i, f) \/ CopyFile(i, f)
          \/ CheckExisting(i) \/ PublishInstallation(i) \/ CrashInstaller(i)
    \/ \E a \in Activators :
          \/ \E r \in Repositories, b \in DOMAIN iInstalled : BeginActivation(a, r, b)
          \/ WriteActivation(a) \/ TakeRegistryLock(a) \/ ReadRegistry(a)
          \/ WriteRegistry(a) \/ ReleaseRegistryLock(a) \/ WriteCodex(a)
          \/ CrashActivator(a)

HostSpec == HostInit /\ [][HostNext]_hostVars
-----------------------------------------------------------------------------
(* Type invariant of the host's files and commands. *)
HostTypeOK ==
    /\ iSource \in Bundles /\ iEdits \in 0 .. MaxEdits /\ iFaults \in 0 .. MaxHostFaults
    /\ DOMAIN iInstalled \subseteq Bundles
    /\ \A i \in Installers : /\ iInstaller[i].at \in {"idle", "copying"}
                             /\ iInstaller[i].hashed \in Partial
    /\ iActivation \in [Repositories -> Partial] /\ iCodex \in [Repositories -> Partial]
    /\ DOMAIN iRegistry \subseteq RepositoryIds
    /\ iLock \in BOOLEAN /\ iActivated \subseteq Repositories

(* However installers, activators, edits of the source and crashes         *)
(* interleave, an installation holds exactly the files its identity        *)
(* promises, a repository whose activation returned stays registered under *)
(* its identity (two identities never share a registration), and what the  *)
(* registry names is activated for an installation that was verified       *)
(* (host-installation.ts installRuntimeHostV4, the registry lock).         *)
RegistrationsKept ==
    /\ \A b \in DOMAIN iInstalled : iInstalled[b] = b
    /\ \A r \in iActivated : /\ iPolicy[r] \in DOMAIN iRegistry
                             /\ iRegistry[iPolicy[r]] = r
    /\ \A id \in DOMAIN iRegistry : iActivation[iRegistry[id]] \in DOMAIN iInstalled
=============================================================================
