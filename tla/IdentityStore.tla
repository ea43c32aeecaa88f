---------------------------- MODULE IdentityStore ----------------------------
(***************************************************************************)
(* The data directories of the Gateway: the migration of a user's legacy   *)
(* directory to ProgramData through a staging directory, and the service   *)
(* that loads or creates its identity there.  A directory is a function    *)
(* from the names of its files to what they hold.  A process may die       *)
(* between any two steps and leave a file in part; the installer tries     *)
(* again.                                                                  *)
(***************************************************************************)
EXTENDS Integers

CONSTANTS
    NoDir,         \* the directory does not exist
    MaxFaults      \* bound: processes that die, copies that fail and writes that get lost

Identity    == {"certificate", "key", "uniqueId"}
Discardable == {"log", "sunshine-host"}
Names       == Identity \cup Discardable \cup {"hosts", "settings", "temporary"}

ASSUME StoreAssumption ==
    /\ MaxFaults \in Nat
    /\ \A names \in SUBSET Names : NoDir \notin [names -> Int]

\* What a file holds: data that is no identity, the identity of one origin, or a part of
\* its data that nothing can be made of (Torn).  A part of a unique id that is not empty
\* looks like another one (Part).  Creations are numbered from 1.
Torn   == -1
Other  == 0
Legacy == -2
Older  == -3
Part   == -4
Parts(n) == IF n = "uniqueId" THEN {Torn, Part} ELSE {Torn}

Files(d) == IF d = NoDir THEN {} ELSE DOMAIN d
Put(d, n, content) == [m \in DOMAIN d \cup {n} |-> IF m = n THEN content ELSE d[m]]
Without(d, n) == [m \in DOMAIN d \ {n} |-> d[m]]
Empty == [n \in {} |-> Other]

VARIABLES
    source,        \* the legacy directory, never written
    staging,       \* .MoonlightWebRTC.migration-staging
    dest,          \* MoonlightWebRTC under ProgramData
    pc,            \* the process that runs, if any, and its step
    writing,       \* the file it has begun
    outcome,       \* how the last migration ended: "none", "migrated", "authoritative", "failed"
    installed,     \* install-service.ps1 may start the service
    creations,     \* identities that the service has begun to create
    faults         \* processes that died, copies that failed and writes that got lost

dirVars   == <<source, staging, dest>>
storeVars == <<source, staging, dest, pc, writing, outcome, installed, creations, faults>>

Whole == [n \in Identity \cup {"hosts"} |-> Legacy]

StoreInit ==
    /\ source \in {NoDir, Whole, Without(Whole, "key")}
    /\ dest \in {NoDir, Empty, [n \in Discardable |-> Other], [n \in {"settings"} |-> Other],
                 [n \in {"uniqueId"} |-> Older], [n \in Identity |-> Older]}
    /\ staging = NoDir
    /\ pc = "idle" /\ writing = "none" /\ outcome = "none"
    /\ installed = FALSE /\ creations = 0 /\ faults = 0

NoIdentity(d) == Files(d) \cap Identity = {}
Complete(d)   == Identity \subseteq Files(d)

\* loadOrCreate and validateCredentials: the certificate and the key are readable and belong
\* together, and the unique id is not empty, which is all that is asked of it.
Loads(d) ==
    /\ Complete(d)
    /\ Torn \notin {d[n] : n \in Identity}
    /\ d["certificate"] = d["key"]

\* validateExistingStorageDirectory
Valid(d) == Loads(d) /\ ("hosts" \in Files(d) => d["hosts"] # Torn)

End(result) ==
    /\ pc' = "idle" /\ writing' = "none" /\ outcome' = result
    /\ installed' = (installed \/ result # "failed")
-----------------------------------------------------------------------------
(***************************************************************************)
(* migrateStorageDirectory                                                 *)
(***************************************************************************)
Fresh(d) == NoIdentity(d) /\ Files(d) \subseteq Discardable

\* A complete destination stays if it is valid; one with an identity in part, or with a
\* file that is not known, is refused.
KeepDestination ==
    /\ pc = "idle" /\ ~Fresh(dest)
    /\ End(IF Valid(dest) THEN "authoritative" ELSE "failed")
    /\ UNCHANGED <<dirVars, creations, faults>>

\* discardResidue, one file at a time; the checks go on from there.
DiscardResidue ==
    /\ pc = "idle" /\ Fresh(dest)
    /\ \E n \in Files(dest) : dest' = Without(dest, n)
    /\ UNCHANGED <<source, staging, pc, writing, outcome, installed, creations, faults>>

\* Without a legacy directory the installer has the destination checked against itself.
AcceptEmpty ==
    /\ pc = "idle" /\ Files(dest) = {} /\ source = NoDir
    /\ dest' = Empty /\ End("authoritative")
    /\ UNCHANGED <<source, staging, creations, faults>>

CheckSource ==
    /\ pc = "idle" /\ Files(dest) = {} /\ source # NoDir
    /\ IF Valid(source)
       THEN pc' = "stage" /\ UNCHANGED <<writing, outcome, installed>>
       ELSE End("failed")
    /\ UNCHANGED <<dirVars, creations, faults>>

\* Mutant: a staging directory is taken as it is found.
StagingUsableAnyway(d) == d # NoDir

\* A staging directory that an earlier attempt left and that is valid is used again.
StagingUsable(d) == Valid(d)

Stage ==
    /\ pc = "stage"
    /\ \/ StagingUsable(staging) /\ pc' = "publish" /\ UNCHANGED staging
       \/ ~StagingUsable(staging) /\ staging # NoDir /\ pc' = "clear" /\ UNCHANGED staging
       \/ staging = NoDir /\ pc' = "copy" /\ staging' = Empty
    /\ UNCHANGED <<source, dest, writing, outcome, installed, creations, faults>>

\* remove_all, before a new copy or after one that failed.
RemoveEntry ==
    /\ pc \in {"clear", "abandon"}
    /\ \E n \in Files(staging) : staging' = Without(staging, n)
    /\ UNCHANGED <<source, dest, pc, writing, outcome, installed, creations, faults>>

RemoveStaging ==
    /\ pc \in {"clear", "abandon"} /\ Files(staging) = {}
    /\ staging' = NoDir
    /\ IF pc = "clear"
       THEN pc' = "stage" /\ UNCHANGED <<writing, outcome, installed>>
       ELSE End("failed")
    /\ UNCHANGED <<source, dest, creations, faults>>

\* copyMigrationSource: the entries in the order of the directory iterator, which is any.
BeginCopy ==
    /\ pc = "copy" /\ writing = "none"
    /\ \E n \in Files(source) \ Files(staging) :
          writing' = n /\ \E part \in Parts(n) : staging' = Put(staging, n, part)
    /\ UNCHANGED <<source, dest, pc, outcome, installed, creations, faults>>

EndCopy ==
    /\ pc = "copy" /\ writing # "none"
    /\ staging' = Put(staging, writing, source[writing]) /\ writing' = "none"
    /\ UNCHANGED <<source, dest, pc, outcome, installed, creations, faults>>

\* A failed copy or check removes the staging directory.
CopyFails ==
    /\ pc = "copy" /\ faults < MaxFaults
    /\ pc' = "abandon" /\ writing' = "none" /\ faults' = faults + 1
    /\ UNCHANGED <<dirVars, outcome, installed, creations>>

FinishStaging ==
    /\ pc = "copy" /\ writing = "none" /\ Files(source) \subseteq Files(staging)
    /\ Valid(staging)
    /\ staging' = Put(staging, "log", Other) /\ pc' = "publish"
    /\ UNCHANGED <<source, dest, writing, outcome, installed, creations, faults>>

\* The empty destination goes first, and the rename follows.
RemoveEmpty ==
    /\ pc = "publish" /\ dest # NoDir
    /\ dest' = NoDir
    /\ UNCHANGED <<source, staging, pc, writing, outcome, installed, creations, faults>>

Publish ==
    /\ pc = "publish" /\ dest = NoDir
    /\ dest' = staging /\ staging' = NoDir
    /\ End("migrated")
    /\ UNCHANGED <<source, creations, faults>>

Migration ==
    \/ KeepDestination \/ DiscardResidue \/ AcceptEmpty \/ CheckSource \/ Stage
    \/ RemoveEntry \/ RemoveStaging \/ BeginCopy \/ EndCopy
    \/ FinishStaging \/ RemoveEmpty \/ Publish
-----------------------------------------------------------------------------
(***************************************************************************)
(* The service's MoonlightIdentity                                         *)
(***************************************************************************)
Next3(n) == CASE n = "certificate" -> "key" [] n = "key" -> "uniqueId" [] OTHER -> "none"

\* Mutant: credentials that are incomplete are created anew.
LoadOrCreateAnew ==
    /\ pc = "idle" /\ installed /\ dest # NoDir
    /\ IF ~Complete(dest)
       THEN pc' = "create" /\ writing' = "certificate" /\ creations' = creations + 1
       ELSE UNCHANGED <<pc, writing, creations>>
    /\ UNCHANGED <<dirVars, outcome, installed, faults>>

\* loadOrCreate: an identity in part is refused.
LoadOrCreate ==
    /\ pc = "idle" /\ installed /\ dest # NoDir
    /\ IF NoIdentity(dest)
       THEN pc' = "create" /\ writing' = "certificate" /\ creations' = creations + 1
       ELSE UNCHANGED <<pc, writing, creations>>
    /\ UNCHANGED <<dirVars, outcome, installed, faults>>

\* createCredentials writes its three files through temporaries.
WriteCredential ==
    /\ pc = "create" /\ pc' = "rename"
    /\ dest' = Put(dest, "temporary", Other)
    /\ UNCHANGED <<source, staging, writing, outcome, installed, creations, faults>>

\* The stream may lose its data when it is closed, which nothing looks at.
RenameCredential ==
    /\ pc = "rename"
    /\ \/ dest' = Put(Without(dest, "temporary"), writing, creations) /\ UNCHANGED faults
       \/ /\ faults < MaxFaults /\ faults' = faults + 1
          /\ \E part \in Parts(writing) :
                dest' = Put(Without(dest, "temporary"), writing, part)
    /\ writing' = Next3(writing)
    /\ pc' = IF writing' = "none" THEN "idle" ELSE "create"
    /\ UNCHANGED <<source, staging, outcome, installed, creations>>

Service == LoadOrCreate \/ WriteCredential \/ RenameCredential

\* The process dies, or writeTextFile throws, which ends the start of the service.
Die ==
    /\ pc # "idle" /\ faults < MaxFaults
    /\ pc' = "idle" /\ writing' = "none" /\ faults' = faults + 1
    /\ UNCHANGED <<dirVars, outcome, installed, creations>>

StoreNext == Migration \/ CopyFails \/ Service \/ Die

\* The installer is run until the migration succeeds.
StoreFairness == WF_storeVars(Migration)

StoreSpec == StoreInit /\ [][StoreNext]_storeVars /\ StoreFairness
-----------------------------------------------------------------------------
\* What a failure may leave of a file in a directory of this origin, as nothing would
\* notice: a part of the unique id, and any part of a file that the service created and
\* whose data got lost.
PartOf(n, content, origin) ==
    /\ faults > 0
    /\ \/ n = "uniqueId" /\ content = Part
       \/ origin > 0 /\ content = Torn

SingleOrigin(d) ==
    \E origin \in {Legacy, Older} \cup 1..creations :
        \A n \in Identity : d[n] = origin \/ PartOf(n, d[n], origin)

\* No file of an identity in ProgramData is ever replaced or removed, by a migration, a
\* start or a crash, and a complete one has a single origin: hosts paired with the
\* Gateway go on knowing it.  Two things a failure may damage: a copy that was cut off may
\* be published with a part of the unique id, which is only looked at for being not empty
\* (MoonlightIdentity.cpp:320, :424), and a created file may have lost its data unnoticed
\* (:45-53).  Certificate and key of a migrated identity are always whole.
IdentityKept ==
    [][ /\ \A n \in Identity \cap Files(dest) : n \in Files(dest') /\ dest'[n] = dest[n]
        /\ (Complete(dest) => SingleOrigin(dest))' ]_storeVars

\* A migration of a whole legacy directory to a fresh destination gets there however
\* often it is interrupted, as the next attempt repairs what the last one left.
MigrationRecovers ==
    ~installed /\ source = Whole /\ Fresh(dest) ~> Loads(dest)

\* "The staging directory is complete and valid. If a prior attempt stopped after
\* staging, this publishes that same validated copy" (MoonlightIdentity.cpp:353-354):
\* what is published holds every file of the legacy directory.
MigrationPublishesAll == outcome = "migrated" => Files(source) \subseteq Files(dest)
=============================================================================
