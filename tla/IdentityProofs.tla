--------------------------- MODULE IdentityProofs ---------------------------
(***************************************************************************)
(* Theorems about IdentityStore, for any number of processes that die,     *)
(* copies that fail and writes that get lost.                              *)
(***************************************************************************)
EXTENDS IdentityStore, TLAPS

Directory == UNION {[names -> Int] : names \in SUBSET Names}

Steps == {"idle", "stage", "clear", "copy", "abandon", "publish", "create", "rename"}

StoreTypeOK ==
    /\ source \in Directory \cup {NoDir} /\ staging \in Directory \cup {NoDir}
    /\ dest \in Directory \cup {NoDir}
    /\ pc \in Steps /\ creations \in Nat /\ faults \in Nat

\* What a file of the staging directory may hold: what the legacy one does, or a part of it
\* while it is copied or when a copy was cut off.
StagingSafe ==
    \A n \in Identity \cap Files(staging) :
        \/ staging[n] = Legacy
        \/ ((pc = "copy" /\ n = writing) \/ faults > 0) /\ staging[n] \in Parts(n)

\* A migration works on a destination that holds nothing, and publishes a certificate and
\* a key that are whole and of the legacy directory, and its unique id or a part of it.
MigrationSafe ==
    /\ \A n \in Identity \cap Files(source) : source[n] = Legacy
    /\ StagingSafe
    /\ pc \in {"stage", "clear", "copy", "abandon", "publish"} => Files(dest) = {}
    /\ pc \in {"clear", "copy", "abandon", "publish"} => staging # NoDir
    /\ pc \notin {"copy", "create", "rename"} => writing = "none"
    /\ pc = "copy" /\ writing # "none" => writing \in Files(source)
    /\ pc = "publish" => Valid(staging)

Origin(d) == Complete(d) => SingleOrigin(d)

\* What the files may hold that this creation has written.
CreatedOnly ==
    \A n \in Identity \cap Files(dest) :
        dest[n] = creations \/ (faults > 0 /\ dest[n] \in Parts(n))

\* The service creates an identity from nothing: while it does, the destination has the
\* files before the one it writes, all of this creation, and no other.
CreationSafe ==
    /\ Origin(dest)
    /\ pc \in {"create", "rename"} =>
          /\ dest # NoDir /\ writing \in Identity /\ creations > 0
          /\ CreatedOnly
          /\ writing = "certificate" => Identity \cap Files(dest) = {}
          /\ writing = "key" => Identity \cap Files(dest) = {"certificate"}
          /\ writing = "uniqueId" => Identity \cap Files(dest) = {"certificate", "key"}

StoreInv == StoreTypeOK /\ MigrationSafe /\ CreationSafe

\* What IdentityKept says of one step.
Keeps ==
    /\ \A n \in Identity \cap Files(dest) : n \in Files(dest') /\ dest'[n] = dest[n]
    /\ Origin(dest)'
-----------------------------------------------------------------------------
\* A directory is not the value that stands for none, and its files are among the names.
LEMMA DirectoryFacts ==
    ASSUME NEW d \in Directory
    PROVE  /\ d # NoDir /\ Files(d) = DOMAIN d /\ Files(d) \subseteq Names
           /\ \A n \in Files(d) : d[n] \in Int
BY StoreAssumption DEF Directory, Files

\* A file that is written is there, and the others are as they were.
LEMMA PutFacts ==
    ASSUME NEW d \in Directory, NEW n \in Names, NEW c \in Int
    PROVE  /\ Put(d, n, c) \in Directory
           /\ Files(Put(d, n, c)) = Files(d) \cup {n}
           /\ Put(d, n, c)[n] = c
           /\ \A m \in Files(d) \ {n} : Put(d, n, c)[m] = d[m]
<1>1. DOMAIN d \in SUBSET Names /\ \A m \in DOMAIN d : d[m] \in Int
  BY DEF Directory
<1>2. Put(d, n, c) \in [DOMAIN d \cup {n} -> Int]
  BY <1>1 DEF Put
<1>3. Put(d, n, c) \in Directory
  BY <1>1, <1>2 DEF Directory
<1>4. DOMAIN Put(d, n, c) = DOMAIN d \cup {n}
  BY DEF Put
<1>5. QED
  BY <1>3, <1>4, DirectoryFacts DEF Put

\* A file that is removed is gone, and the others are as they were.
LEMMA WithoutFacts ==
    ASSUME NEW d \in Directory, NEW n
    PROVE  /\ Without(d, n) \in Directory
           /\ Files(Without(d, n)) = Files(d) \ {n}
           /\ \A m \in Files(d) \ {n} : Without(d, n)[m] = d[m]
<1>1. DOMAIN d \in SUBSET Names /\ \A m \in DOMAIN d : d[m] \in Int
  BY DEF Directory
<1>2. Without(d, n) \in [DOMAIN d \ {n} -> Int]
  BY <1>1 DEF Without
<1>3. Without(d, n) \in Directory
  BY <1>1, <1>2 DEF Directory
<1>4. DOMAIN Without(d, n) = DOMAIN d \ {n}
  BY DEF Without
<1>5. QED
  BY <1>3, <1>4, DirectoryFacts DEF Without

\* An empty directory, and one that does not exist, have no files.
LEMMA EmptyFacts == Empty \in Directory /\ Files(Empty) = {} /\ Files(NoDir) = {}
<1>1. Empty \in [{} -> Int] /\ DOMAIN Empty = {}
  BY DEF Empty, Other
<1>2. Empty \in Directory
  BY <1>1 DEF Directory
<1>3. QED
  BY <1>1, <1>2, DirectoryFacts DEF Files

\* A valid staging directory is of the legacy directory, and whole but for the unique id,
\* of which it has a part only after a failure.
LEMMA ValidIsLegacy ==
    ASSUME StagingSafe, Valid(staging), pc # "copy"
    PROVE  /\ Complete(staging) /\ staging["certificate"] = Legacy /\ staging["key"] = Legacy
           /\ staging["uniqueId"] = Legacy \/ (faults > 0 /\ staging["uniqueId"] = Part)
<1>1. Complete(staging) /\ \A n \in Identity : staging[n] # Torn
  BY DEF Valid, Loads
<1>2. \A n \in Identity :
         staging[n] = Legacy \/ (faults > 0 /\ n = "uniqueId" /\ staging[n] = Part)
  BY <1>1 DEF StagingSafe, Parts, Complete, Identity
<1>3. QED
  BY <1>1, <1>2 DEF Identity

\* Files of one creation, in part or not, are of a single origin.
LEMMA CreatedHasOrigin ==
    ASSUME creations' \in Nat, creations' > 0, CreatedOnly'
    PROVE  Origin(dest)'
<1> SUFFICES ASSUME Complete(dest)' PROVE SingleOrigin(dest)'
  BY DEF Origin
<1>1. \A n \in Identity : dest'[n] = creations' \/ (faults' > 0 /\ dest'[n] \in Parts(n))
  BY DEF CreatedOnly, Complete, Files, Parts
<1>2. creations' \in {Legacy, Older} \cup 1..creations'
  OBVIOUS
<1>3. \A n \in Identity : dest'[n] = creations' \/ PartOf(n, dest[n], creations)'
  BY <1>1 DEF PartOf, Parts
<1>4. QED
  BY <1>2, <1>3 DEF SingleOrigin

\* A destination without an identity has nothing to mix.
LEMMA NoOrigin ==
    ASSUME ~(Identity \subseteq Files(dest'))
    PROVE  Origin(dest)'
BY DEF Origin, Complete, Files
-----------------------------------------------------------------------------
(***************************************************************************)
(* The actions.  Most leave the destination alone.                         *)
(***************************************************************************)
\* A single origin stays one as failures add up.
LEMMA OriginStays ==
    ASSUME Origin(dest), dest' = dest, faults > 0 => faults' > 0,
           creations \in Nat, creations' \in {creations, creations + 1}
    PROVE  Origin(dest)'
<1> SUFFICES ASSUME Complete(dest) PROVE SingleOrigin(dest)'
  BY DEF Origin, Complete, Files
<1>1. PICK origin \in {Legacy, Older} \cup 1..creations :
         \A n \in Identity : dest[n] = origin \/ PartOf(n, dest[n], origin)
  BY DEF Origin, SingleOrigin
<1>2. origin \in {Legacy, Older} \cup 1..creations'
  OBVIOUS
<1>3. \A n \in Identity : dest'[n] = origin \/ PartOf(n, dest[n], origin)'
  BY <1>1 DEF PartOf
<1>4. QED
  BY <1>2, <1>3 DEF SingleOrigin

\* What is left of a staging directory is as good as it was, the file that was being copied
\* when a failure came included.
LEMMA StagingStays ==
    ASSUME StagingSafe, faults \in Nat, faults' \in {faults, faults + 1},
           \/ ~(pc = "copy" /\ writing # "none")
           \/ UNCHANGED <<pc, writing>>
           \/ faults' > 0,
           \A n \in Files(staging') : n \in Files(staging) /\ staging'[n] = staging[n]
    PROVE  StagingSafe'
BY DEF StagingSafe, Parts, Identity, Files

\* A step that leaves the destination alone keeps its identity.
LEMMA SameDestination ==
    ASSUME StoreInv, dest' = dest, faults' \in {faults, faults + 1},
           creations' \in {creations, creations + 1}
    PROVE  Keeps /\ Origin(dest)'
<1>1. (faults > 0 => faults' > 0) /\ creations \in Nat
  BY DEF StoreInv, StoreTypeOK
<1>2. Origin(dest)'
  BY <1>1, OriginStays DEF StoreInv, CreationSafe
<1>3. QED
  BY <1>2 DEF Keeps

\* The invariant holds of every destination and legacy directory a first run may find.
LEMMA InitHolds == ASSUME StoreInit PROVE StoreInv
<1> USE DEF Names, Identity, Discardable
<1>1. Whole \in Directory /\ Files(Whole) = Identity \cup {"hosts"}
      /\ \A n \in Identity : Whole[n] = Legacy
  <2>1. Whole \in [Identity \cup {"hosts"} -> Int]
    BY DEF Whole, Legacy
  <2>2. Whole \in Directory
    BY <2>1 DEF Directory
  <2>3. QED
    BY <2>1, <2>2, DirectoryFacts DEF Whole
<1>2. /\ Without(Whole, "key") \in Directory
      /\ \A n \in Identity \cap Files(Without(Whole, "key")) : Without(Whole, "key")[n] = Legacy
  BY <1>1, WithoutFacts
<1>3. source \in Directory \cup {NoDir} /\ \A n \in Identity \cap Files(source) : source[n] = Legacy
  BY <1>1, <1>2, EmptyFacts DEF StoreInit
<1>4. ASSUME NEW names \in SUBSET Names, NEW c \in Int, dest = [n \in names |-> c],
             c = Older \/ ~(Identity \subseteq names)
      PROVE  dest \in Directory /\ Origin(dest)
  <2>1. dest \in [names -> Int] /\ DOMAIN dest = names
    BY <1>4
  <2>2. dest \in Directory
    BY <2>1 DEF Directory
  <2>3. QED
    BY <1>4, <2>1, <2>2, DirectoryFacts DEF Origin, Complete, SingleOrigin, Identity
<1>5. dest \in Directory \cup {NoDir} /\ Origin(dest)
  <2>1. CASE dest = NoDir
    BY <2>1, EmptyFacts DEF Origin, Complete
  <2>2. CASE dest = Empty
    BY <2>2, EmptyFacts DEF Origin, Complete
  <2>3. CASE dest = [n \in Discardable |-> Other] \/ dest = [n \in {"settings"} |-> Other]
    BY <2>3, <1>4 DEF Other
  <2>4. CASE dest = [n \in {"uniqueId"} |-> Older] \/ dest = [n \in Identity |-> Older]
    BY <2>4, <1>4 DEF Older
  <2>5. QED
    BY <2>1, <2>2, <2>3, <2>4 DEF StoreInit
<1>6. QED
  BY <1>3, <1>5, EmptyFacts DEF StoreInit, StoreInv, StoreTypeOK, MigrationSafe, StagingSafe,
                                CreationSafe, Steps

\* Each step of a migration keeps the invariant, and the destination's identity.
LEMMA MigrationKeeps ==
    ASSUME StoreInv, Migration
    PROVE  StoreInv' /\ Keeps
<1> USE DEF StoreInv, StoreTypeOK, MigrationSafe, CreationSafe, Steps
<1>1. CASE KeepDestination
  <2>1. StagingSafe' /\ Keeps /\ Origin(dest)'
    BY <1>1, SameDestination, StagingStays DEF KeepDestination, dirVars
  <2>2. QED
    BY <1>1, <2>1 DEF KeepDestination, End, dirVars
<1>2. CASE DiscardResidue
  <2>1. PICK n \in Files(dest) : dest' = Without(dest, n)
    BY <1>2 DEF DiscardResidue
  <2>2. dest \in Directory /\ Identity \cap Files(dest) = {}
    BY <1>2, EmptyFacts DEF DiscardResidue, Fresh, NoIdentity
  <2>3. dest' \in Directory /\ Files(dest') = Files(dest) \ {n}
    BY <2>1, <2>2, WithoutFacts
  <2>4. Origin(dest)' /\ Keeps
    BY <2>2, <2>3, NoOrigin DEF Keeps, Identity
  <2>5. StagingSafe'
    BY <1>2, StagingStays DEF DiscardResidue
  <2>6. QED
    BY <1>2, <2>3, <2>4, <2>5 DEF DiscardResidue
<1>3. CASE AcceptEmpty
  <2>1. dest' \in Directory /\ Files(dest') = {} /\ Files(dest) = {}
    BY <1>3, EmptyFacts DEF AcceptEmpty
  <2>2. Origin(dest)' /\ Keeps
    BY <2>1, NoOrigin DEF Keeps, Identity
  <2>3. StagingSafe'
    BY <1>3, StagingStays DEF AcceptEmpty
  <2>4. QED
    BY <1>3, <2>1, <2>2, <2>3 DEF AcceptEmpty, End
<1>4. CASE CheckSource
  <2>1. StagingSafe' /\ Keeps /\ Origin(dest)'
    BY <1>4, SameDestination, StagingStays DEF CheckSource, dirVars
  <2>2. QED
    BY <1>4, <2>1 DEF CheckSource, End, dirVars
<1>5. CASE Stage
  <2>1. Keeps /\ Origin(dest)' /\ dest' = dest /\ writing = "none"
    BY <1>5, SameDestination DEF Stage
  <2>2. CASE StagingUsable(staging) /\ pc' = "publish" /\ UNCHANGED staging
    <3>1. staging # NoDir
      BY <2>2, EmptyFacts DEF StagingUsable, Valid, Loads, Complete, Identity
    <3>2. StagingSafe'
      BY <1>5, <2>2, StagingStays DEF Stage
    <3>3. QED
      BY <1>5, <2>1, <2>2, <3>1, <3>2 DEF Stage, StagingUsable
  <2>3. CASE staging # NoDir /\ pc' = "clear" /\ UNCHANGED staging
    <3>1. StagingSafe'
      BY <1>5, <2>3, StagingStays DEF Stage
    <3>2. QED
      BY <1>5, <2>1, <2>3, <3>1 DEF Stage
  <2>4. CASE staging = NoDir /\ pc' = "copy" /\ staging' = Empty
    <3>1. StagingSafe'
      BY <1>5, <2>4, EmptyFacts DEF StagingSafe
    <3>2. QED
      BY <1>5, <2>1, <2>4, <3>1, EmptyFacts, DirectoryFacts DEF Stage
  <2>5. QED
    BY <1>5, <2>2, <2>3, <2>4 DEF Stage
<1>6. CASE RemoveEntry
  <2>1. PICK n \in Files(staging) : staging' = Without(staging, n)
    BY <1>6 DEF RemoveEntry
  <2>2. staging \in Directory
    BY <1>6 DEF RemoveEntry
  <2>3. /\ staging' \in Directory /\ staging' # NoDir
        /\ \A m \in Files(staging') : m \in Files(staging) /\ staging'[m] = staging[m]
    BY <2>1, <2>2, WithoutFacts, DirectoryFacts
  <2>4. StagingSafe' /\ Keeps /\ Origin(dest)'
    BY <1>6, <2>3, StagingStays, SameDestination DEF RemoveEntry
  <2>5. QED
    BY <1>6, <2>3, <2>4 DEF RemoveEntry
<1>7. CASE RemoveStaging
  <2>1. StagingSafe' /\ Keeps /\ Origin(dest)'
    BY <1>7, StagingStays, SameDestination, EmptyFacts DEF RemoveStaging
  <2>2. QED
    BY <1>7, <2>1, EmptyFacts DEF RemoveStaging, End
<1>8. CASE BeginCopy
  <2>1. PICK n \in Files(source), part \in {Torn, Part} :
           part \in Parts(n) /\ writing' = n /\ staging' = Put(staging, n, part)
    BY <1>8 DEF BeginCopy, Parts
  <2>2. staging \in Directory /\ source \in Directory
    BY <1>8, <2>1, EmptyFacts DEF BeginCopy
  <2>3. n \in Names /\ part \in Int
    BY <2>1, <2>2, DirectoryFacts DEF Parts, Torn, Part
  <2>4. staging' \in Directory /\ staging' # NoDir /\ StagingSafe'
    <3>1. StagingSafe /\ writing = "none" /\ faults' = faults /\ pc' = "copy"
      BY <1>8 DEF BeginCopy
    <3> HIDE DEF StoreInv, StoreTypeOK, MigrationSafe, CreationSafe
    <3>2. /\ staging' \in Directory
          /\ Files(staging') = Files(staging) \cup {n} /\ staging'[n] = part
          /\ \A m \in Files(staging) \ {n} : staging'[m] = staging[m]
      BY <2>1, <2>2, <2>3, PutFacts
    <3>3. staging' # NoDir
      BY <3>2, DirectoryFacts
    <3>4. \A m \in Identity \cap Files(staging') :
             \/ staging'[m] = Legacy
             \/ (m = writing' \/ faults' > 0) /\ staging'[m] \in Parts(m)
      <4>1. \A m \in Identity \cap Files(staging) :
               staging[m] = Legacy \/ (faults > 0 /\ staging[m] \in Parts(m))
        BY <3>1 DEF StagingSafe, Identity
      <4>2. QED
        BY <2>1, <3>1, <3>2, <4>1
    <3>5. QED
      BY <3>1, <3>2, <3>3, <3>4 DEF StagingSafe, Parts, Files
  <2>5. Keeps /\ Origin(dest)'
    BY <1>8, SameDestination DEF BeginCopy
  <2>6. QED
    BY <1>8, <2>1, <2>4, <2>5 DEF BeginCopy
<1>9. CASE EndCopy
  <2>1. staging \in Directory /\ source \in Directory /\ writing \in Files(source)
    BY <1>9, EmptyFacts DEF EndCopy
  <2>2. writing \in Names /\ source[writing] \in Int
    BY <2>1, DirectoryFacts
  <2>3. staging' = Put(staging, writing, source[writing])
    BY <1>9 DEF EndCopy
  <2>4. staging' \in Directory /\ staging' # NoDir /\ StagingSafe'
    <3>1. /\ StagingSafe /\ faults' = faults
          /\ writing \in Identity => source[writing] = Legacy
      BY <1>9, <2>1 DEF EndCopy
    <3> HIDE DEF StoreInv, StoreTypeOK, MigrationSafe, CreationSafe
    <3>2. /\ staging' \in Directory
          /\ Files(staging') = Files(staging) \cup {writing}
          /\ staging'[writing] = source[writing]
          /\ \A m \in Files(staging) \ {writing} : staging'[m] = staging[m]
      BY <2>1, <2>2, <2>3, PutFacts
    <3>3. staging' # NoDir
      BY <3>2, DirectoryFacts
    <3>4. \A m \in Identity \cap Files(staging') :
             staging'[m] = Legacy \/ (faults' > 0 /\ staging'[m] \in Parts(m))
      BY <3>1, <3>2 DEF StagingSafe
    <3>5. QED
      BY <3>2, <3>3, <3>4 DEF StagingSafe, Parts, Files
  <2>5. Keeps /\ Origin(dest)'
    BY <1>9, SameDestination DEF EndCopy
  <2>6. QED
    BY <1>9, <2>4, <2>5 DEF EndCopy
<1>10. CASE FinishStaging
  <2>1. staging \in Directory /\ Valid(staging) /\ staging' = Put(staging, "log", Other)
    BY <1>10 DEF FinishStaging
  <2>2. /\ staging' \in Directory /\ staging' # NoDir
        /\ Files(staging') = Files(staging) \cup {"log"}
        /\ \A m \in Files(staging) \ {"log"} : staging'[m] = staging[m]
    <3>1. "log" \in Names /\ Other \in Int
      BY DEF Names, Discardable, Other
    <3> HIDE DEF StoreInv, StoreTypeOK, MigrationSafe, CreationSafe
    <3>2. /\ staging' \in Directory
          /\ Files(staging') = Files(staging) \cup {"log"}
          /\ \A m \in Files(staging) \ {"log"} : staging'[m] = staging[m]
      BY <2>1, <3>1, PutFacts
    <3>3. QED
      BY <3>2, DirectoryFacts
  <2>3. StagingSafe'
    <3>1. /\ StagingSafe /\ writing = "none" /\ faults' = faults
          /\ \A m \in Identity \cap Files(staging') : m \in Files(staging) /\ staging'[m] = staging[m]
      BY <1>10, <2>2 DEF FinishStaging, Identity
    <3> HIDE DEF StoreInv, StoreTypeOK, MigrationSafe, CreationSafe
    <3>2. QED
      BY <3>1 DEF StagingSafe, Parts, Files, Identity
  <2>4. Valid(staging')
    <3>1. Complete(staging') /\ \A n \in Identity : staging'[n] = staging[n]
      BY <2>1, <2>2 DEF Valid, Loads, Complete, Identity
    <3>2. Loads(staging')
      BY <2>1, <3>1 DEF Valid, Loads, Identity
    <3>3. QED
      BY <2>1, <2>2, <3>2 DEF Valid
  <2>5. Keeps /\ Origin(dest)'
    BY <1>10, SameDestination DEF FinishStaging
  <2>6. QED
    BY <1>10, <2>2, <2>3, <2>4, <2>5 DEF FinishStaging
<1>11. CASE RemoveEmpty
  <2>1. Files(dest) = {} /\ dest' = NoDir /\ Files(dest') = {}
    BY <1>11, EmptyFacts DEF RemoveEmpty
  <2>2. Origin(dest)' /\ Keeps
    BY <2>1, NoOrigin DEF Keeps, Identity
  <2>3. StagingSafe'
    BY <1>11, StagingStays DEF RemoveEmpty
  <2>4. QED
    BY <1>11, <2>1, <2>2, <2>3 DEF RemoveEmpty
<1>12. CASE Publish
  <2>1. /\ Files(dest) = {} /\ dest' = staging /\ staging' = NoDir /\ faults' = faults
        /\ dest' \in Directory
    BY <1>12 DEF Publish
  <2>2. /\ dest'["certificate"] = Legacy /\ dest'["key"] = Legacy
        /\ dest'["uniqueId"] = Legacy \/ (faults' > 0 /\ dest'["uniqueId"] = Part)
    BY <1>12, <2>1, ValidIsLegacy DEF Publish
  <2>3. Origin(dest)'
    BY <2>2 DEF Origin, SingleOrigin, PartOf, Identity
  <2>4. Keeps
    BY <2>1, <2>3 DEF Keeps
  <2>5. StagingSafe'
    BY <2>1, EmptyFacts DEF StagingSafe
  <2>6. QED
    BY <1>12, <2>1, <2>3, <2>4, <2>5, EmptyFacts DEF Publish, End
<1>13. QED
  BY <1>1, <1>2, <1>3, <1>4, <1>5, <1>6, <1>7, <1>8, <1>9, <1>10, <1>11, <1>12 DEF Migration

\* Each step of the service keeps the invariant, and the destination's identity.
LEMMA ServiceKeeps ==
    ASSUME StoreInv, Service
    PROVE  StoreInv' /\ Keeps
<1> USE DEF StoreInv, StoreTypeOK, MigrationSafe, CreationSafe, Steps
<1>1. CASE LoadOrCreate
  <2>1. StagingSafe' /\ Keeps /\ Origin(dest)' /\ dest' = dest
    BY <1>1, SameDestination, StagingStays DEF LoadOrCreate, dirVars
  <2>2. CASE NoIdentity(dest)
    <3>1. Identity \cap Files(dest) = {} /\ Identity \cap Files(dest') = {}
      BY <2>1, <2>2 DEF NoIdentity
    <3>2. CreatedOnly'
      BY <3>1 DEF CreatedOnly
    <3>3. QED
      BY <1>1, <2>1, <2>2, <3>1, <3>2 DEF LoadOrCreate, dirVars, Identity
  <2>3. CASE ~NoIdentity(dest)
    BY <1>1, <2>1, <2>3 DEF LoadOrCreate, dirVars
  <2>4. QED
    BY <2>2, <2>3
<1>2. CASE WriteCredential
  <2>1. dest \in Directory /\ dest' = Put(dest, "temporary", Other)
    BY <1>2 DEF WriteCredential
  <2>2. /\ dest' \in Directory /\ dest' # NoDir
        /\ Files(dest') = Files(dest) \cup {"temporary"}
        /\ \A m \in Files(dest) \ {"temporary"} : dest'[m] = dest[m]
    <3>1. "temporary" \in Names /\ Other \in Int
      BY DEF Names, Other
    <3> HIDE DEF StoreInv, StoreTypeOK, MigrationSafe, CreationSafe
    <3>2. /\ dest' \in Directory
          /\ Files(dest') = Files(dest) \cup {"temporary"}
          /\ \A m \in Files(dest) \ {"temporary"} : dest'[m] = dest[m]
      BY <2>1, <3>1, PutFacts
    <3>3. QED
      BY <3>2, DirectoryFacts
  <2>3. /\ Identity \cap Files(dest') = Identity \cap Files(dest)
        /\ \A n \in Identity \cap Files(dest') : dest'[n] = dest[n]
    BY <2>2 DEF Identity
  <2>4. CreatedOnly'
    BY <1>2, <2>3 DEF WriteCredential, CreatedOnly, Parts, Files
  <2>5. Origin(dest)'
    <3>1. creations' \in Nat /\ creations' > 0
      BY <1>2 DEF WriteCredential
    <3>2. QED
      BY <2>4, <3>1, CreatedHasOrigin
  <2>6. Keeps
    BY <2>2, <2>3, <2>5 DEF Keeps, Identity
  <2>7. StagingSafe'
    BY <1>2, StagingStays DEF WriteCredential
  <2>8. QED
    BY <1>2, <2>2, <2>3, <2>4, <2>5, <2>6, <2>7 DEF WriteCredential
<1>3. CASE RenameCredential
  <2> DEFINE d == Without(dest, "temporary")
  <2>1. PICK c \in {creations} \cup Parts(writing) :
           /\ dest' = Put(d, writing, c)
           /\ c # creations => faults' > 0
           /\ faults' \in {faults, faults + 1}
    <3>1. CASE dest' = Put(d, writing, creations) /\ UNCHANGED faults
      BY <3>1
    <3>2. CASE faults' = faults + 1 /\ \E part \in Parts(writing) : dest' = Put(d, writing, part)
      <4>1. faults' > 0 /\ faults' \in {faults, faults + 1}
        BY <3>2
      <4>2. QED
        BY <3>2, <4>1
    <3>3. QED
      BY <1>3, <3>1, <3>2 DEF RenameCredential
  <2>2. dest \in Directory /\ writing \in Identity /\ c \in Int
    BY <1>3 DEF RenameCredential, Parts, Torn, Part
  <2>3. /\ d \in Directory /\ Files(d) = Files(dest) \ {"temporary"}
        /\ \A m \in Files(dest) \ {"temporary"} : d[m] = dest[m]
    BY <2>2, WithoutFacts
  <2> HIDE DEF d
  <2>4. /\ dest' \in Directory /\ dest' # NoDir
        /\ Files(dest') = Files(d) \cup {writing} /\ dest'[writing] = c
        /\ \A m \in Files(d) \ {writing} : dest'[m] = d[m]
    BY <2>1, <2>2, <2>3, PutFacts, DirectoryFacts DEF Names
  <2>5. /\ writing \notin Files(dest)
        /\ Identity \cap Files(dest') = (Identity \cap Files(dest)) \cup {writing}
        /\ \A n \in Identity \cap Files(dest) : dest'[n] = dest[n]
    BY <1>3, <2>2, <2>3, <2>4 DEF RenameCredential, Identity
  <2>6. CreatedOnly' /\ creations' = creations
    <3>1. CreatedOnly /\ creations' = creations /\ faults \in Nat
      BY <1>3 DEF RenameCredential
    <3> HIDE DEF StoreInv, StoreTypeOK, MigrationSafe, CreationSafe
    <3>2. \A n \in Identity \cap Files(dest') :
             dest'[n] = creations' \/ (faults' > 0 /\ dest'[n] \in Parts(n))
      BY <2>1, <2>4, <2>5, <3>1 DEF CreatedOnly
    <3>3. QED
      BY <3>1, <3>2 DEF CreatedOnly, Parts, Files
  <2>7. Origin(dest)'
    <3>1. creations' \in Nat /\ creations' > 0
      BY <1>3, <2>6 DEF RenameCredential
    <3>2. QED
      BY <2>6, <3>1, CreatedHasOrigin
  <2>8. Keeps
    BY <2>5, <2>7 DEF Keeps
  <2>9. /\ writing = "certificate" => writing' = "key"
        /\ writing = "key" => writing' = "uniqueId"
        /\ writing = "uniqueId" => writing' = "none"
    BY <1>3 DEF RenameCredential, Next3
  <2>10. StagingSafe'
    <3>1. StagingSafe /\ faults \in Nat /\ staging' = staging /\ pc = "rename"
      BY <1>3 DEF RenameCredential
    <3>2. QED
      BY <2>1, <3>1, StagingStays
  <2>11. QED
    BY <1>3, <2>1, <2>2, <2>4, <2>5, <2>6, <2>7, <2>8, <2>9, <2>10 DEF RenameCredential, Identity
<1>4. QED
  BY <1>1, <1>2, <1>3 DEF Service
-----------------------------------------------------------------------------
\* Failures, crashes and steps of anything else keep both as well.
LEMMA StepKeeps ==
    ASSUME StoreInv, [StoreNext]_storeVars
    PROVE  StoreInv' /\ [Keeps]_storeVars
<1> USE DEF StoreInv, StoreTypeOK, MigrationSafe, CreationSafe, Steps
<1>1. CASE Migration
  BY <1>1, MigrationKeeps
<1>2. CASE Service
  BY <1>2, ServiceKeeps
<1>3. CASE CopyFails
  <2>1. faults' = faults + 1 /\ StagingSafe' /\ Keeps /\ Origin(dest)'
    BY <1>3, StagingStays, SameDestination DEF CopyFails, dirVars
  <2>2. QED
    BY <1>3, <2>1 DEF CopyFails, dirVars
<1>4. CASE Die
  <2>1. faults' = faults + 1 /\ StagingSafe' /\ Keeps /\ Origin(dest)'
    BY <1>4, StagingStays, SameDestination DEF Die, dirVars
  <2>2. QED
    BY <1>4, <2>1 DEF Die, dirVars
<1>5. CASE UNCHANGED storeVars
  <2>1. StagingSafe' /\ Origin(dest)'
    BY <1>5, StagingStays, SameDestination DEF storeVars
  <2>2. CreatedOnly' <=> CreatedOnly
    BY <1>5 DEF storeVars, CreatedOnly, Parts, Files
  <2>3. QED
    BY <1>5, <2>1, <2>2 DEF storeVars
<1>6. QED
  BY <1>1, <1>2, <1>3, <1>4, <1>5 DEF StoreNext

\* The installer and the service, failing and dying in any number and order, keep the
\* inductive invariant.
THEOREM StoreInvariant == StoreSpec => []StoreInv
<1>1. StoreInit => StoreInv
  BY InitHolds
<1>2. StoreInv /\ [StoreNext]_storeVars => StoreInv'
  BY StepKeeps
<1>3. QED
  BY <1>1, <1>2, PTL DEF StoreSpec

\* Migrations, starts of the service, failures and crashes in any number and order never
\* replace or remove a file of an identity, and a complete identity has one origin, but for
\* what a failure left of a unique id or of a file that the service created.
THEOREM IdentityIsKept == StoreSpec => IdentityKept
<1>1. StoreInv /\ [StoreNext]_storeVars => [Keeps]_storeVars
  BY StepKeeps
<1>2. [Keeps]_storeVars <=>
        [ /\ \A n \in Identity \cap Files(dest) : n \in Files(dest') /\ dest'[n] = dest[n]
          /\ (Complete(dest) => SingleOrigin(dest))' ]_storeVars
  BY DEF Keeps, Origin
<1>3. QED
  BY <1>1, <1>2, StoreInvariant, PTL DEF StoreSpec, IdentityKept

\* A migrated directory has the whole identity of the legacy one and loads, until the next
\* run of the installer looks at it.
MigratedLoads == outcome = "migrated" => pc = "idle" /\ Loads(dest)

\* A migration that reports success has published an identity that the service can load,
\* whatever its staging directory went through before.
THEOREM MigratedIdentityLoads == StoreSpec => []MigratedLoads
<1>1. StoreInit => MigratedLoads
  BY DEF StoreInit, MigratedLoads
<1>2. ASSUME StoreInv, MigratedLoads, [StoreNext]_storeVars PROVE MigratedLoads'
  <2>1. Loads(dest) => ~Fresh(dest) /\ ~NoIdentity(dest) /\ Files(dest) # {}
    BY DEF Loads, Complete, Fresh, NoIdentity, Identity
  <2>2. CASE outcome' = outcome
    <3>1. Loads(dest) /\ pc = "idle" => dest' = dest /\ pc' = pc
      BY <1>2, <2>1 DEF StoreNext, Migration, Service, KeepDestination, DiscardResidue,
         AcceptEmpty, CheckSource, Stage, RemoveEntry, RemoveStaging, BeginCopy, EndCopy,
         CopyFails, FinishStaging, RemoveEmpty, Publish, LoadOrCreate, WriteCredential,
         RenameCredential, Die, End, dirVars, storeVars
    <3>2. QED
      BY <1>2, <2>2, <3>1 DEF MigratedLoads, Loads, Complete, Files
  <2>3. CASE Publish
    BY <1>2, <2>3 DEF Publish, End, MigratedLoads, StoreInv, MigrationSafe, Valid, Loads,
                      Complete, Files
  <2>4. CASE outcome' # outcome /\ ~Publish
    BY <1>2, <2>4 DEF StoreNext, Migration, Service, KeepDestination, DiscardResidue,
       AcceptEmpty, CheckSource, Stage, RemoveEntry, RemoveStaging, BeginCopy, EndCopy,
       CopyFails, FinishStaging, RemoveEmpty, LoadOrCreate, WriteCredential,
       RenameCredential, Die, End, dirVars, storeVars, MigratedLoads
  <2>5. QED
    BY <2>2, <2>3, <2>4
<1>3. QED
  BY <1>1, <1>2, StoreInvariant, PTL DEF StoreSpec
=============================================================================
