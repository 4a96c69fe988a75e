--------------------------- MODULE LifecycleProofs ---------------------------
(***************************************************************************)
(* For every set of models, instances, jobs and ports, whatever the        *)
(* operations, the engines and the crashes of a node do, operations that   *)
(* overlap on an instance included: the two rules of its registry, that an *)
(* instance has one process, and that the manager can reach it.            *)
(***************************************************************************)
EXTENDS Lifecycle, FiniteSetTheorems, TLAPS

Rows == [model : Models \cup {""}, port : Nat]

RowsTyped ==
    /\ models \in [Models -> [slug : Slugs \cup {""}, status : Catalogued]]
    /\ instances \in [Instances -> Rows]

\* What a handler has checked is as it was, but that its model may be archived.
Right(e) ==
    /\ e.writes \in {"catalog", "both", "slug"} =>
          e.model \in Models /\ e.slug \in Slugs /\ SlugFree(e.slug, e.model)
    /\ e.writes \in {"both", "instance"} =>
          e.model \in Models /\ e.at \in Instances /\ e.port \in Nat
    /\ e.writes = "instance" => e.model \in Catalog \cup overtaken

RegistryInv == RowsTyped /\ SlugsUnique /\ RetiredHasNone /\ Right(edit)

USE DEF Catalogued, Rows

\* A catalogue row written, and the others as they were.
LEMMA CatalogueWritten ==
    ASSUME RowsTyped, NEW m \in Models,
           NEW row \in [slug : Slugs \cup {""}, status : Catalogued],
           models' = [models EXCEPT ![m] = row]
    PROVE  /\ models' \in [Models -> [slug : Slugs \cup {""}, status : Catalogued]]
           /\ models'[m] = row
           /\ \A n \in Models \ {m} : models'[n] = models[n]
BY DEF RowsTyped

\* An instance row written, and the others as they were.
LEMMA RowWritten ==
    ASSUME RowsTyped, NEW i \in Instances, NEW row \in Rows, Update(i, row)
    PROVE  /\ instances' \in [Instances -> Rows]
           /\ instances'[i] = row
           /\ \A k \in Instances \ {i} : instances'[k] = instances[k]
BY DEF RowsTyped, Update

LEMMA RowIsTyped ==
    ASSUME NEW m \in Models \cup {""}, NEW port, port \in Nat
    PROVE  Row(m, port) \in Rows /\ Row(m, port).model = m
BY DEF Row

LEMMA NothingPends == NoEdit.writes = "nothing" /\ Right(NoEdit) /\ Right(NoEdit)'
BY DEF NoEdit, Pending, Right

\* What is checked of the catalogue holds as long as its rows are the same.
LEMMA ChecksHold ==
    ASSUME NEW e, Right(e), UNCHANGED <<models, overtaken>> PROVE Right(e)'
BY DEF Right, SlugFree, Catalog, Archived

-----------------------------------------------------------------------------
(* What an operation does to the registry: it leaves the rows as they are,  *)
(* changes an instance row within its model, or is an edit.                 *)

\* An instance row is written with the model it has, or removed.
RowKept ==
    /\ UNCHANGED <<models, edit, overtaken>>
    /\ \E i \in Instances, row \in Rows :
          /\ Update(i, row)
          /\ row = NoRow \/ (i \in Registered /\ row.model = instances[i].model)

\* ... and with its model, so that it stays.
RowHeld ==
    \E i \in Registered, row \in Rows :
        Update(i, row) /\ row.model = instances[i].model

\* Writing a row within its model, or removing it, gives no model an instance.
LEMMA RowKeptSound == RegistryInv /\ RowKept => RegistryInv'
<1> SUFFICES ASSUME RegistryInv, RowKept PROVE RegistryInv'
    OBVIOUS
<1>1. PICK i \in Instances, row \in Rows :
          /\ Update(i, row)
          /\ row = NoRow \/ (i \in Registered /\ row.model = instances[i].model)
    BY DEF RowKept
<1>2. /\ instances' \in [Instances -> Rows]
      /\ instances'[i] = row
      /\ \A k \in Instances \ {i} : instances'[k] = instances[k]
    BY <1>1, RowWritten DEF RegistryInv
<1>3. RowsTyped'
    BY <1>2 DEF RowKept, RegistryInv, RowsTyped
<1>4. SlugsUnique'
    BY DEF RowKept, RegistryInv, SlugsUnique, Catalog, Archived
<1>5. \A m \in Models : InstancesOf(m)' \subseteq InstancesOf(m)
    BY <1>1, <1>2 DEF InstancesOf, Registered
<1>6. RetiredHasNone'
    BY <1>5 DEF RowKept, RegistryInv, RetiredHasNone, Archived
<1>7. Right(edit)'
    BY ChecksHold DEF RowKept, RegistryInv
<1>8. QED
    BY <1>3, <1>4, <1>6, <1>7 DEF RegistryInv

\* One catalogue row is written, under a slug that no other model has.
LEMMA SlugsStayUnique ==
    ASSUME SlugsUnique, NEW m \in Models,
           \A n \in Models \ {m} : models'[n] = models[n],
           \A n \in (Catalog \cup Archived) \ {m} :
               models[n].slug # models'[m].slug
    PROVE  SlugsUnique'
<1>1. (Catalog \cup Archived)' \ {m} \subseteq (Catalog \cup Archived) \ {m}
    BY DEF Catalog, Archived
<1>2. (Catalog \cup Archived)' \subseteq Models
    BY DEF Catalog, Archived
<1>3. QED
    BY <1>1, <1>2 DEF SlugsUnique

\* Rows that are left alone keep both rules.
LEMMA RowsUnchanged ==
    ASSUME RegistryInv, UNCHANGED <<models, instances, overtaken>>, Right(edit')
    PROVE  RegistryInv'
<1>1. RowsTyped' /\ SlugsUnique'
    BY DEF RegistryInv, RowsTyped, SlugsUnique, Catalog, Archived
<1>2. \A m \in Models : InstancesOf(m)' = InstancesOf(m)
    BY DEF InstancesOf, Registered
<1>3. RetiredHasNone'
    BY <1>2 DEF RegistryInv, RetiredHasNone, Archived
<1>4. Right(edit)'
    BY DEF Right, SlugFree, Catalog, Archived
<1>5. QED
    BY <1>1, <1>3, <1>4 DEF RegistryInv

LEMMA NothingWritten ==
    RegistryInv /\ UNCHANGED <<models, instances, edit, overtaken>> => RegistryInv'
BY RowsUnchanged DEF RegistryInv

\* archive_catalog retires a model only when nothing refers to it.
LEMMA ArchiveSound ==
    ASSUME NEW m \in Models,
           RegistryInv, m \in Catalog, ArchiveCatalog(m),
           UNCHANGED <<instances, edit>>
    PROVE  RegistryInv'
<1> DEFINE row == [models[m] EXCEPT !.status = "archived"]
<1>1. /\ row \in [slug : Slugs \cup {""}, status : Catalogued]
      /\ row.slug = models[m].slug /\ row.status = "archived"
    BY DEF RegistryInv, RowsTyped
<1>2. models' = [models EXCEPT ![m] = row]
    BY DEF ArchiveCatalog
<1> HIDE DEF row
<1>3. /\ models' \in [Models -> [slug : Slugs \cup {""}, status : Catalogued]]
      /\ models'[m] = row
      /\ \A n \in Models \ {m} : models'[n] = models[n]
    BY <1>1, <1>2, CatalogueWritten DEF RegistryInv
<1>4. RowsTyped'
    BY <1>3 DEF RegistryInv, RowsTyped
<1>5. SlugsUnique'
    <2>1. m \in Catalog \cup Archived /\ models'[m].slug = models[m].slug
        BY <1>1, <1>3
    <2>2. \A n \in (Catalog \cup Archived) \ {m} :
              models[n].slug # models'[m].slug
        BY <2>1 DEF RegistryInv, SlugsUnique
    <2>3. QED
        BY <1>3, <2>2, SlugsStayUnique DEF RegistryInv
<1>6. RetiredHasNone'
    <2>1. Archived' \subseteq Archived \cup {m}
        BY <1>3 DEF Archived
    <2>2. \A n \in Models : InstancesOf(n)' = InstancesOf(n)
        BY DEF InstancesOf, Registered
    <2>3. overtaken \ {m} \subseteq overtaken'
        BY DEF ArchiveCatalog
    <2>4. QED
        BY <2>1, <2>2, <2>3 DEF ArchiveCatalog, RegistryInv, RetiredHasNone, Archived
<1>7. Right(edit)'
    <2>1. \A n \in Models : models'[n].slug = models[n].slug
        BY <1>1, <1>3
    <2>2. (Catalog \cup Archived)' \subseteq Catalog \cup Archived
        BY <1>3 DEF Catalog, Archived
    <2>3. Catalog \ {m} \subseteq Catalog'
        BY <1>3 DEF Catalog
    <2>4. ASSUME edit.writes \in {"catalog", "both", "slug"}
          PROVE  SlugFree(edit.slug, edit.model)'
        <3>1. SlugFree(edit.slug, edit.model)
            BY <2>4 DEF RegistryInv, Right
        <3>2. Catalog \cup Archived \subseteq Models
            BY DEF Catalog, Archived
        <3>3. QED
            BY <2>1, <2>2, <3>1, <3>2 DEF SlugFree
    <2>5. ASSUME edit.writes = "instance" PROVE edit.model \in (Catalog \cup overtaken)'
        <3>1. edit.model \in Catalog \cup overtaken
            BY <2>5 DEF RegistryInv, Right
        <3>2. QED
            BY <2>3, <2>5, <3>1 DEF ArchiveCatalog
    <2>6. QED
        BY <2>4, <2>5 DEF RegistryInv, Right
<1>8. QED
    BY <1>4, <1>5, <1>6, <1>7 DEF RegistryInv

(* The edits through the API: a check, and a write that relies on it.       *)

LEMMA CheckSound ==
    ASSUME RegistryInv, NEW new, Checked(new), Right(new) PROVE RegistryInv'
BY RowsUnchanged DEF Checked

LEMMA SlugCheckSound ==
    ASSUME RegistryInv, NEW i \in Instances, NEW slug \in Slugs, SetSlug(i, slug)
    PROVE  RegistryInv'
<1>1. instances[i].model \in Models
    BY DEF SetSlug, Catalog
<1>2. Right(Pending("slug", instances[i].model, slug, "", 0))
    BY <1>1 DEF SetSlug, Pending, Right
<1>3. QED
    BY <1>2, CheckSound DEF SetSlug

LEMMA InstanceCheckSound ==
    ASSUME RegistryInv, NEW m \in Models, NEW i \in Instances, NEW port \in Ports,
           AddInstance(m, i, port)
    PROVE  RegistryInv'
<1>1. Right(Pending("instance", m, "", i, port))
    BY RegistryAssumption DEF AddInstance, Pending, Right
<1>2. QED
    BY <1>1, CheckSound DEF AddInstance

LEMMA CatalogCheckSound ==
    ASSUME RegistryInv, NEW m \in Models, NEW slug \in Slugs, AddCatalog(m, slug)
    PROVE  RegistryInv'
<1>1. Right(Pending("catalog", m, slug, "", 0))
    BY DEF AddCatalog, Pending, Right
<1>2. QED
    BY <1>1, CheckSound DEF AddCatalog

LEMMA BothCheckSound ==
    ASSUME RegistryInv, NEW m \in Models, NEW slug \in Slugs, NEW port \in Ports,
           Add(m, slug, port)
    PROVE  RegistryInv'
<1>1. Right(Pending("both", m, slug, m, port))
    BY RegistryAssumption DEF Add, Pending, Right
<1>2. QED
    BY <1>1, CheckSound DEF Add

\* The catalogue row is live, so that its model may have the instance.
LEMMA WriteCatalogSound ==
    ASSUME RegistryInv, WriteCatalog, edit' = NoEdit, UNCHANGED overtaken
    PROVE  RegistryInv'
<1> DEFINE m == edit.model
           row == [slug |-> edit.slug, status |-> "live"]
<1>0. /\ m \in Models /\ edit.slug \in Slugs /\ SlugFree(edit.slug, m)
      /\ models' = [models EXCEPT ![m] = row]
      /\ edit.writes = "both" => edit.at \in Instances /\ edit.port \in Nat
    BY DEF RegistryInv, Right, WriteCatalog
<1>1. /\ row \in [slug : Slugs \cup {""}, status : Catalogued]
      /\ row.slug = edit.slug /\ row.status = "live"
    BY <1>0
<1> HIDE DEF m, row
<1>2. /\ models' \in [Models -> [slug : Slugs \cup {""}, status : Catalogued]]
      /\ models'[m] = row
      /\ \A n \in Models \ {m} : models'[n] = models[n]
    BY <1>0, <1>1, CatalogueWritten DEF RegistryInv
<1>3. /\ instances' \in [Instances -> Rows]
      /\ \A n \in Models \ {m} : InstancesOf(n)' \subseteq InstancesOf(n)
    <2>1. CASE edit.writes = "both"
        <3>1. Update(edit.at, Row(m, edit.port))
            BY <2>1 DEF WriteCatalog, m
        <3>2. Row(m, edit.port) \in Rows /\ Row(m, edit.port).model = m
            BY <1>0, <2>1, RowIsTyped
        <3>3. /\ instances' \in [Instances -> Rows]
              /\ instances'[edit.at] = Row(m, edit.port)
              /\ \A k \in Instances \ {edit.at} : instances'[k] = instances[k]
            BY <1>0, <2>1, <3>1, <3>2, RowWritten DEF RegistryInv
        <3>4. QED
            BY <3>2, <3>3 DEF InstancesOf, Registered
    <2>2. CASE edit.writes # "both"
        BY <2>2 DEF WriteCatalog, RegistryInv, RowsTyped, InstancesOf, Registered
    <2>3. QED
        BY <2>1, <2>2
<1>4. RowsTyped'
    BY <1>2, <1>3 DEF RowsTyped
<1>5. SlugsUnique'
    <2>1. \A n \in (Catalog \cup Archived) \ {m} :
              models[n].slug # models'[m].slug
        BY <1>0, <1>1, <1>2 DEF SlugFree
    <2>2. QED
        BY <1>0, <1>2, <2>1, SlugsStayUnique DEF RegistryInv
<1>6. RetiredHasNone'
    <2>1. Archived' \subseteq Archived \ {m}
        BY <1>1, <1>2 DEF Archived
    <2>2. QED
        BY <1>3, <2>1 DEF RegistryInv, RetiredHasNone, Archived
<1>7. QED
    BY <1>4, <1>5, <1>6, NothingPends DEF RegistryInv

\* The model of the instance is live, or was archived meanwhile.
LEMMA WriteInstanceSound ==
    ASSUME RegistryInv, WriteInstance, edit' = NoEdit, UNCHANGED overtaken
    PROVE  RegistryInv'
<1> DEFINE m == edit.model
           row == Row(m, edit.port)
<1>0. /\ m \in Models /\ edit.at \in Instances /\ edit.port \in Nat
      /\ m \in Catalog \cup overtaken
      /\ Update(edit.at, row) /\ UNCHANGED models
    BY DEF RegistryInv, Right, WriteInstance
<1>1. row \in Rows /\ row.model = m
    BY <1>0, RowIsTyped
<1> HIDE DEF m, row
<1>2. /\ instances' \in [Instances -> Rows]
      /\ instances'[edit.at] = row
      /\ \A k \in Instances \ {edit.at} : instances'[k] = instances[k]
    BY <1>0, <1>1, RowWritten DEF RegistryInv
<1>3. RowsTyped' /\ SlugsUnique'
    BY <1>0, <1>2 DEF RegistryInv, RowsTyped, SlugsUnique, Catalog, Archived
<1>4. RetiredHasNone'
    <2>1. \A n \in Models \ {m} : InstancesOf(n)' \subseteq InstancesOf(n)
        BY <1>1, <1>2 DEF InstancesOf, Registered
    <2>2. Archived' = Archived /\ m \notin Archived \ overtaken
        BY <1>0 DEF Archived, Catalog
    <2>3. QED
        BY <2>1, <2>2 DEF RegistryInv, RetiredHasNone, Archived
<1>5. QED
    BY <1>3, <1>4, NothingPends DEF RegistryInv

LEMMA WriteSlugSound ==
    ASSUME RegistryInv, WriteSlug, edit' = NoEdit, UNCHANGED overtaken
    PROVE  RegistryInv'
<1> DEFINE m == edit.model
           row == [models[m] EXCEPT !.slug = edit.slug]
<1>0. m \in Models /\ edit.slug \in Slugs /\ SlugFree(edit.slug, m) /\ UNCHANGED instances
    BY DEF RegistryInv, Right, WriteSlug
<1>1. /\ row \in [slug : Slugs \cup {""}, status : Catalogued]
      /\ row.slug = edit.slug /\ row.status = models[m].status
    BY <1>0 DEF RegistryInv, RowsTyped
<1>2. models' = [models EXCEPT ![m] = row]
    BY DEF WriteSlug
<1> HIDE DEF m, row
<1>3. /\ models' \in [Models -> [slug : Slugs \cup {""}, status : Catalogued]]
      /\ models'[m] = row
      /\ \A n \in Models \ {m} : models'[n] = models[n]
    BY <1>0, <1>1, <1>2, CatalogueWritten DEF RegistryInv
<1>4. RowsTyped'
    BY <1>0, <1>3 DEF RegistryInv, RowsTyped
<1>5. SlugsUnique'
    <2>1. \A n \in (Catalog \cup Archived) \ {m} :
              models[n].slug # models'[m].slug
        BY <1>0, <1>1, <1>3 DEF SlugFree
    <2>2. QED
        BY <1>0, <1>3, <2>1, SlugsStayUnique DEF RegistryInv
<1>6. RetiredHasNone'
    <2>1. Archived' \subseteq Archived
        BY <1>0, <1>1, <1>3 DEF Archived
    <2>2. \A n \in Models : InstancesOf(n)' = InstancesOf(n)
        BY <1>0 DEF InstancesOf, Registered
    <2>3. QED
        BY <2>1, <2>2 DEF RegistryInv, RetiredHasNone, Archived
<1>7. QED
    BY <1>4, <1>5, <1>6, NothingPends DEF RegistryInv

LEMMA RestoreSound ==
    ASSUME NEW m \in Models, RegistryInv, RestoreCatalog(m)
    PROVE  RegistryInv'
<1> DEFINE row == [models[m] EXCEPT !.status = "live"]
<1>1. /\ row \in [slug : Slugs \cup {""}, status : Catalogued]
      /\ row.slug = models[m].slug /\ row.status = "live"
    BY DEF RegistryInv, RowsTyped
<1>2. models' = [models EXCEPT ![m] = row] /\ UNCHANGED <<instances, overtaken>>
    BY DEF RestoreCatalog
<1>3. m \in Archived /\ edit' = NoEdit
    BY DEF RestoreCatalog, Edit, LoopIsFree
<1> HIDE DEF row
<1>4. /\ models' \in [Models -> [slug : Slugs \cup {""}, status : Catalogued]]
      /\ models'[m] = row
      /\ \A n \in Models \ {m} : models'[n] = models[n]
    BY <1>1, <1>2, CatalogueWritten DEF RegistryInv
<1>5. RowsTyped'
    BY <1>2, <1>4 DEF RegistryInv, RowsTyped
<1>6. SlugsUnique'
    <2>1. m \in Catalog \cup Archived /\ models'[m].slug = models[m].slug
        BY <1>1, <1>3, <1>4
    <2>2. \A n \in (Catalog \cup Archived) \ {m} :
              models[n].slug # models'[m].slug
        BY <2>1 DEF RegistryInv, SlugsUnique
    <2>3. QED
        BY <1>4, <2>2, SlugsStayUnique DEF RegistryInv
<1>7. RetiredHasNone'
    <2>1. Archived' \subseteq Archived
        BY <1>1, <1>4 DEF Archived
    <2>2. \A n \in Models : InstancesOf(n)' = InstancesOf(n)
        BY <1>2 DEF InstancesOf, Registered
    <2>3. QED
        BY <1>2, <2>1, <2>2 DEF RegistryInv, RetiredHasNone, Archived
<1>8. QED
    BY <1>3, <1>5, <1>6, <1>7, NothingPends DEF RegistryInv

LEMMA PatchKeepsRow ==
    ASSUME NEW i \in Instances, NEW port \in Ports,
           RegistryInv, PatchInstance(i, port)
    PROVE  RowKept /\ RowHeld
<1> DEFINE row == Row(instances[i].model, port)
<1>1. instances[i].model \in Models \cup {""} /\ port \in Nat
    BY RegistryAssumption DEF RegistryInv, RowsTyped
<1>2. row \in Rows /\ row.model = instances[i].model
    BY <1>1 DEF Row
<1>3. QED
    BY <1>2 DEF PatchInstance, RowKept, RowHeld

\* Every edit through the API keeps the rules.
LEMMA EditsSound ==
    ASSUME RegistryInv, EditRegistry
    PROVE  RegistryInv'
<1>1. ASSUME NEW i \in Instances, EditInstance(i) PROVE RegistryInv'
    BY <1>1, SlugCheckSound, PatchKeepsRow, RowKeptSound, InstanceCheckSound
    DEF EditInstance
<1>2. ASSUME NEW m \in Models, EditModel(m) PROVE RegistryInv'
    <2>1. ASSUME NEW port \in Ports, AddReplica(m, port) PROVE RegistryInv'
        <3>1. PICK i \in NextInstanceId(m) : AddInstance(m, i, port)
            BY <2>1 DEF AddReplica
        <3>2. Replicas[m] \in Seq(Instances)
            BY RegistryAssumption
        <3>3. i \in Instances
            BY <3>1, <3>2 DEF NextInstanceId
        <3>4. QED
            BY <3>1, <3>3, InstanceCheckSound
    <2>2. QED
        BY <1>2, <2>1, CatalogCheckSound, BothCheckSound, RestoreSound DEF EditModel
<1>3. ASSUME WriteEdit PROVE RegistryInv'
    BY <1>3, WriteCatalogSound, WriteInstanceSound, WriteSlugSound DEF WriteEdit
<1>4. QED
    BY <1>1, <1>2, <1>3 DEF EditRegistry

-----------------------------------------------------------------------------
(* The operations of the lifecycle. *)

LEMMA StartKeepsRow ==
    ASSUME NEW j \in Jobs, RegistryInv, StartBegins(j)
    PROVE  RowKept /\ RowHeld
<1> DEFINE i == job[j].at
<1>1. PICK port \in FindFreePort(instances[i].port) :
          Update(i, [instances[i] EXCEPT !.port = port])
    BY DEF StartBegins
<1>2. i \in Registered /\ i \in Instances
    BY DEF StartBegins, Registered
<1>3. instances[i] \in Rows
    BY <1>2 DEF RegistryInv, RowsTyped
<1>4. port \in Nat
    <2>1. instances[i].port \in Nat /\ ScanRange \in Nat
        BY <1>3, LifecycleAssumption
    <2>2. port \in instances[i].port .. instances[i].port + ScanRange - 1
        BY DEF FindFreePort
    <2>3. QED
        BY <2>1, <2>2
<1> DEFINE row == [instances[i] EXCEPT !.port = port]
<1>5. row \in Rows /\ row.model = instances[i].model
    BY <1>3, <1>4
<1>6. QED
    BY <1>1, <1>2, <1>5 DEF RowKept, RowHeld, StartBegins

LEMMA RemoveSound ==
    ASSUME NEW j \in Jobs, RegistryInv, RemoveRow(j)
    PROVE  RegistryInv'
<1>1. NoRow \in Rows
    BY RowIsTyped DEF NoRow
<1>2. RowKept
    BY <1>1 DEF RemoveRow, Remove, RowKept, Registered
<1>3. QED
    BY <1>2, RowKeptSound

LEMMA ArchiveStepSound ==
    ASSUME NEW j \in Jobs, RegistryInv, Archive(j)
    PROVE  RegistryInv'
<1> DEFINE m == job[j].model
<1>1. CASE m \in Catalog /\ ArchiveCatalog(m)
    BY <1>1, ArchiveSound DEF Archive, Catalog
<1>2. CASE UNCHANGED <<models, overtaken>>
    BY <1>2, NothingWritten DEF Archive
<1>3. QED
    BY <1>1, <1>2 DEF Archive

\* Every other step of an operation leaves the rows alone.
LEMMA OtherStepsKeepRows ==
    ASSUME NEW j \in Jobs, Step(j), ~ StartBegins(j), ~ RemoveRow(j), ~ Archive(j)
    PROVE  UNCHANGED <<models, instances, edit, overtaken>>
BY DEF Step, registryVars, StartRefused, Spawn, SpawnFails, WritePidFile,
       SeesExit, SeesHealth, TimesOut, Ready, NotReady, Look, Kill, StopNothing,
       StopFinds, StopSignals, StopEnds, StopStuck, RowIsGone, PauseOrResume,
       ListInstances

LEMMA OperateKeepsRows ==
    ASSUME NEW j \in Jobs, Operate(j)
    PROVE  UNCHANGED <<models, instances, edit, overtaken>>
BY DEF Operate, Begin, BeginRetire, registryVars

-----------------------------------------------------------------------------
LEMMA RegistryInit == Init => RegistryInv
<1> SUFFICES ASSUME Init PROVE RegistryInv
    OBVIOUS
<1> USE RegistryAssumption
<1>1. RowsTyped
    <2>1. PICK port \in Ports : instances =
              [i \in Instances |-> IF i \in Models THEN Row(i, port) ELSE NoRow]
        BY DEF Init
    <2>2. /\ NoRow \in Rows
          /\ \A i \in Models : Row(i, port) \in Rows
        BY RowIsTyped DEF NoRow
    <2>3. instances \in [Instances -> Rows]
        BY <2>1, <2>2
    <2>4. QED
        BY <2>3 DEF Init, RowsTyped
<1>2. SlugsUnique
    BY DEF Init, SlugsUnique, Catalog, Archived
<1>3. RetiredHasNone
    BY DEF Init, RetiredHasNone, Archived
<1>4. QED
    BY <1>1, <1>2, <1>3, NothingPends DEF RegistryInv, Init

LEMMA RegistryStep == RegistryInv /\ [Next]_vars => RegistryInv'
<1> SUFFICES ASSUME RegistryInv, [Next]_vars PROVE RegistryInv'
    OBVIOUS
<1>1. ASSUME NEW j \in Jobs, Operate(j) PROVE RegistryInv'
    BY <1>1, OperateKeepsRows, NothingWritten
<1>2. ASSUME NEW j \in Jobs, Step(j) PROVE RegistryInv'
    <2>1. CASE StartBegins(j)
        BY <2>1, StartKeepsRow, RowKeptSound
    <2>2. CASE RemoveRow(j)
        BY <2>2, RemoveSound
    <2>3. CASE Archive(j)
        BY <2>3, ArchiveStepSound
    <2>4. QED
        BY <1>2, <2>1, <2>2, <2>3, OtherStepsKeepRows, NothingWritten
<1>3. ASSUME NEW p \in Pids, Bind(p) \/ Exits(p) PROVE RegistryInv'
    BY <1>3, NothingWritten DEF Bind, Exits, registryVars
<1>4. CASE EditRegistry
    BY <1>4, EditsSound
<1>5. CASE ManagerCrashes
    BY <1>5, RowsUnchanged, NothingPends DEF ManagerCrashes
<1>6. CASE UNCHANGED vars
    BY <1>6, NothingWritten DEF vars, registryVars
<1>7. QED
    BY <1>1, <1>2, <1>3, <1>4, <1>5, <1>6 DEF Next

\* No two models of a node ever have the same slug, retired ones included, and
\* a retired model has no instance (registry.py, _assert_slug_free and
\* archive_catalog), over every order of edits, starts, stops and removals.
THEOREM RegistryStaysSound == Spec => []RegistrySound
<1>1. RegistryInv => RegistrySound
    BY DEF RegistryInv, RegistrySound
<1>2. QED
    BY <1>1, RegistryInit, RegistryStep, PTL DEF Spec

-----------------------------------------------------------------------------
(* Operations on an instance. Each is at one, a cascade also at those still  *)
(* to go, and those that share one of no overlap do not conflict.           *)

Scope(j) == {job[j].at} \cup job[j].todo

JobRecords ==
    [op : Ops \cup {"none"}, at : Instances \cup {""}, port : Nat,
     pid : Pids \cup {0}, model : Models \cup {""}, todo : SUBSET Instances]

Places == {"idle", "start", "spawn", "write", "wait", "probe", "look", "kill",
           "stop", "signal", "exit", "remove", "list", "archive", "pause"}

Nowhere == {"idle", "list", "archive"}

JobsTyped == pc \in [Jobs -> Places] /\ job \in [Jobs -> JobRecords]

\* An operation that is under way is at an instance, unless a cascade has yet
\* to list its instances or has done with them.
Placed(j) ==
    /\ pc[j] = "idle" => job[j] = NoJob
    /\ pc[j] \in {"list", "archive"} => job[j].at = "" /\ job[j].todo = {}
    /\ pc[j] \notin Nowhere => job[j].at \in Instances

\* What an operation does is of its kind.
Fits(j) ==
    /\ pc[j] \in {"start", "spawn", "write", "wait", "probe", "look", "kill"}
          => job[j].op \in Starting
    /\ pc[j] \notin Nowhere \cup {"pause"} => job[j].op \notin Signalling
    /\ pc[j] = "list" => job[j].op = "retire"

Apart ==
    \A i \in Instances \ overlapped : \A j, k \in Jobs :
        j # k /\ i \in Scope(j) /\ i \in Scope(k) => ~ Conflict(job[j].op, job[k].op)

JobsInv == JobsTyped /\ (\A j \in Jobs : Placed(j) /\ Fits(j)) /\ Apart

\* A step of one operation ...
Moves(j) ==
    /\ JobsTyped'
    /\ \A k \in Jobs \ {j} : pc'[k] = pc[k] /\ job'[k] = job[k]

\* ... which takes it to no instance that it was not at.
Within(j) ==
    /\ Placed(j)' /\ Fits(j)'
    /\ \A i \in Instances :
          i \in Scope(j)' => i \in Scope(j) /\ job'[j].op = job[j].op

LEMMA NoJobTyped ==
    /\ NoJob \in JobRecords /\ NoJob.at = "" /\ NoJob.todo = {}
    /\ \A i \in Instances : i \notin {NoJob.at} \cup NoJob.todo
BY RegistryAssumption DEF NoJob, JobRecords

LEMMA JobFails ==
    ASSUME JobsInv, NEW j \in Jobs, Fails(j)
    PROVE  Moves(j) /\ Within(j) /\ pc'[j] = "idle"
<1>1. Moves(j) /\ pc'[j] = "idle" /\ job'[j] = NoJob
    BY NoJobTyped DEF Fails, Goto, Moves, JobsInv, JobsTyped, Places
<1>2. QED
    BY <1>1, NoJobTyped DEF Within, Placed, Fits, Scope, Nowhere

\* Where an operation may go on without changing its kind.
Leads(from, place) ==
    /\ place \in Places \ Nowhere /\ from \notin Nowhere
    /\ from = "pause" <=> place = "pause"
    /\ place \in {"spawn", "write", "wait", "probe", "look", "kill"} =>
          from \in {"start", "spawn", "write", "wait", "probe", "look", "kill"}
    /\ place # "start"

\* An operation goes on where it is, with another process or port in mind.
Minds(j, p, port) == job' = [job EXCEPT ![j] = [job[j] EXCEPT !.pid = p, !.port = port]]

LEMMA JobMinds ==
    ASSUME JobsInv, NEW j \in Jobs, NEW place, Goto(j, place),
           \/ Leads(pc[j], place)
           \/ /\ pc[j] \notin Nowhere
              /\ \/ place = "start" /\ job[j].op = "restart"
                 \/ place = "remove" /\ job[j].op \in {"deregister", "retire"},
           NEW p \in Pids \cup {0}, NEW port, port \in Nat,
           Minds(j, p, port)
    PROVE  /\ Moves(j) /\ Within(j) /\ pc'[j] = place
           /\ job'[j].at = job[j].at /\ job'[j].pid = p
<1> DEFINE r == [job[j] EXCEPT !.pid = p, !.port = port]
<1>1. job[j] \in JobRecords
    BY DEF JobsInv, JobsTyped
<1>2. /\ r \in JobRecords /\ r.at = job[j].at /\ r.todo = job[j].todo
      /\ r.pid = p /\ r.op = job[j].op
    BY <1>1 DEF JobRecords
<1> HIDE DEF r
<1>3. job' = [job EXCEPT ![j] = r]
    BY DEF r, Minds
<1>4. place \in Places /\ place \notin Nowhere /\ pc[j] \notin Nowhere
    BY DEF Leads, Places, Nowhere
<1>5. Moves(j) /\ pc'[j] = place /\ job'[j] = r
    BY <1>2, <1>3, <1>4 DEF Goto, Moves, JobsInv, JobsTyped
<1>6. Placed(j)'
    BY <1>2, <1>4, <1>5 DEF Placed, Nowhere, JobsInv
<1>7. Fits(j)'
    BY <1>2, <1>4, <1>5 DEF Fits, JobsInv, Leads, Nowhere, Places, Starting, Signalling
<1>8. QED
    BY <1>2, <1>5, <1>6, <1>7 DEF Within, Scope

LEMMA JobGoes ==
    ASSUME JobsInv, NEW j \in Jobs, NEW place, Goto(j, place), UNCHANGED job,
           Leads(pc[j], place)
    PROVE  Moves(j) /\ Within(j) /\ pc'[j] = place /\ job'[j] = job[j]
<1>1. job[j] \in JobRecords /\ job \in [Jobs -> JobRecords]
    BY DEF JobsInv, JobsTyped
<1>2. /\ job[j].pid \in Pids \cup {0} /\ job[j].port \in Nat
      /\ [job[j] EXCEPT !.pid = job[j].pid, !.port = job[j].port] = job[j]
    BY <1>1 DEF JobRecords
<1>3. Minds(j, job[j].pid, job[j].port)
    BY <1>1, <1>2 DEF Minds
<1>4. QED
    BY <1>2, <1>3, JobMinds

LEMMA JobStopped ==
    ASSUME JobsInv, NEW j \in Jobs, Stopped(j), pc[j] \notin Nowhere
    PROVE  /\ Moves(j) /\ Within(j) /\ pc'[j] \in {"idle", "start", "remove"}
           /\ pc'[j] = "remove" => job'[j].at = job[j].at
<1>1. CASE job[j].op \in {"restart", "deregister", "retire"}
    <2> DEFINE place == IF job[j].op = "restart" THEN "start" ELSE "remove"
    <2>1. job[j] \in JobRecords
        BY DEF JobsInv, JobsTyped
    <2>2. job[j].port \in Nat /\ [job[j] EXCEPT !.pid = 0, !.port = job[j].port]
                                  = [job[j] EXCEPT !.pid = 0]
        BY <2>1 DEF JobRecords
    <2>3. /\ Goto(j, place) /\ place \in {"start", "remove"}
          /\ \/ place = "start" /\ job[j].op = "restart"
             \/ place = "remove" /\ job[j].op \in {"deregister", "retire"}
        BY <1>1 DEF Stopped
    <2>4. Minds(j, 0, job[j].port)
        BY <1>1, <2>2 DEF Stopped, Minds
    <2> HIDE DEF place
    <2>5. QED
        BY <2>2, <2>3, <2>4, JobMinds
<1>2. CASE job[j].op \notin {"restart", "deregister", "retire"}
    BY <1>2, JobFails DEF Stopped
<1>3. QED
    BY <1>1, <1>2

LEMMA JobProceeds ==
    ASSUME JobsInv, NEW j \in Jobs, Proceed(j), pc[j] = "remove"
    PROVE  Moves(j) /\ Within(j) /\ pc'[j] \in {"idle", "archive", "stop"}
<1>0. job[j] \in JobRecords /\ JobsTyped
    BY DEF JobsInv, JobsTyped
<1>1. CASE job[j].op # "retire"
    BY <1>1, JobFails DEF Proceed
<1>2. CASE job[j].op = "retire" /\ job[j].todo = {}
    <2> DEFINE r == [job[j] EXCEPT !.at = ""]
    <2>1. r \in JobRecords /\ r.at = "" /\ r.todo = {}
        BY <1>0, <1>2 DEF JobRecords
    <2>2. job' = [job EXCEPT ![j] = r] /\ Goto(j, "archive")
        BY <1>2 DEF Proceed
    <2> HIDE DEF r
    <2>3. Moves(j) /\ pc'[j] = "archive" /\ job'[j] = r
        BY <1>0, <2>1, <2>2 DEF Goto, Moves, JobsTyped, Places
    <2>4. QED
        BY <2>1, <2>3, RegistryAssumption DEF Within, Placed, Fits, Scope, Nowhere
<1>3. CASE job[j].op = "retire" /\ job[j].todo # {}
    <2>1. PICK i \in job[j].todo :
              job' = [job EXCEPT ![j].at = i, ![j].todo = @ \ {i}]
        BY <1>3 DEF Proceed
    <2> DEFINE r == [job[j] EXCEPT !.at = i, !.todo = @ \ {i}]
    <2>2. i \in Instances
        BY <1>0 DEF JobRecords
    <2>3. r \in JobRecords /\ r.at = i /\ r.todo \subseteq job[j].todo /\ r.op = "retire"
        BY <1>0, <1>3, <2>2 DEF JobRecords
    <2>4. job' = [job EXCEPT ![j] = r] /\ Goto(j, "stop")
        BY <1>3, <2>1 DEF Proceed
    <2> HIDE DEF r
    <2>5. Moves(j) /\ pc'[j] = "stop" /\ job'[j] = r
        BY <1>0, <2>3, <2>4 DEF Goto, Moves, JobsTyped, Places
    <2>6. QED
        BY <1>3, <2>2, <2>3, <2>5
        DEF Within, Placed, Fits, Scope, Nowhere, Signalling
<1>4. QED
    BY <1>1, <1>2, <1>3

LEMMA JobStarts ==
    ASSUME RegistryInv, JobsInv, NEW j \in Jobs, StartBegins(j)
    PROVE  /\ Moves(j) /\ Within(j)
           /\ pc'[j] = "spawn" /\ job'[j].at = job[j].at
<1> DEFINE i == job[j].at
<1>1. PICK port \in FindFreePort(instances[i].port) :
          job' = [job EXCEPT ![j].port = port]
    BY DEF StartBegins
<1>2. instances[i] \in Rows
    BY DEF StartBegins, Registered, RegistryInv, RowsTyped
<1>3. port \in Nat
    <2>1. instances[i].port \in Nat /\ ScanRange \in Nat
        BY <1>2, LifecycleAssumption
    <2>2. port \in instances[i].port .. instances[i].port + ScanRange - 1
        BY DEF FindFreePort
    <2>3. QED
        BY <2>1, <2>2
<1>4. job[j] \in JobRecords
    BY DEF JobsInv, JobsTyped
<1>5. job[j].pid \in Pids \cup {0} /\ [job[j] EXCEPT !.pid = job[j].pid, !.port = port]
                                      = [job[j] EXCEPT !.port = port]
    BY <1>4 DEF JobRecords
<1>6. Minds(j, job[j].pid, port)
    BY <1>1, <1>5 DEF Minds
<1>7. Leads(pc[j], "spawn") /\ Goto(j, "spawn")
    BY DEF StartBegins, At, Leads, Places, Nowhere
<1>8. QED
    BY <1>3, <1>5, <1>6, <1>7, JobMinds

\* Spawn minds the new process, StopFinds one that a scan found.
LEMMA JobSpawns ==
    ASSUME JobsInv, NEW j \in Jobs, NEW p \in Pids, At(j, "spawn"), Goto(j, "write"),
           job' = [job EXCEPT ![j].pid = p, ![j].port = 0]
    PROVE  /\ Moves(j) /\ Within(j) /\ pc'[j] = "write"
           /\ job'[j].at = job[j].at /\ job'[j].pid = p
<1>1. Minds(j, p, 0)
    BY DEF Minds
<1>2. Leads(pc[j], "write") /\ p \in Pids \cup {0} /\ 0 \in Nat
    BY DEF At, Leads, Places, Nowhere
<1>3. QED
    BY <1>1, <1>2, JobMinds

LEMMA JobFinds ==
    ASSUME JobsInv, NEW j \in Jobs, NEW p \in Pids, At(j, "stop"), Goto(j, "signal"),
           job' = [job EXCEPT ![j].pid = p]
    PROVE  /\ Moves(j) /\ Within(j) /\ pc'[j] = "signal"
           /\ job'[j].at = job[j].at /\ job'[j].pid = p
<1>1. job[j] \in JobRecords
    BY DEF JobsInv, JobsTyped
<1>2. job[j].port \in Nat /\ [job[j] EXCEPT !.pid = p, !.port = job[j].port]
                              = [job[j] EXCEPT !.pid = p]
    BY <1>1 DEF JobRecords
<1>3. Minds(j, p, job[j].port)
    BY <1>2 DEF Minds
<1>4. Leads(pc[j], "signal") /\ p \in Pids \cup {0}
    BY DEF At, Leads, Places, Nowhere
<1>5. QED
    BY <1>2, <1>3, <1>4, JobMinds

LEMMA JobSteps ==
    ASSUME RegistryInv, JobsInv, NEW j \in Jobs, Step(j), ~ ListInstances(j)
    PROVE  Moves(j) /\ Within(j) /\ (pc'[j] = "spawn" => StartBegins(j))
<1> USE DEF At
<1>1. CASE StartRefused(j) \/ SpawnFails(j) \/ SeesExit(j) \/ Kill(j) \/ StopStuck(j)
           \/ Archive(j) \/ PauseOrResume(j)
    BY <1>1, JobFails DEF StartRefused, SpawnFails, SeesExit, Kill, StopStuck, Archive,
                          PauseOrResume
<1>2. CASE StartBegins(j)
    BY <1>2, JobStarts
<1>3. CASE Spawn(j)
    BY <1>3, JobSpawns DEF Spawn
<1>4. CASE StopFinds(j)
    <2>1. Live \subseteq Pids /\ FindRunning(job[j].at) \subseteq Pids
        BY DEF Live, FindRunning
    <2>2. QED
        BY <1>4, <2>1, JobFails, JobFinds DEF StopFinds
<1>5. CASE WritePidFile(j) \/ SeesHealth(j) \/ TimesOut(j) \/ NotReady(j)
    <2>1. \A from \in {"write", "wait", "probe"}, place \in {"wait", "probe", "kill", "look"} :
              Leads(from, place)
        BY DEF Leads, Places, Nowhere
    <2>2. QED
        BY <1>5, <2>1, JobGoes DEF WritePidFile, SeesHealth, TimesOut, NotReady
<1>6. CASE Ready(j) \/ Look(j)
    <2>1. Leads("probe", "look") /\ Leads("look", "kill")
        BY DEF Leads, Places, Nowhere
    <2>2. QED
        BY <1>6, <2>1, JobGoes, JobFails DEF Ready, Look
<1>7. CASE StopNothing(j) \/ StopSignals(j) \/ StopEnds(j)
    <2>1. Leads("signal", "exit") /\ {"stop", "signal", "exit"} \cap Nowhere = {}
        BY DEF Leads, Places, Nowhere
    <2>2. QED
        BY <1>7, <2>1, JobStopped, JobGoes DEF StopNothing, StopSignals, StopEnds
<1>8. CASE RemoveRow(j) \/ RowIsGone(j)
    BY <1>8, JobProceeds, JobFails DEF RemoveRow, RowIsGone
<1>9. QED
    BY <1>1, <1>2, <1>3, <1>4, <1>5, <1>6, <1>7, <1>8 DEF Step

LEMMA ScopeIsOperations ==
    ASSUME JobsInv, NEW i \in Instances, NEW k \in Jobs
    PROVE  k \in OperationsAt(i) <=> i \in Scope(k)
<1>1. pc[k] = "idle" => i \notin Scope(k)
    BY NoJobTyped DEF JobsInv, Placed, Scope
<1>2. QED
    BY <1>1 DEF OperationsAt, Scope

\* What another operation has in mind of an instance that had overlapped is
\* forgotten only when there is no other, and no process.
Forgiven ==
    \A i \in Instances : i \in overlapped =>
        \/ i \in overlapped'
        \/ LiveOf(i) = {} /\ \A k \in Jobs : i \notin Scope(k)

\* An operation comes to some instances.
Arrives(j, op, to) ==
    /\ Moves(j) /\ Placed(j)' /\ Fits(j)'
    /\ \A i \in Instances : /\ i \notin Scope(j)
                            /\ i \in Scope(j)' => i \in to /\ job'[j].op = op

LEMMA JobComes ==
    ASSUME JobsInv, NEW j \in Jobs, NEW op, NEW to, to \subseteq Instances, Comes(op, to),
           Arrives(j, op, to)
    PROVE  JobsInv' /\ Forgiven
<1>1. \A k \in Jobs \ {j} : /\ Scope(k)' = Scope(k) /\ job'[k].op = job[k].op
                            /\ Placed(k)' /\ Fits(k)'
    BY DEF Arrives, Moves, Scope, Placed, Fits, JobsInv
<1>2. ASSUME NEW i \in Instances, i \notin overlapped',
             NEW k \in Jobs, NEW l \in Jobs, k # l, i \in Scope(k)', i \in Scope(l)'
      PROVE  ~ Conflict(job'[k].op, job'[l].op)
    <2>1. CASE k # j /\ l # j
        <3>1. i \in Scope(k) /\ i \in Scope(l) /\ OperationsAt(i) # {}
            BY <1>1, <2>1, <1>2, ScopeIsOperations
        <3>2. i \notin overlapped
            BY <1>2, <3>1 DEF Comes
        <3>3. QED
            BY <1>1, <1>2, <2>1, <3>1, <3>2 DEF JobsInv, Apart
    <2>2. ASSUME NEW h \in Jobs \ {j}, i \in Scope(h)', i \in Scope(j)'
          PROVE  ~ Conflict(op, job'[h].op) /\ job'[j].op = op
        <3>1. i \in to /\ job'[j].op = op
            BY <2>2 DEF Arrives
        <3>2. h \in OperationsAt(i)
            BY <1>1, <2>2, ScopeIsOperations
        <3>3. QED
            BY <1>1, <1>2, <3>1, <3>2 DEF Comes
    <2>3. QED
        BY <1>2, <2>1, <2>2 DEF Conflict
<1>3. Apart'
    BY <1>2 DEF Apart, Conflict, Starting, Signalling
<1>4. Forgiven
    BY ScopeIsOperations DEF Forgiven, Comes, OperationsAt
<1>5. QED
    BY <1>1, <1>3, <1>4 DEF Arrives, Moves, JobsInv

LEMMA JobBegins ==
    ASSUME JobsInv, NEW j \in Jobs, Operate(j)
    PROVE  /\ JobsInv' /\ Forgiven /\ Moves(j) /\ pc[j] = "idle"
           /\ pc'[j] \in {"start", "stop", "pause", "list"}
<1>0. ASSUME pc[j] = "idle" PROVE \A i \in Instances : i \notin Scope(j)
    BY <1>0, NoJobTyped DEF Scope, JobsInv, Placed
<1>1. ASSUME NEW i \in Instances, NEW op \in Ops \ {"retire"}, Begin(j, op, i)
      PROVE  /\ JobsInv' /\ Forgiven /\ Moves(j) /\ pc[j] = "idle"
             /\ pc'[j] \in {"start", "stop", "pause", "list"}
    <2> DEFINE r == [NoJob EXCEPT !.op = op, !.at = i]
               place == IF op = "start" THEN "start"
                        ELSE IF op \in Signalling THEN "pause" ELSE "stop"
    <2>2. r \in JobRecords /\ r.at = i /\ r.todo = {} /\ r.op = op
        BY DEF NoJob, JobRecords
    <2>3. /\ job' = [job EXCEPT ![j] = r] /\ Goto(j, place) /\ pc[j] = "idle"
          /\ Comes(op, {i})
        BY <1>1 DEF Begin, At
    <2>4. /\ place \in {"start", "stop", "pause"}
          /\ place = "start" => op \in Starting /\ op \notin Signalling
          /\ place = "stop" => op \notin Signalling
        BY DEF Starting, Signalling
    <2> HIDE DEF r, place
    <2>5. Moves(j) /\ pc'[j] = place /\ job'[j] = r
        BY <2>2, <2>3, <2>4 DEF Goto, Moves, JobsInv, JobsTyped, Places
    <2>6. \A h \in Instances : h \in Scope(j)' => h = i
        BY <2>2, <2>5 DEF Scope
    <2>7. Placed(j)' /\ Fits(j)'
        BY <2>2, <2>4, <2>5 DEF Placed, Fits, Nowhere
    <2>8. Arrives(j, op, {i})
        BY <1>0, <2>2, <2>3, <2>5, <2>6, <2>7 DEF Arrives
    <2>9. QED
        BY <2>3, <2>4, <2>5, <2>8, JobComes
<1>2. ASSUME NEW m \in Models, BeginRetire(j, m)
      PROVE  /\ JobsInv' /\ Forgiven /\ Moves(j) /\ pc[j] = "idle"
             /\ pc'[j] \in {"start", "stop", "pause", "list"}
    <2> DEFINE r == [NoJob EXCEPT !.op = "retire", !.model = m]
    <2>1. r \in JobRecords /\ r.at = "" /\ r.todo = {} /\ r.op = "retire"
        BY DEF NoJob, JobRecords, Ops
    <2>2. /\ job' = [job EXCEPT ![j] = r] /\ Goto(j, "list") /\ pc[j] = "idle"
          /\ UNCHANGED overlapped
        BY <1>2 DEF BeginRetire, At, historyVars
    <2> HIDE DEF r
    <2>3. Moves(j) /\ pc'[j] = "list" /\ job'[j] = r
        BY <2>1, <2>2 DEF Goto, Moves, JobsInv, JobsTyped, Places
    <2>4. \A h \in Instances : h \notin Scope(j)'
        BY <2>1, <2>3, RegistryAssumption DEF Scope
    <2>5. Placed(j)' /\ Fits(j)'
        BY <2>1, <2>3 DEF Placed, Fits, Nowhere
    <2>6. \A k \in Jobs \ {j} : /\ Scope(k)' = Scope(k) /\ job'[k] = job[k]
                                /\ Placed(k)' /\ Fits(k)'
        BY <2>3 DEF Moves, Scope, Placed, Fits, JobsInv
    <2>7. Apart'
        BY <2>2, <2>4, <2>6 DEF JobsInv, Apart, Conflict, Starting, Signalling
    <2>8. QED
        BY <2>2, <2>3, <2>5, <2>6, <2>7 DEF JobsInv, Moves, Forgiven
<1>3. QED
    BY <1>1, <1>2 DEF Operate

LEMMA JobLists ==
    ASSUME JobsInv, NEW j \in Jobs, ListInstances(j)
    PROVE  JobsInv' /\ Forgiven /\ Moves(j) /\ pc[j] = "list" /\ pc'[j] \in {"stop", "archive"}
<1> DEFINE listed == InstancesOf(job[j].model)
<1>1. listed \subseteq Instances
    BY DEF InstancesOf, Registered
<1>2. /\ pc[j] = "list" /\ job[j] \in JobRecords /\ job[j].op = "retire"
      /\ job[j].at = "" /\ job[j].todo = {} /\ Comes("retire", listed)
    BY DEF ListInstances, At, JobsInv, JobsTyped, Placed, Fits
<1>3. \A i \in Instances : i \notin Scope(j)
    BY <1>2, RegistryAssumption DEF Scope
<1>4. CASE listed = {}
    <2>1. Goto(j, "archive") /\ UNCHANGED job
        BY <1>4 DEF ListInstances
    <2>2. Moves(j) /\ pc'[j] = "archive" /\ job'[j] = job[j]
        BY <2>1 DEF Goto, Moves, JobsInv, JobsTyped, Places
    <2>3. Arrives(j, "retire", listed)
        BY <1>2, <1>3, <2>2 DEF Arrives, Placed, Fits, Scope, Nowhere
    <2>4. QED
        BY <1>1, <1>2, <2>2, <2>3, JobComes
<1>5. CASE listed # {}
    <2>1. PICK i \in listed :
              job' = [job EXCEPT ![j].at = i, ![j].todo = listed \ {i}]
        BY <1>5 DEF ListInstances
    <2> DEFINE r == [job[j] EXCEPT !.at = i, !.todo = listed \ {i}]
    <2>2. r \in JobRecords /\ r.at = i /\ r.todo \subseteq listed /\ r.op = "retire"
        BY <1>1, <1>2 DEF JobRecords
    <2>3. job' = [job EXCEPT ![j] = r] /\ Goto(j, "stop")
        BY <1>5, <2>1 DEF ListInstances
    <2> HIDE DEF r
    <2>4. Moves(j) /\ pc'[j] = "stop" /\ job'[j] = r
        BY <2>2, <2>3 DEF Goto, Moves, JobsInv, JobsTyped, Places
    <2>5. Placed(j)' /\ Fits(j)'
        BY <1>1, <2>2, <2>4 DEF Placed, Fits, Nowhere, Signalling
    <2>6. Arrives(j, "retire", listed)
        BY <1>3, <2>1, <2>2, <2>4, <2>5 DEF Arrives, Scope
    <2>7. QED
        BY <1>1, <1>2, <2>4, <2>6, JobComes
<1>6. QED
    BY <1>4, <1>5

LEMMA JobsInit == Init => JobsInv
<1> SUFFICES ASSUME Init PROVE JobsInv
    OBVIOUS
<1>1. JobsTyped
    BY NoJobTyped DEF Init, JobsTyped, Places
<1>2. \A j \in Jobs : pc[j] = "idle" /\ job[j] = NoJob
    BY DEF Init
<1>3. \A j \in Jobs : \A i \in Instances : i \notin Scope(j)
    BY <1>2, NoJobTyped DEF Scope
<1>4. QED
    BY <1>1, <1>2, <1>3 DEF JobsInv, Placed, Fits, Apart, Nowhere

\* Only an operation that comes to an instance changes what overlaps.
LEMMA HistoriesKept ==
    ASSUME [Next]_vars, ~ \E j \in Jobs : Operate(j) \/ ListInstances(j)
    PROVE  UNCHANGED overlapped
<1>1. ASSUME NEW j \in Jobs, Step(j) PROVE UNCHANGED overlapped
    BY <1>1 DEF Step, historyVars, StartRefused, StartBegins, Spawn, SpawnFails,
       WritePidFile, SeesExit, SeesHealth, TimesOut, Ready, NotReady, Look, Kill,
       StopNothing, StopFinds, StopSignals, StopEnds, StopStuck, RemoveRow, RowIsGone,
       PauseOrResume, Archive
<1>2. QED
    BY <1>1 DEF Next, EditRegistry, Bind, Exits, ManagerCrashes, historyVars, vars

LEMMA JobsNext ==
    ASSUME RegistryInv, JobsInv, [Next]_vars PROVE JobsInv'
<1>1. ASSUME NEW j \in Jobs, Step(j), ~ ListInstances(j), UNCHANGED overlapped
      PROVE  JobsInv'
    <2>1. Moves(j) /\ Within(j)
        BY <1>1, JobSteps
    <2>2. \A k \in Jobs \ {j} : /\ Scope(k)' = Scope(k) /\ job'[k].op = job[k].op
                                /\ Placed(k)' /\ Fits(k)'
        BY <2>1 DEF Moves, Scope, Placed, Fits, JobsInv
    <2>3. \A k \in Jobs : \A i \in Instances :
              i \in Scope(k)' => i \in Scope(k) /\ job'[k].op = job[k].op
        BY <2>1, <2>2 DEF Within
    <2>4. Apart'
        BY <1>1, <2>3 DEF JobsInv, Apart, Conflict, Starting, Signalling
    <2>5. QED
        BY <2>1, <2>2, <2>4 DEF JobsInv, Moves, Within
<1>2. CASE ManagerCrashes
    <2>1. JobsTyped'
        BY <1>2, NoJobTyped DEF ManagerCrashes, JobsTyped, Places
    <2>2. \A j \in Jobs : pc'[j] = "idle" /\ job'[j] = NoJob
        BY <1>2 DEF ManagerCrashes
    <2>3. \A j \in Jobs : \A i \in Instances : i \notin Scope(j)'
        BY <2>2, NoJobTyped DEF Scope
    <2>4. QED
        BY <2>1, <2>2, <2>3 DEF JobsInv, Placed, Fits, Apart, Nowhere
<1>3. CASE UNCHANGED <<jobVars, overlapped>>
    BY <1>3 DEF jobVars, JobsInv, JobsTyped, Placed, Fits, Apart, Scope
<1>4. CASE \E j \in Jobs : Operate(j) \/ ListInstances(j)
    BY <1>4, JobBegins, JobLists
<1>5. CASE ~ \E j \in Jobs : Operate(j) \/ ListInstances(j)
    <2>1. UNCHANGED overlapped
        BY <1>5, HistoriesKept
    <2>2. QED
        BY <1>1, <1>2, <1>3, <1>5, <2>1 DEF Next, EditRegistry, Bind, Exits, vars
<1>6. QED
    BY <1>4, <1>5

-----------------------------------------------------------------------------
(* Which rows there are. Only the end of a removal takes one away.          *)

Modelled == \A i \in Registered : instances[i].model \in Models

RowsGrow == Registered \subseteq Registered' /\ Modelled'

LEMMA RowGrows ==
    ASSUME RegistryInv, Modelled, NEW i \in Instances, NEW row \in Rows,
           row.model \in Models, Update(i, row)
    PROVE  RowsGrow
<1>1. NoRow.model = "" /\ "" \notin Models
    BY RegistryAssumption DEF NoRow, Row
<1>2. /\ instances'[i] = row
      /\ \A k \in Instances \ {i} : instances'[k] = instances[k]
    BY RowWritten DEF RegistryInv
<1>3. row # NoRow
    BY <1>1
<1>4. QED
    BY <1>2, <1>3 DEF RowsGrow, Registered, Modelled

LEMMA RowHeldGrows == ASSUME RegistryInv, Modelled, RowHeld PROVE RowsGrow
<1>1. Registered \subseteq Instances
    BY DEF Registered
<1>2. QED
    BY <1>1, RowGrows DEF RowHeld, Modelled

LEMMA RowsStay == ASSUME Modelled, UNCHANGED instances PROVE RowsGrow
BY DEF RowsGrow, Modelled, Registered

LEMMA WritesGrow == ASSUME RegistryInv, Modelled, WriteEdit PROVE RowsGrow
<1>1. CASE Update(edit.at, Row(edit.model, edit.port)) /\ edit.writes \in {"both", "instance"}
    <2>1. edit.model \in Models /\ edit.at \in Instances /\ edit.port \in Nat
        BY <1>1 DEF RegistryInv, Right
    <2>2. PICK row \in Rows : row = Row(edit.model, edit.port) /\ row.model = edit.model
        BY <2>1, RowIsTyped
    <2>3. QED
        BY <1>1, <2>1, <2>2, RowGrows
<1>2. CASE UNCHANGED instances
    BY <1>2, RowsStay
<1>3. QED
    BY <1>1, <1>2 DEF WriteEdit, WriteCatalog, WriteInstance, WriteSlug

LEMMA EditsGrow == ASSUME RegistryInv, Modelled, EditRegistry PROVE RowsGrow
<1>1. ASSUME NEW i \in Instances, EditInstance(i) PROVE RowsGrow
    BY <1>1, PatchKeepsRow, RowHeldGrows, RowsStay
       DEF EditInstance, SetSlug, AddInstance, Checked
<1>2. ASSUME NEW m \in Models, EditModel(m) PROVE RowsGrow
    BY <1>2, RowsStay DEF EditModel, AddCatalog, Add, AddReplica, AddInstance,
                          Checked, RestoreCatalog
<1>3. QED
    BY <1>1, <1>2, WritesGrow DEF EditRegistry

LEMMA StepsGrow ==
    ASSUME RegistryInv, Modelled, NEW j \in Jobs, Step(j), ~ RemoveRow(j) PROVE RowsGrow
<1>1. CASE StartBegins(j)
    BY <1>1, StartKeepsRow, RowHeldGrows
<1>2. CASE Archive(j)
    BY <1>2, RowsStay DEF Archive
<1>3. QED
    BY <1>1, <1>2, OtherStepsKeepRows, RowsStay

LEMMA RemovalTakesOne ==
    ASSUME RegistryInv, Modelled, NEW j \in Jobs, RemoveRow(j)
    PROVE  Modelled' /\ Registered' = Registered \ {job[j].at}
<1> DEFINE i == job[j].at
<1>1. NoRow \in Rows /\ Update(i, NoRow) /\ i \in Instances
    BY RowIsTyped DEF NoRow, RemoveRow, Remove, Registered
<1>2. /\ instances'[i] = NoRow
      /\ \A k \in Instances \ {i} : instances'[k] = instances[k]
    BY <1>1, RowWritten DEF RegistryInv
<1>3. QED
    BY <1>2 DEF Registered, Modelled

-----------------------------------------------------------------------------
(* The processes. A pid file holds no process but its instance's; of what   *)
(* an operation does to an instance, no other that is not kept apart knows. *)

Procs ==
    [of : Instances \cup {""}, port : Nat, does : {"nothing", "dead", "loads", "serves"},
     signal : {"none", "SIGSTOP", "SIGKILL"}]

ProcsTyped ==
    /\ proc \in [Pids -> Procs]
    /\ \A p \in Live : proc[p].of \in Instances
    /\ pidfile \in [Instances -> Pids \cup {0}]
    /\ crashes \in Nat

\* The process is the instance's, or has exited.
Owned(p, i) == proc[p] = Dead \/ proc[p].of = i

\* No crash and no overlap can have made the manager lose a process of it.
Known(i) == (i \in Aliased \/ crashes = 0) /\ i \notin overlapped

\* The processes that count: one that has been killed, and that only its pid
\* file would name, does not.
Counted(i) == {p \in LiveOf(i) : i \in Aliased \/ proc[p].signal # "SIGKILL"}

FilesRight == \A i \in Instances : pidfile[i] # 0 => Owned(pidfile[i], i)

\* From Popen until the process is let go, and from the scan to the exit, the
\* instance has no process but the one in mind; before and after, none.
Holding == {"write", "wait", "probe", "look", "kill", "signal", "exit"}

Minding(i, p) ==
    /\ p \in Pids /\ Owned(p, i)
    /\ Known(i) => Counted(i) \subseteq {p}

JobRight(j) ==
    /\ pc[j] \in Holding => Minding(job[j].at, job[j].pid)
    /\ pc[j] \in {"spawn", "remove"} /\ Known(job[j].at) => Counted(job[j].at) = {}
    /\ pc[j] \in {"spawn", "write"} /\ Known(job[j].at) => job[j].at \in Registered

Single == \A i \in Instances : Known(i) => \A p, q \in Counted(i) : p = q

\* A process that no start has yet to write down is found by its name.
Written(p) == \A k \in Jobs : pc[k] = "write" => job[k].pid # p

Found(p) ==
    /\ proc[p].of \in Registered
    /\ pidfile[proc[p].of] = p \/ proc[p].of \in Aliased

Traced ==
    \A p \in Live : Written(p) =>
        Found(p) \/ ~ Known(proc[p].of) \/ proc[p].signal = "SIGKILL"

ProcsInv ==
    /\ ProcsTyped
    /\ FilesRight
    /\ \A j \in Jobs : JobRight(j)
    /\ Single
    /\ Traced

\* Whatever overlaps: a start that spawns has found nothing, and is the only one.
Spawning(i) == {j \in Jobs : pc[j] = "spawn" /\ job[j].at = i}

Alone ==
    \A i \in Aliased \ doubled :
        /\ \A p, q \in LiveOf(i) : p = q
        /\ \A j \in Spawning(i) : LiveOf(i) = {}
        /\ \A j, k \in Spawning(i) : j = k

NodeInv == RegistryInv /\ Modelled /\ JobsInv /\ ProcsInv /\ Alone

\* The name a scan gives a live process is its own, or none.
LEMMA AliasIs ==
    ASSUME ProcsInv, NEW p \in Live, NEW i \in Instances
    PROVE  i \in Alias(p) <=>
             i = proc[p].of /\ (pidfile[i] = p \/ i \in Aliased)
<1>1. p \in Pids /\ proc[p] # Dead /\ p # 0
    BY LifecycleAssumption DEF Live
<1>2. \A k \in Instances : pidfile[k] = p => k = proc[p].of
    BY <1>1 DEF ProcsInv, FilesRight, Owned
<1>3. QED
    BY <1>2 DEF Alias

LEMMA NodeIsRight == NodeInv => OneProcess /\ Accounted
<1> SUFFICES ASSUME NodeInv PROVE OneProcess /\ Accounted
    OBVIOUS
<1>1. OneProcess
    <2> SUFFICES ASSUME NEW i \in Aliased \ doubled PROVE Cardinality(LiveOf(i)) <= 1
        BY DEF OneProcess
    <2>1. \A p, q \in LiveOf(i) : p = q
        BY DEF NodeInv, Alone
    <2>2. CASE LiveOf(i) = {}
        <3>1. Cardinality(LiveOf(i)) = 0
            BY <2>2, FS_EmptySet
        <3>2. QED
            BY <3>1
    <2>3. ASSUME NEW p \in LiveOf(i) PROVE Cardinality(LiveOf(i)) <= 1
        <3>1. LiveOf(i) = {p}
            BY <2>1
        <3>2. Cardinality({p}) = 1
            BY FS_Singleton
        <3>3. QED
            BY <3>1, <3>2
    <2>4. QED
        BY <2>2, <2>3
<1>2. Accounted
    <2> SUFFICES ASSUME NEW p \in Live, Written(p)
                 PROVE  \/ proc[p].of \in Alias(p) /\ proc[p].of \in Registered
                        \/ proc[p].signal = "SIGKILL"
                        \/ Lost(p) \/ proc[p].of \in overlapped
        BY DEF Accounted, At, Written
    <2>1. proc[p].of \in Instances /\ crashes \in Nat
        BY DEF NodeInv, ProcsInv, ProcsTyped
    <2>2. Found(p) \/ ~ Known(proc[p].of) \/ proc[p].signal = "SIGKILL"
        BY DEF NodeInv, ProcsInv, Traced
    <2>3. CASE Found(p)
        BY <2>1, <2>3, AliasIs DEF NodeInv, Found
    <2>4. CASE ~ Known(proc[p].of)
        BY <2>1, <2>4 DEF Known, Lost
    <2>5. QED
        BY <2>2, <2>3, <2>4
<1>3. QED
    BY <1>1, <1>2

-----------------------------------------------------------------------------
(* Steps that start no process and remove no row.                           *)

\* Processes come to no life, change no owner, and a SIGKILL stays.
Shrinks ==
    /\ proc' \in [Pids -> Procs]
    /\ \A p \in Pids :
          /\ proc[p] = Dead => proc'[p] = Dead
          /\ \/ proc'[p] = Dead
             \/ /\ proc'[p].of = proc[p].of
                /\ proc[p].signal = "SIGKILL" => proc'[p].signal = "SIGKILL"
          /\ p \in Live' => p \in Live

\* The pid file of an instance is removed when it names nothing that counts.
Forgets(i) ==
    /\ pidfile' = [pidfile EXCEPT ![i] = 0]
    /\ Known(i) /\ i \notin Aliased => Counted(i)' = {}

Stays(j) == pc'[j] = pc[j] /\ job'[j] = job[j]

LEMMA ShrinkingKeeps ==
    ASSUME NodeInv, Shrinks
    PROVE  /\ \A p \in Live' : /\ p \in Live /\ proc'[p].of = proc[p].of
                               /\ proc[p].of \in Instances
                               /\ proc[p].signal = "SIGKILL" => proc'[p].signal = "SIGKILL"
           /\ \A i : LiveOf(i)' \subseteq LiveOf(i)
           /\ \A i : Counted(i)' \subseteq Counted(i)
           /\ \A p \in Pids, i \in Instances : Owned(p, i) => Owned(p, i)'
<1>1. \A p \in Live' : /\ p \in Pids /\ p \in Live /\ proc'[p].of = proc[p].of
                       /\ proc[p].signal = "SIGKILL" => proc'[p].signal = "SIGKILL"
    BY DEF Shrinks, Live
<1>2. \A p \in Live : proc[p].of \in Instances
    BY DEF NodeInv, ProcsInv, ProcsTyped
<1>3. \A i : LiveOf(i)' \subseteq LiveOf(i)
    BY <1>1 DEF LiveOf
<1>4. \A i : Counted(i)' \subseteq Counted(i)
    BY <1>1, <1>3 DEF Counted, LiveOf
<1>5. \A p \in Pids, i \in Instances : Owned(p, i) => Owned(p, i)'
    BY DEF Shrinks, Owned
<1>6. QED
    BY <1>1, <1>2, <1>3, <1>4, <1>5

\* What comes to be known of an instance has no process, and no operation.
Remembers ==
    \A i \in Instances : Known(i)' =>
        \/ Known(i)
        \/ /\ LiveOf(i) = {}
           /\ \A k \in Jobs : pc[k] \notin Nowhere => job[k].at # i

LEMMA QuietStep ==
    ASSUME NodeInv, RowsGrow, Shrinks, UNCHANGED crashes, Remembers,
           pidfile' = pidfile \/ \E i \in Instances : Forgets(i),
           \A k \in Jobs : Stays(k) \/ (pc[k] # "write" /\ JobRight(k)')
    PROVE  ProcsInv'
<1>t. ProcsTyped /\ FilesRight /\ Traced /\ Single
    BY DEF NodeInv, ProcsInv
<1>1. \A i \in Instances : pidfile'[i] = pidfile[i] \/ (pidfile'[i] = 0 /\ Forgets(i))
    BY <1>t DEF Forgets, ProcsTyped
<1>n. \A i \in Instances : LiveOf(i) = {} => LiveOf(i)' = {} /\ Counted(i)' = {}
    BY ShrinkingKeeps DEF Counted
<1>2. ProcsTyped'
    <2>1. pidfile' \in [Instances -> Pids \cup {0}]
        BY <1>t DEF Forgets, ProcsTyped
    <2>2. \A p \in Live' : proc'[p].of \in Instances
        BY ShrinkingKeeps
    <2>3. QED
        BY <1>t, <2>1, <2>2 DEF ProcsTyped, Shrinks
<1>3. FilesRight'
    <2> SUFFICES ASSUME NEW i \in Instances, pidfile'[i] # 0
                 PROVE  Owned(pidfile[i], i)'
        BY DEF FilesRight
    <2>1. pidfile'[i] = pidfile[i] /\ pidfile[i] \in Pids
        BY <1>1, <1>t DEF ProcsTyped
    <2>2. Owned(pidfile[i], i)
        BY <1>t, <2>1 DEF FilesRight
    <2>3. QED
        BY <2>1, <2>2, ShrinkingKeeps DEF Owned
<1>4. ASSUME NEW k \in Jobs PROVE JobRight(k)'
    <2>1. CASE Stays(k)
        <3>1. JobRight(k) /\ pc'[k] = pc[k] /\ job'[k] = job[k]
            BY <2>1 DEF NodeInv, ProcsInv, Stays
        <3>2. ASSUME pc[k] \in Holding \cup {"spawn", "remove"}
              PROVE  /\ job[k].at \in Instances
                     /\ Known(job[k].at)' => Known(job[k].at)
            <4>1. pc[k] \notin Nowhere
                BY <3>2 DEF Holding, Nowhere
            <4>2. job[k].at \in Instances
                BY <4>1 DEF NodeInv, JobsInv, Placed
            <4>3. QED
                BY <3>1, <4>1, <4>2 DEF Remembers
        <3>3. CASE pc[k] \in Holding
            <4>1. Minding(job[k].at, job[k].pid) /\ job[k].at \in Instances
                BY <3>1, <3>2, <3>3 DEF JobRight
            <4>2. Minding(job[k].at, job[k].pid)'
                BY <3>1, <3>2, <3>3, <4>1, ShrinkingKeeps DEF Minding, Owned
            <4>3. pc[k] = "write" /\ Known(job[k].at)' => job[k].at \in Registered'
                BY <3>1, <3>2, <3>3 DEF JobRight, RowsGrow
            <4>4. QED
                BY <3>1, <3>3, <4>2, <4>3 DEF JobRight, Holding
        <3>4. CASE pc[k] \notin Holding
            <4>1. pc[k] \in {"spawn", "remove"} /\ Known(job[k].at)' =>
                      Counted(job[k].at)' = {}
                BY <3>1, <3>2, ShrinkingKeeps DEF JobRight
            <4>2. pc[k] = "spawn" /\ Known(job[k].at)' => job[k].at \in Registered'
                BY <3>1, <3>2 DEF JobRight, RowsGrow
            <4>3. pc[k] # "write"
                BY <3>4 DEF Holding
            <4>4. QED
                BY <3>1, <3>4, <4>1, <4>2, <4>3 DEF JobRight
        <3>5. QED
            BY <3>3, <3>4
    <2>2. QED
        BY <2>1
<1>5. Single'
    BY <1>t, <1>n, ShrinkingKeeps DEF Single, Remembers
<1>6. Traced'
    <2> SUFFICES ASSUME NEW p \in Live', Written(p)', Known(proc[p].of)',
                        proc'[p].signal # "SIGKILL"
                 PROVE  Found(p)'
        BY DEF Traced
    <2> DEFINE i == proc[p].of
    <2>1. /\ p \in Live /\ proc'[p].of = i /\ i \in Instances
          /\ proc[p].signal # "SIGKILL" /\ p \in LiveOf(i)' /\ p \in Counted(i)'
        BY ShrinkingKeeps DEF Counted, LiveOf
    <2>2. Known(i)
        BY <1>n, <2>1 DEF Remembers
    <2>3. Written(p)
        BY DEF Written, Stays
    <2>4. Found(p)
        BY <1>t, <2>1, <2>2, <2>3 DEF Traced
    <2>5. i \in Registered'
        BY <2>4 DEF Found, RowsGrow
    <2>6. i \in Aliased \/ pidfile'[i] = pidfile[i]
        BY <1>1, <2>1, <2>2 DEF Forgets
    <2>7. QED
        BY <2>1, <2>4, <2>5, <2>6 DEF Found
<1>7. QED
    BY <1>2, <1>3, <1>4, <1>5, <1>6 DEF ProcsInv

LEMMA SameProcesses == ASSUME NodeInv, UNCHANGED proc PROVE Shrinks
BY DEF NodeInv, ProcsInv, ProcsTyped, Shrinks, Live

\* A process gets a signal, goes on, or exits.
LEMMA ProcessChanges ==
    ASSUME NodeInv, NEW p \in Live, NEW new \in Procs,
           \/ new = Dead
           \/ /\ new.of = proc[p].of
              /\ proc[p].signal = "SIGKILL" => new.signal = "SIGKILL",
           proc' = [proc EXCEPT ![p] = new]
    PROVE  Shrinks
BY DEF Shrinks, Live, NodeInv, ProcsInv, ProcsTyped

LEMMA SignalShrinks ==
    ASSUME NodeInv, NEW p \in Live, NEW s \in {"none", "SIGSTOP", "SIGKILL"},
           proc[p].signal = "SIGKILL" => s = "SIGKILL",
           proc' = [proc EXCEPT ![p].signal = s]
    PROVE  Shrinks
<1> DEFINE new == [proc[p] EXCEPT !.signal = s]
<1>1. proc[p] \in Procs
    BY DEF Live, NodeInv, ProcsInv, ProcsTyped
<1>2. new \in Procs /\ new.of = proc[p].of /\ new.signal = s
    BY <1>1 DEF Procs
<1>3. proc' = [proc EXCEPT ![p] = new]
    OBVIOUS
<1> HIDE DEF new
<1>4. QED
    BY <1>2, <1>3, ProcessChanges

\* No step of an operation but Spawn starts a process.
LEMMA StepsShrink ==
    ASSUME NodeInv, NEW j \in Jobs, Step(j), ~ Spawn(j) PROVE Shrinks
<1>1. CASE Kill(j)
    <2>1. CASE job[j].pid \in Live
        BY <1>1, <2>1, SignalShrinks DEF Kill, Killed
    <2>2. CASE job[j].pid \notin Live
        BY <1>1, <2>2, SameProcesses DEF Kill
    <2>3. QED
        BY <2>1, <2>2
<1>2. CASE StopStuck(j)
    BY <1>2, SignalShrinks DEF StopStuck, Killed
<1>3. CASE PauseOrResume(j)
    <2>1. CASE UNCHANGED proc
        BY <2>1, SameProcesses
    <2>2. ASSUME NEW p \in FindRunning(job[j].at),
                 proc' = [proc EXCEPT ![p].signal =
                             IF @ = "SIGKILL" THEN @
                             ELSE IF job[j].op = "pause" THEN "SIGSTOP" ELSE "none"]
          PROVE  Shrinks
        <3> DEFINE s == IF proc[p].signal = "SIGKILL" THEN "SIGKILL"
                        ELSE IF job[j].op = "pause" THEN "SIGSTOP" ELSE "none"
        <3>1. p \in Live /\ p \in Pids
            BY DEF FindRunning, Live
        <3>2. proc \in [Pids -> Procs]
            BY DEF NodeInv, ProcsInv, ProcsTyped
        <3>3. proc' = [proc EXCEPT ![p].signal = s]
            BY <2>2, <3>1, <3>2
        <3>4. /\ s \in {"none", "SIGSTOP", "SIGKILL"}
              /\ proc[p].signal = "SIGKILL" => s = "SIGKILL"
            OBVIOUS
        <3> HIDE DEF s
        <3>5. QED
            BY <3>1, <3>3, <3>4, SignalShrinks
    <2>3. QED
        BY <1>3, <2>1, <2>2 DEF PauseOrResume
<1>4. CASE ~ Kill(j) /\ ~ StopStuck(j) /\ ~ PauseOrResume(j)
    <2>1. UNCHANGED proc
        BY <1>4 DEF Step, processVars, StartRefused, StartBegins, SpawnFails,
           WritePidFile, SeesExit, SeesHealth, TimesOut, Ready, NotReady, Look,
           StopNothing, StopFinds, StopSignals, StopEnds, RemoveRow, RowIsGone,
           ListInstances, Archive
    <2>2. QED
        BY <2>1, SameProcesses
<1>5. QED
    BY <1>1, <1>2, <1>3, <1>4

LEMMA EnginesShrink ==
    ASSUME NodeInv, NEW p \in Pids, Bind(p) \/ Exits(p) PROVE Shrinks
<1>1. p \in Live /\ proc[p] \in Procs
    BY DEF Bind, Exits, Live, NodeInv, ProcsInv, ProcsTyped
<1>2. PICK new \in {Dead, [proc[p] EXCEPT !.does = "serves"]} :
          proc' = [proc EXCEPT ![p] = new]
    BY DEF Bind, Exits
<1>3. /\ new \in Procs
      /\ \/ new = Dead
         \/ new.of = proc[p].of /\ new.signal = proc[p].signal
    <2>1. Dead \in Procs
        BY DEF Procs, Dead, Nobody
    <2>2. /\ [proc[p] EXCEPT !.does = "serves"] \in Procs
          /\ [proc[p] EXCEPT !.does = "serves"].of = proc[p].of
          /\ [proc[p] EXCEPT !.does = "serves"].signal = proc[p].signal
        BY <1>1 DEF Procs
    <2>3. QED
        BY <2>1, <2>2
<1>4. QED
    BY <1>1, <1>2, <1>3, ProcessChanges

-----------------------------------------------------------------------------
(* The steps of an operation that are quiet, one by one.                    *)

\* A scan that finds nothing of an instance is right about what counts.
LEMMA NothingRuns ==
    ASSUME NodeInv, NEW j \in Jobs, pc[j] \in {"start", "stop"},
           FindRunning(job[j].at) = {}
    PROVE  /\ job[j].at \in Instances
           /\ job[j].at \in Aliased => LiveOf(job[j].at) = {}
           /\ Known(job[j].at) => Counted(job[j].at) = {}
<1> DEFINE i == job[j].at
<1>1. i \in Instances
    BY DEF NodeInv, JobsInv, Placed, Nowhere
<1>2. ASSUME NEW p \in LiveOf(i) PROVE i \notin Aliased /\ ~ Found(p)
    <2>1. p \in Live /\ proc[p].of = i /\ i \notin Alias(p)
        BY <1>2 DEF LiveOf, FindRunning
    <2>2. QED
        BY <1>1, <2>1, AliasIs DEF Found, NodeInv
<1>3. ASSUME Known(i), NEW p \in Counted(i) PROVE FALSE
    <2>1. /\ p \in Live /\ proc[p].of = i /\ ~ Found(p)
          /\ proc[p].signal # "SIGKILL"
        BY <1>2, <1>3 DEF Counted, LiveOf
    <2>2. ~ Written(p)
        BY <1>3, <2>1 DEF NodeInv, ProcsInv, Traced
    <2>3. PICK k \in Jobs : pc[k] = "write" /\ job[k].pid = p
        BY <2>2 DEF Written
    <2>4. Owned(p, job[k].at)
        BY <2>3 DEF NodeInv, ProcsInv, JobRight, Holding, Minding
    <2>5. job[k].at = i /\ k # j
        BY <2>1, <2>3, <2>4 DEF Owned, Live
    <2>6. job[k].op \in Starting /\ job[j].op \notin Signalling
        BY <2>3 DEF NodeInv, JobsInv, Fits, Nowhere
    <2>7. QED
        BY <1>1, <1>3, <2>5, <2>6 DEF NodeInv, JobsInv, Apart, Scope, Conflict, Known
<1>4. QED
    BY <1>1, <1>2, <1>3

LEMMA StepsRemember ==
    ASSUME NodeInv, UNCHANGED <<crashes, overlapped>> PROVE Remembers
BY DEF Remembers, Known

\* What an operation must see to, that changes no file but its own.
LEMMA JobStep ==
    ASSUME NodeInv, NEW j \in Jobs, Step(j), ~ Spawn(j), ~ RemoveRow(j),
           ~ ListInstances(j), UNCHANGED <<crashes, overlapped>>,
           pc[j] # "write", JobRight(j)',
           pidfile' = pidfile \/ \E i \in Instances : Forgets(i)
    PROVE  ProcsInv'
<1>1. RowsGrow
    BY StepsGrow DEF NodeInv
<1>2. \A k \in Jobs \ {j} : Stays(k)
    BY JobSteps DEF NodeInv, Moves, Stays
<1>3. QED
    BY <1>1, <1>2, StepsShrink, StepsRemember, QuietStep

\* An operation that is over, or has yet to look for a process, minds none.
LEMMA MindsNothing ==
    ASSUME NEW j, pc'[j] \in Nowhere \cup {"start", "stop", "pause"}
    PROVE  JobRight(j)'
BY DEF JobRight, Holding, Nowhere

\* The step of an operation that ends it, or leaves it nothing to mind.
LEMMA StepsAway ==
    ASSUME NodeInv, NEW j \in Jobs,
           \/ StartRefused(j) \/ SpawnFails(j) \/ StopStuck(j) \/ Archive(j)
           \/ PauseOrResume(j) \/ RowIsGone(j)
    PROVE  ProcsInv'
<1>1. /\ pidfile' = pidfile /\ UNCHANGED <<crashes, overlapped>>
      /\ pc[j] \in {"start", "spawn", "exit", "archive", "pause", "remove"}
      /\ Step(j) /\ ~ Spawn(j) /\ ~ RemoveRow(j) /\ ~ ListInstances(j)
    BY DEF StartRefused, SpawnFails, StopStuck, Archive, PauseOrResume, RowIsGone,
           processVars, historyVars, At, Step, Spawn, Goto, Fails, RemoveRow, ListInstances,
           NodeInv, JobsInv, JobsTyped
<1>2. pc'[j] \in Nowhere \cup {"start", "stop", "pause"}
    BY JobFails, JobProceeds
    DEF StartRefused, SpawnFails, StopStuck, Archive, PauseOrResume, RowIsGone, At,
        Nowhere, NodeInv
<1>3. QED
    BY <1>1, <1>2, MindsNothing, JobStep

LEMMA StartsRight ==
    ASSUME NodeInv, NEW j \in Jobs, StartBegins(j)
    PROVE  ProcsInv'
<1> DEFINE i == job[j].at
<1>1. /\ pc[j] = "start" /\ i \in Registered /\ FindRunning(i) = {}
      /\ UNCHANGED <<proc, pidfile, crashes, overlapped>>
      /\ Step(j) /\ ~ Spawn(j) /\ ~ RemoveRow(j) /\ ~ ListInstances(j)
    BY DEF StartBegins, At, processVars, Step, Spawn, RemoveRow, ListInstances
<1>2. pc'[j] = "spawn" /\ job'[j].at = i
    BY JobStarts DEF NodeInv
<1>3. i \in Registered'
    BY <1>1, StepsGrow DEF NodeInv, RowsGrow
<1>4. Known(i) => Counted(i) = {}
    BY <1>1, NothingRuns
<1>5. JobRight(j)'
    BY <1>1, <1>2, <1>3, <1>4 DEF JobRight, Holding, Known, Counted, LiveOf, Live
<1>6. QED
    BY <1>1, <1>5, JobStep

\* While its process loads, a start keeps its eye on it.
LEMMA WaitsRight ==
    ASSUME NodeInv, NEW j \in Jobs,
           \/ SeesHealth(j) \/ TimesOut(j) \/ Ready(j) \/ NotReady(j) \/ Look(j)
    PROVE  ProcsInv'
<1>1. /\ pc[j] \in {"wait", "probe", "look"}
      /\ UNCHANGED <<proc, pidfile, crashes, overlapped>>
      /\ Step(j) /\ ~ Spawn(j) /\ ~ RemoveRow(j) /\ ~ ListInstances(j)
    BY DEF SeesHealth, TimesOut, Ready, NotReady, Look, At, processVars, historyVars,
           Step, Spawn, RemoveRow, ListInstances
<1>2. \/ pc'[j] = "idle"
      \/ pc'[j] \in {"probe", "kill", "look"} /\ job'[j] = job[j]
    <2>1. Fails(j) => pc'[j] = "idle"
        BY JobFails DEF NodeInv
    <2>2. \A place \in {"probe", "kill", "look"} :
              Goto(j, place) /\ UNCHANGED job => pc'[j] = place
        BY DEF Goto, NodeInv, JobsInv, JobsTyped
    <2>3. QED
        BY <2>1, <2>2 DEF SeesHealth, TimesOut, Ready, NotReady, Look
<1>3. Minding(job[j].at, job[j].pid)
    BY <1>1 DEF NodeInv, ProcsInv, JobRight, Holding
<1>4. JobRight(j)'
    <2>1. CASE pc'[j] = "idle"
        BY <2>1, MindsNothing DEF Nowhere
    <2>2. CASE pc'[j] \in {"probe", "kill", "look"} /\ job'[j] = job[j]
        <3>1. Minding(job[j].at, job[j].pid)'
            BY <1>1, <1>3, <2>2 DEF Minding, Owned, Known, Counted, LiveOf, Live
        <3>2. QED
            BY <2>2, <3>1 DEF JobRight
    <2>3. QED
        BY <1>2, <2>1, <2>2
<1>5. QED
    BY <1>1, <1>4, JobStep

\* A file is removed with the process it is about gone, or killed.
LEMMA ForgetsRight ==
    ASSUME NodeInv, NEW j \in Jobs, pc[j] \in Holding, Shrinks,
           job[j].pid \in Live' => proc'[job[j].pid].signal = "SIGKILL",
           pidfile' = [pidfile EXCEPT ![job[j].at] = 0]
    PROVE  \E i \in Instances : i = job[j].at /\ Forgets(i)
<1>1. PICK i \in Instances : i = job[j].at
    BY DEF NodeInv, JobsInv, Placed, Holding, Nowhere
<1>2. Minding(i, job[j].pid)
    BY <1>1 DEF NodeInv, ProcsInv, JobRight
<1>3. Counted(i)' \subseteq Counted(i)
    BY ShrinkingKeeps
<1>4. Known(i) /\ i \notin Aliased => Counted(i)' = {}
    BY <1>2, <1>3 DEF Minding, Counted, LiveOf
<1>5. QED
    BY <1>1, <1>4 DEF Forgets

LEMMA SeesExitRight ==
    ASSUME NodeInv, NEW j \in Jobs, SeesExit(j) PROVE ProcsInv'
<1>1. /\ pc[j] = "wait" /\ job[j].pid \notin Live
      /\ UNCHANGED <<proc, crashes, overlapped>>
      /\ Step(j) /\ ~ Spawn(j) /\ ~ RemoveRow(j) /\ ~ ListInstances(j)
      /\ pidfile' = [pidfile EXCEPT ![job[j].at] = 0]
    BY DEF SeesExit, At, historyVars, Step, Spawn, RemoveRow, ListInstances
<1>2. JobRight(j)'
    BY JobFails, MindsNothing DEF NodeInv, SeesExit, Nowhere
<1>3. job[j].pid \notin Live'
    BY <1>1 DEF Live
<1>4. \E i \in Instances : Forgets(i)
    BY <1>1, <1>3, StepsShrink, ForgetsRight DEF Holding
<1>5. QED
    BY <1>1, <1>2, <1>4, JobStep

LEMMA KillRight ==
    ASSUME NodeInv, NEW j \in Jobs, Kill(j) PROVE ProcsInv'
<1> DEFINE p == job[j].pid
<1>1. /\ pc[j] = "kill" /\ UNCHANGED <<crashes, overlapped>>
      /\ proc' = IF p \in Live THEN Killed(p) ELSE proc
      /\ Step(j) /\ ~ Spawn(j) /\ ~ RemoveRow(j) /\ ~ ListInstances(j)
      /\ pidfile' = [pidfile EXCEPT ![job[j].at] = 0]
    BY DEF Kill, At, historyVars, Step, Spawn, RemoveRow, ListInstances
<1>2. JobRight(j)'
    BY JobFails, MindsNothing DEF NodeInv, Kill, Nowhere
<1>3. p \in Live' => proc'[p].signal = "SIGKILL"
    <2>1. CASE p \in Live
        <3>1. p \in Pids /\ proc \in [Pids -> Procs]
            BY <2>1 DEF Live, NodeInv, ProcsInv, ProcsTyped
        <3>2. QED
            BY <1>1, <2>1, <3>1 DEF Killed, Procs
    <2>2. CASE p \notin Live
        BY <1>1, <2>2 DEF Live
    <2>3. QED
        BY <2>1, <2>2
<1>4. \E i \in Instances : Forgets(i)
    BY <1>1, <1>3, StepsShrink, ForgetsRight DEF Holding
<1>5. QED
    BY <1>1, <1>2, <1>4, JobStep

\* What a stop leaves behind, when nothing of the instance counts.
LEMMA StoppedRight ==
    ASSUME NodeInv, NEW j \in Jobs, Stopped(j), pc[j] \notin Nowhere,
           NEW i, i = job[j].at, Known(i) => Counted(i)' = {},
           UNCHANGED <<crashes, overlapped>>
    PROVE  JobRight(j)'
<1>1. /\ pc'[j] \in {"idle", "start", "remove"}
      /\ pc'[j] = "remove" => job'[j].at = i
    BY JobStopped DEF NodeInv
<1>2. CASE pc'[j] = "remove"
    BY <1>1, <1>2 DEF JobRight, Holding, Known
<1>3. CASE pc'[j] # "remove"
    BY <1>1, <1>3, MindsNothing DEF Nowhere
<1>4. QED
    BY <1>2, <1>3

LEMMA StopNothingRight ==
    ASSUME NodeInv, NEW j \in Jobs, StopNothing(j) PROVE ProcsInv'
<1>1. PICK i \in Instances : i = job[j].at
    BY DEF NodeInv, JobsInv, Placed, StopNothing, At, Nowhere
<1>2. /\ pc[j] = "stop" /\ FindRunning(i) = {} /\ Stopped(j)
      /\ UNCHANGED <<proc, pidfile, crashes, overlapped>>
      /\ Step(j) /\ ~ Spawn(j) /\ ~ RemoveRow(j) /\ ~ ListInstances(j)
    BY <1>1 DEF StopNothing, At, processVars, historyVars, Step, Spawn, RemoveRow,
                ListInstances
<1>3. Known(i) => Counted(i) = {}
    BY <1>1, <1>2, NothingRuns
<1>4. Known(i) => Counted(i)' = {}
    BY <1>2, <1>3 DEF Counted, LiveOf, Live
<1>5. JobRight(j)'
    BY <1>1, <1>2, <1>4, StoppedRight DEF Nowhere
<1>6. QED
    BY <1>2, <1>5, JobStep

\* Of an instance that no start is at, what a scan finds is all that counts.
LEMMA StopFindsRight ==
    ASSUME NodeInv, NEW j \in Jobs, StopFinds(j) PROVE ProcsInv'
<1>1. PICK i \in Instances : i = job[j].at
    BY DEF NodeInv, JobsInv, Placed, StopFinds, At, Nowhere
<1>2. /\ pc[j] = "stop" /\ UNCHANGED <<proc, pidfile, crashes, overlapped>>
      /\ Step(j) /\ ~ Spawn(j) /\ ~ RemoveRow(j) /\ ~ ListInstances(j)
    BY DEF StopFinds, At, processVars, historyVars, Step, Spawn, RemoveRow, ListInstances
<1>3. PICK p \in FindRunning(i) :
          \/ Goto(j, "signal") /\ job' = [job EXCEPT ![j].pid = p]
          \/ Fails(j)
    BY <1>1 DEF StopFinds
<1>4. /\ p \in Pids /\ p \in Live /\ proc[p].of = i
      /\ pidfile[i] = p \/ i \in Aliased
    BY AliasIs DEF FindRunning, Live, NodeInv
<1>5. ASSUME Known(i), NEW q \in Counted(i) PROVE q = p
    <2>1. /\ q \in Live /\ q \in Pids /\ proc[q].of = i
          /\ i \in Aliased \/ proc[q].signal # "SIGKILL"
        BY <1>5 DEF Counted, LiveOf, Live
    <2>2. CASE i \in Aliased
        <3>1. p \in Counted(i)
            BY <1>4, <2>2 DEF Counted, LiveOf
        <3>2. QED
            BY <1>5, <3>1 DEF NodeInv, ProcsInv, Single
    <2>3. CASE i \notin Aliased /\ Written(q)
        BY <1>4, <1>5, <2>1, <2>3 DEF NodeInv, ProcsInv, Traced, Found
    <2>4. CASE ~ Written(q)
        <3>1. PICK k \in Jobs : pc[k] = "write" /\ job[k].pid = q
            BY <2>4 DEF Written
        <3>2. Owned(q, job[k].at)
            BY <3>1 DEF NodeInv, ProcsInv, JobRight, Holding, Minding
        <3>3. job[k].at = i /\ k # j
            BY <1>2, <2>1, <3>1, <3>2 DEF Owned, Live
        <3>4. job[k].op \in Starting /\ job[j].op \notin Signalling
            BY <1>2, <3>1 DEF NodeInv, JobsInv, Fits, Nowhere
        <3>5. QED
            BY <1>1, <1>5, <3>3, <3>4
            DEF NodeInv, JobsInv, Apart, Scope, Conflict, Known
    <2>5. QED
        BY <2>2, <2>3, <2>4
<1>6. Minding(i, p)
    BY <1>4, <1>5 DEF Minding, Owned
<1>7. JobRight(j)'
    <2>1. CASE Goto(j, "signal") /\ job' = [job EXCEPT ![j].pid = p]
        <3>1. pc'[j] = "signal" /\ job'[j].at = i /\ job'[j].pid = p
            BY <1>1, <1>2, <1>4, <2>1, JobFinds DEF NodeInv, At
        <3>2. Minding(i, p)'
            BY <1>2, <1>6 DEF Minding, Owned, Known, Counted, LiveOf, Live
        <3>3. QED
            BY <3>1, <3>2 DEF JobRight
    <2>2. CASE Fails(j)
        BY <2>2, JobFails, MindsNothing DEF NodeInv, Nowhere
    <2>3. QED
        BY <1>3, <2>1, <2>2
<1>8. QED
    BY <1>2, <1>7, JobStep

\* The process in mind has exited: its files go, and the operation goes on.
LEMMA ExitRight ==
    ASSUME NodeInv, NEW j \in Jobs, pc[j] \in {"signal", "exit"},
           job[j].pid \notin Live, UNCHANGED <<proc, crashes, overlapped>>,
           Step(j), ~ Spawn(j), ~ RemoveRow(j), ~ ListInstances(j),
           pidfile' = [pidfile EXCEPT ![job[j].at] = 0], Stopped(j)
    PROVE  ProcsInv'
<1>1. Shrinks /\ job[j].pid \notin Live' /\ pc[j] \in Holding /\ pc[j] \notin Nowhere
    BY SameProcesses DEF Live, Holding, Nowhere
<1>2. PICK i \in Instances : i = job[j].at /\ Forgets(i)
    BY <1>1, ForgetsRight
<1>3. Known(i) => Counted(i)' = {}
    <2>1. Minding(i, job[j].pid)
        BY <1>1, <1>2 DEF NodeInv, ProcsInv, JobRight
    <2>2. Counted(i)' = Counted(i) /\ Counted(i) \subseteq Live
        BY DEF Counted, LiveOf, Live
    <2>3. QED
        BY <2>1, <2>2 DEF Minding
<1>4. JobRight(j)'
    BY <1>1, <1>2, <1>3, StoppedRight
<1>5. QED
    BY <1>1, <1>2, <1>4, JobStep

LEMMA StopSignalsRight ==
    ASSUME NodeInv, NEW j \in Jobs, StopSignals(j) \/ StopEnds(j) PROVE ProcsInv'
<1>1. /\ pc[j] \in {"signal", "exit"} /\ UNCHANGED <<proc, crashes, overlapped>>
      /\ Step(j) /\ ~ Spawn(j) /\ ~ RemoveRow(j) /\ ~ ListInstances(j)
    BY DEF StopSignals, StopEnds, At, historyVars, Step, Spawn, RemoveRow, ListInstances
<1>2. CASE job[j].pid \notin Live
    BY <1>1, <1>2, ExitRight DEF StopSignals, StopEnds
<1>3. CASE job[j].pid \in Live
    <2>1. Goto(j, "exit") /\ UNCHANGED <<job, pidfile>> /\ pc[j] = "signal"
        BY <1>3 DEF StopSignals, StopEnds, At
    <2>2. pc'[j] = "exit" /\ job'[j] = job[j]
        BY <2>1 DEF Goto, NodeInv, JobsInv, JobsTyped
    <2>3. Minding(job[j].at, job[j].pid)
        BY <2>1 DEF NodeInv, ProcsInv, JobRight, Holding
    <2>4. Minding(job[j].at, job[j].pid)'
        BY <1>1, <2>2, <2>3 DEF Minding, Owned, Known, Counted, LiveOf, Live
    <2>5. JobRight(j)'
        BY <2>2, <2>4 DEF JobRight
    <2>6. QED
        BY <1>1, <2>1, <2>5, JobStep
<1>4. QED
    BY <1>2, <1>3

\* What the engines do, and the edits, leaves every operation where it is.
LEMMA OthersRight ==
    ASSUME NodeInv, RowsGrow, Shrinks, UNCHANGED <<pidfile, jobVars, crashes, overlapped>>
    PROVE  ProcsInv'
<1>1. \A k \in Jobs : Stays(k)
    BY DEF Stays, jobVars
<1>2. QED
    BY <1>1, StepsRemember, QuietStep

LEMMA ComesRight ==
    ASSUME NodeInv, NEW j \in Jobs, Forgiven, Moves(j), pc[j] # "write",
           pc'[j] \in Nowhere \cup {"start", "stop", "pause"},
           UNCHANGED <<instances, proc, pidfile, crashes>>
    PROVE  ProcsInv'
<1>1. RowsGrow /\ Shrinks
    BY RowsStay, SameProcesses DEF NodeInv
<1>2. JobRight(j)' /\ \A k \in Jobs \ {j} : Stays(k)
    BY MindsNothing DEF Moves, Stays
<1>3. Remembers
    BY DEF Remembers, Known, Forgiven, Scope
<1>4. QED
    BY <1>1, <1>2, <1>3, QuietStep

-----------------------------------------------------------------------------
(* The steps that are more: a process is started, its file is written, a    *)
(* row goes, and the manager crashes.                                       *)

\* A start that has a process to come, or to mind, is the only operation at its
\* instance that minds any.
LEMMA StartsApart ==
    ASSUME NodeInv, NEW j \in Jobs, NEW k \in Jobs, j # k,
           pc[j] \in {"spawn", "write"},
           pc[k] \in Holding \cup {"spawn", "remove"}, Known(job[k].at)
    PROVE  job[k].at # job[j].at
<1>1. pc[j] \notin Nowhere /\ pc[k] \notin Nowhere \cup {"pause"}
    BY DEF Holding, Nowhere
<1>2. /\ job[j].op \in Starting /\ job[k].op \notin Signalling
      /\ job[k].at \in Instances
    BY <1>1 DEF NodeInv, JobsInv, Fits, Placed
<1>3. QED
    BY <1>2 DEF NodeInv, JobsInv, Apart, Scope, Conflict, Known

\* A new process, which only the job that spawned it knows of.
LEMMA SpawnMakes ==
    ASSUME NodeInv, NEW j \in Jobs, Spawn(j)
    PROVE  \E p \in Pids, i \in Instances :
              /\ i = job[j].at /\ pc[j] = "spawn" /\ proc[p] = NotSpawned
              /\ Moves(j) /\ pc'[j] = "write" /\ job'[j].at = i /\ job'[j].pid = p
              /\ proc' \in [Pids -> Procs] /\ proc'[p].of = i /\ p \in Live'
              /\ proc'[p].signal = "none"
              /\ \A q \in Pids \ {p} : proc'[q] = proc[q]
<1>1. PICK i \in Instances : i = job[j].at
    BY DEF NodeInv, JobsInv, Placed, Spawn, At, Nowhere
<1>2. PICK p \in Pids :
          /\ proc[p] = NotSpawned
          /\ proc' = [proc EXCEPT ![p] =
                [of |-> job[j].at, port |-> job[j].port,
                 does |-> "loads", signal |-> "none"]]
          /\ job' = [job EXCEPT ![j].pid = p, ![j].port = 0]
    BY DEF Spawn
<1>3. /\ Moves(j) /\ pc'[j] = "write" /\ job'[j].at = i /\ job'[j].pid = p
    BY <1>1, <1>2, JobSpawns DEF Spawn, NodeInv
<1> DEFINE new == [of |-> i, port |-> job[j].port, does |-> "loads", signal |-> "none"]
<1>4. /\ new \in Procs /\ new # Dead /\ new # NotSpawned /\ new.of = i
      /\ new.signal = "none"
    <2>1. job[j].port \in Nat
        BY DEF NodeInv, JobsInv, JobsTyped, JobRecords
    <2>2. new.does # Dead.does /\ new.does # NotSpawned.does /\ new.of = i
          /\ new.signal = "none"
        BY DEF Dead, NotSpawned, Nobody
    <2>3. new \in Procs
        BY <2>1 DEF Procs
    <2> HIDE DEF new
    <2>4. QED
        BY <2>2, <2>3
<1>5. proc' = [proc EXCEPT ![p] = new]
    BY <1>1, <1>2
<1> HIDE DEF new
<1>6. /\ proc' \in [Pids -> Procs] /\ proc'[p] = new
      /\ \A q \in Pids \ {p} : proc'[q] = proc[q]
    BY <1>4, <1>5 DEF NodeInv, ProcsInv, ProcsTyped
<1>7. p \in Live'
    BY <1>4, <1>6 DEF Live, Dead, NotSpawned
<1>8. QED
    BY <1>1, <1>2, <1>3, <1>4, <1>6, <1>7 DEF Spawn, At

LEMMA SpawnRight ==
    ASSUME NodeInv, NEW j \in Jobs, Spawn(j) PROVE ProcsInv' /\ Alone'
<1>t. ProcsTyped /\ FilesRight /\ Traced /\ Single /\ Alone /\ RowsGrow
    BY StepsGrow DEF NodeInv, ProcsInv, Step, Spawn, At, RemoveRow
<1>1. PICK p \in Pids, i \in Instances :
          /\ i = job[j].at /\ pc[j] = "spawn" /\ proc[p] = NotSpawned
          /\ Moves(j) /\ pc'[j] = "write" /\ job'[j].at = i /\ job'[j].pid = p
          /\ proc' \in [Pids -> Procs] /\ proc'[p].of = i /\ p \in Live'
          /\ proc'[p].signal = "none"
          /\ \A q \in Pids \ {p} : proc'[q] = proc[q]
    BY SpawnMakes
<1>2. UNCHANGED <<pidfile, crashes, historyVars>>
    BY DEF Spawn
<1>3. p \notin Live /\ \A h \in Instances : ~ Owned(p, h)
    <2>1. NotSpawned.does # Dead.does /\ NotSpawned.of = ""
        BY DEF NotSpawned, Dead, Nobody
    <2>2. QED
        BY <1>1, <2>1, RegistryAssumption DEF Live, Owned
<1>4. \A q \in Pids, h \in Instances : Owned(q, h) => q # p /\ Owned(q, h)'
    BY <1>1, <1>3 DEF Owned
<1>5. /\ \A q \in Pids : q \in Live' <=> q \in Live \/ q = p
      /\ \A q \in Live : q \in Pids /\ q # p /\ proc'[q] = proc[q]
    BY <1>1, <1>3 DEF Live
<1>6. /\ LiveOf(i)' = LiveOf(i) \cup {p}
      /\ \A h \in Instances \ {i} : LiveOf(h)' = LiveOf(h)
    <2>1. Live' \subseteq Pids
        BY DEF Live
    <2>2. QED
        BY <1>1, <1>5, <2>1 DEF LiveOf
<1>7. /\ Counted(i)' = Counted(i) \cup {p}
      /\ \A h \in Instances \ {i} : Counted(h)' = Counted(h)
    <2>1. \A h : LiveOf(h) \subseteq Live
        BY DEF LiveOf
    <2>2. QED
        BY <1>1, <1>5, <1>6, <2>1 DEF Counted
<1>8. Known(i) => Counted(i) = {} /\ i \in Registered
    BY <1>1 DEF NodeInv, ProcsInv, JobRight
<1>9. \A h : Known(h)' <=> Known(h)
    BY <1>2 DEF Known, historyVars
<1>10. ProcsTyped'
    <2>1. \A q \in Live' : proc'[q].of \in Instances
        BY <1>t, <1>1, <1>5 DEF ProcsTyped, Live
    <2>2. QED
        BY <1>t, <1>1, <1>2, <2>1 DEF ProcsTyped
<1>11. FilesRight'
    <2> SUFFICES ASSUME NEW h \in Instances, pidfile[h] # 0 PROVE Owned(pidfile[h], h)'
        BY <1>2 DEF FilesRight
    <2>1. pidfile[h] \in Pids /\ Owned(pidfile[h], h)
        BY <1>t DEF ProcsTyped, FilesRight
    <2>2. QED
        BY <1>2, <1>4, <2>1 DEF Owned
<1>12. JobRight(j)'
    <2>1. Minding(i, p)'
        BY <1>1, <1>7, <1>8, <1>9 DEF Minding, Owned
    <2>2. Known(i)' => i \in Registered'
        BY <1>t, <1>8, <1>9 DEF RowsGrow
    <2>3. QED
        BY <1>1, <2>1, <2>2 DEF JobRight
<1>13. ASSUME NEW k \in Jobs \ {j} PROVE JobRight(k)'
    <2>1. pc'[k] = pc[k] /\ job'[k] = job[k] /\ JobRight(k)
        BY <1>1 DEF Moves, NodeInv, ProcsInv
    <2>2. CASE pc[k] \in Holding \cup {"spawn", "remove"}
        <3>1. PICK h \in Instances : h = job[k].at
            BY <2>2 DEF NodeInv, JobsInv, Placed, Holding, Nowhere
        <3>2. Known(h) => h # i
            BY <1>1, <2>2, <3>1, StartsApart
        <3>3. pc[k] \in Holding => Minding(h, job[k].pid)'
            <4> SUFFICES ASSUME pc[k] \in Holding PROVE Minding(h, job[k].pid)'
                OBVIOUS
            <4>1. Minding(h, job[k].pid)
                BY <2>1, <3>1 DEF JobRight
            <4>2. Owned(job[k].pid, h)'
                BY <1>4, <2>1, <4>1 DEF Minding, Owned
            <4>3. Known(h)' => Counted(h)' \subseteq {job[k].pid}
                BY <1>7, <1>9, <3>2, <4>1 DEF Minding
            <4>4. QED
                BY <2>1, <4>1, <4>2, <4>3 DEF Minding
        <3>4. pc[k] \in {"spawn", "remove"} /\ Known(h)' => Counted(h)' = {}
            BY <1>7, <1>9, <2>1, <3>1, <3>2 DEF JobRight
        <3>5. pc[k] \in {"spawn", "write"} /\ Known(h)' => h \in Registered'
            BY <1>t, <1>9, <2>1, <3>1 DEF JobRight, RowsGrow
        <3>6. QED
            BY <2>1, <3>1, <3>3, <3>4, <3>5 DEF JobRight
    <2>3. CASE pc[k] \notin Holding \cup {"spawn", "remove"}
        BY <2>1, <2>3 DEF JobRight, Holding
    <2>4. QED
        BY <2>2, <2>3
<1>14. Single'
    BY <1>t, <1>7, <1>8, <1>9 DEF Single
<1>15. Traced'
    <2> SUFFICES ASSUME NEW q \in Live', Written(q)', Known(proc[q].of)',
                        proc'[q].signal # "SIGKILL"
                 PROVE  Found(q)'
        BY DEF Traced
    <2>1. q # p
        BY <1>1 DEF Written
    <2>2. q \in Pids /\ q \in Live /\ proc'[q] = proc[q]
        BY <1>1, <1>5, <2>1 DEF Live
    <2>3. Written(q)
        BY <1>1 DEF Written, Moves
    <2>4. Found(q)
        BY <1>t, <1>9, <2>2, <2>3 DEF Traced
    <2>5. QED
        BY <1>t, <1>2, <2>2, <2>4 DEF Found, RowsGrow
<1>16. Alone'
    <2> SUFFICES ASSUME NEW h \in Aliased \ doubled
                 PROVE  /\ \A q, r \in LiveOf(h)' : q = r
                        /\ \A k \in Spawning(h)' : LiveOf(h)' = {}
                        /\ \A k, l \in Spawning(h)' : k = l
        BY <1>2 DEF Alone, historyVars
    <2>1. Spawning(h)' = Spawning(h) \ {j} /\ h \in Instances
        BY <1>1, LifecycleAssumption DEF Spawning, Moves
    <2>2. CASE h = i
        <3>1. j \in Spawning(i)
            BY <1>1 DEF Spawning
        <3>2. LiveOf(i) = {} /\ Spawning(i) = {j}
            BY <1>t, <2>2, <3>1 DEF Alone
        <3>3. QED
            BY <1>6, <2>1, <2>2, <3>2
    <2>3. CASE h # i
        BY <1>t, <1>6, <2>1, <2>3 DEF Alone
    <2>4. QED
        BY <2>2, <2>3
<1>17. QED
    BY <1>10, <1>11, <1>12, <1>13, <1>14, <1>15, <1>16 DEF ProcsInv

LEMMA WriteRight ==
    ASSUME NodeInv, NEW j \in Jobs, WritePidFile(j) PROVE ProcsInv'
<1>t. ProcsTyped /\ FilesRight /\ Traced /\ Single
    BY DEF NodeInv, ProcsInv
<1>1. PICK i \in Instances : i = job[j].at
    BY DEF NodeInv, JobsInv, Placed, WritePidFile, At, Nowhere
<1> DEFINE p == job[j].pid
<1>2. /\ pc[j] = "write" /\ Goto(j, "wait")
      /\ pidfile' = [pidfile EXCEPT ![i] = p]
      /\ UNCHANGED <<instances, proc, job, crashes, overlapped>>
    BY <1>1 DEF WritePidFile, At, registryVars, historyVars
<1>3. /\ pc'[j] = "wait" /\ \A k \in Jobs \ {j} : pc'[k] = pc[k]
    BY <1>2 DEF Goto, NodeInv, JobsInv, JobsTyped
<1>4. Minding(i, p) /\ (Known(i) => i \in Registered)
    BY <1>1, <1>2 DEF NodeInv, ProcsInv, JobRight, Holding
<1>5. /\ pidfile' \in [Instances -> Pids \cup {0}] /\ pidfile'[i] = p
      /\ \A h \in Instances \ {i} : pidfile'[h] = pidfile[h]
    BY <1>t, <1>2, <1>4 DEF ProcsTyped, Minding
<1>6. /\ Live' = Live /\ (\A h : LiveOf(h)' = LiveOf(h))
      /\ (\A h : Counted(h)' = Counted(h))
      /\ (\A h : Known(h)' <=> Known(h))
      /\ (\A q, h : Owned(q, h)' <=> Owned(q, h))
    BY <1>2 DEF Live, LiveOf, Counted, Known, Owned
<1>7. ProcsTyped' /\ Single'
    BY <1>t, <1>2, <1>5, <1>6 DEF ProcsTyped, Single
<1>8. FilesRight'
    <2> SUFFICES ASSUME NEW h \in Instances, pidfile'[h] # 0 PROVE Owned(pidfile[h], h)'
        BY DEF FilesRight
    <2>1. Owned(pidfile'[h], h)
        BY <1>t, <1>4, <1>5 DEF FilesRight, Minding
    <2>2. QED
        BY <1>2, <2>1 DEF Owned
<1>9. ASSUME NEW k \in Jobs PROVE JobRight(k)'
    <2>1. JobRight(k) /\ job'[k] = job[k]
        BY <1>2 DEF NodeInv, ProcsInv
    <2>2. pc[k] \notin Holding => pc'[k] = pc[k]
        <3>1. CASE k = j
            BY <1>2, <3>1 DEF Holding
        <3>2. CASE k # j
            BY <1>3, <3>2
        <3>3. QED
            BY <3>1, <3>2
    <2>3. pc[k] \in Holding => Minding(job[k].at, job[k].pid)'
        BY <1>2, <2>1 DEF JobRight, Minding, Owned, Known, Counted, LiveOf, Live
    <2>4. pc[k] \notin Holding => JobRight(k)'
        BY <1>2, <2>1, <2>2
        DEF JobRight, Holding, Known, Counted, LiveOf, Live, Registered
    <2>5. pc[k] \in Holding => pc'[k] = pc[k] \/ pc'[k] = "wait"
        BY <1>3
    <2>6. pc'[k] = "write" /\ Known(job[k].at)' => job'[k].at \in Registered'
        BY <1>2, <1>3, <2>1 DEF JobRight, Known, Registered
    <2>7. QED
        BY <2>1, <2>2, <2>3, <2>4, <2>5, <2>6 DEF JobRight, Holding
<1>10. Traced'
    <2> SUFFICES ASSUME NEW q \in Live', Written(q)', Known(proc[q].of)',
                        proc[q].signal # "SIGKILL"
                 PROVE  Found(q)'
        BY <1>2 DEF Traced
    <2>1. q \in Live /\ Known(proc[q].of)
        BY <1>2, <1>6
    <2>2. CASE q = p
        <3>1. proc[q].of = i
            BY <1>4, <2>1, <2>2 DEF Minding, Owned, Live
        <3>2. QED
            BY <1>2, <1>4, <1>5, <2>1, <2>2, <3>1 DEF Found, Registered
    <2>3. CASE q # p
        <3>1. Written(q)
            BY <1>2, <1>3, <2>3 DEF Written
        <3>2. Found(q)
            BY <1>t, <2>1, <3>1 DEF Traced
        <3>3. proc[q].of # i
            BY <1>4, <2>1, <2>3 DEF Minding, Counted, LiveOf
        <3>4. pidfile'[proc[q].of] = pidfile[proc[q].of]
            BY <1>t, <1>5, <2>1, <3>3 DEF ProcsTyped
        <3>5. QED
            BY <1>2, <3>2, <3>4 DEF Found, Registered
    <2>4. QED
        BY <2>2, <2>3
<1>11. QED
    BY <1>7, <1>8, <1>9, <1>10 DEF ProcsInv

LEMMA RemoveRight ==
    ASSUME NodeInv, NEW j \in Jobs, RemoveRow(j) PROVE ProcsInv'
<1>t. ProcsTyped /\ FilesRight /\ Traced /\ Single
    BY DEF NodeInv, ProcsInv
<1>1. PICK i \in Instances : i = job[j].at
    BY DEF NodeInv, JobsInv, Placed, RemoveRow, At, Nowhere
<1>2. /\ pc[j] = "remove" /\ UNCHANGED <<proc, pidfile, crashes, overlapped>>
      /\ Registered' = Registered \ {i}
    BY <1>1, RemovalTakesOne DEF RemoveRow, At, processVars, historyVars, NodeInv
<1>3. Known(i) => Counted(i) = {}
    BY <1>1, <1>2 DEF NodeInv, ProcsInv, JobRight
<1>4. /\ pc'[j] \in {"idle", "archive", "stop"} /\ \A k \in Jobs \ {j} : Stays(k)
    BY <1>2, JobProceeds DEF RemoveRow, NodeInv, Moves, Stays
<1>5. /\ Live' = Live /\ (\A h : LiveOf(h)' = LiveOf(h))
      /\ (\A h : Counted(h)' = Counted(h))
      /\ (\A h : Known(h)' <=> Known(h))
      /\ (\A q, h : Owned(q, h)' <=> Owned(q, h))
    BY <1>2 DEF Live, LiveOf, Counted, Known, Owned
<1>6. ProcsTyped' /\ Single' /\ FilesRight'
    BY <1>t, <1>2, <1>5 DEF ProcsTyped, Single, FilesRight, Owned
<1>7. JobRight(j)'
    BY <1>4, MindsNothing DEF Nowhere
<1>8. ASSUME NEW k \in Jobs \ {j} PROVE JobRight(k)'
    <2>1. JobRight(k) /\ job'[k] = job[k] /\ pc'[k] = pc[k]
        BY <1>4 DEF NodeInv, ProcsInv, Stays
    <2>2. pc[k] \in Holding => Minding(job[k].at, job[k].pid)'
        BY <1>2, <2>1 DEF JobRight, Minding, Owned, Known, Counted, LiveOf, Live
    <2>3. pc[k] \in {"spawn", "remove"} /\ Known(job[k].at)' => Counted(job[k].at)' = {}
        BY <1>2, <2>1 DEF JobRight, Known, Counted, LiveOf, Live
    <2>4. ASSUME pc[k] \in {"spawn", "write"}, Known(job[k].at)'
          PROVE  job[k].at \in Registered'
        <3>1. Known(job[k].at)
            BY <1>2, <2>1, <2>4 DEF Known
        <3>2. job[k].at # i
            <4>1. "remove" \in Holding \cup {"spawn", "remove"}
                OBVIOUS
            <4>2. QED
                BY <1>1, <1>2, <2>4, <3>1, <4>1, StartsApart
        <3>3. QED
            BY <1>2, <2>1, <2>4, <3>1, <3>2 DEF JobRight
    <2>5. QED
        BY <2>1, <2>2, <2>3, <2>4 DEF JobRight
<1>9. Traced'
    <2> SUFFICES ASSUME NEW q \in Live', Written(q)', Known(proc[q].of)',
                        proc[q].signal # "SIGKILL"
                 PROVE  Found(q)'
        BY <1>2 DEF Traced
    <2>1. q \in Live /\ Known(proc[q].of)
        BY <1>2, <1>5
    <2>2. Written(q)
        BY <1>2, <1>4 DEF Written, Stays
    <2>3. Found(q)
        BY <1>t, <2>1, <2>2 DEF Traced
    <2>4. proc[q].of # i
        BY <1>3, <2>1 DEF Counted, LiveOf
    <2>5. QED
        BY <1>2, <2>3, <2>4 DEF Found
<1>10. QED
    BY <1>6, <1>7, <1>8, <1>9 DEF ProcsInv

\* After a crash the manager knows only the processes it can name.
LEMMA CrashRight == ASSUME NodeInv, ManagerCrashes PROVE ProcsInv'
<1>t. ProcsTyped /\ FilesRight /\ Traced /\ Single
    BY DEF NodeInv, ProcsInv
<1>1. /\ UNCHANGED <<instances, proc, pidfile, overlapped>>
      /\ crashes' = crashes + 1 /\ crashes \in Nat /\ crashes' # 0
    BY <1>t DEF ManagerCrashes, processVars, historyVars, ProcsTyped
<1>2. \A k \in Jobs : JobRight(k)'
    BY MindsNothing DEF ManagerCrashes, Nowhere
<1>3. \A h : Known(h)' => Known(h) /\ h \in Aliased
    BY <1>1 DEF Known
<1>4. /\ Live' = Live /\ (\A h : LiveOf(h)' = LiveOf(h)) /\ Registered' = Registered
      /\ (\A h : Counted(h)' = Counted(h))
      /\ (\A q, h : Owned(q, h)' <=> Owned(q, h))
    BY <1>1 DEF Live, LiveOf, Counted, Owned, Registered
<1>5. ProcsTyped' /\ Single' /\ FilesRight'
    BY <1>t, <1>1, <1>3, <1>4 DEF ProcsTyped, Single, FilesRight, Owned
<1>6. Traced'
    <2> SUFFICES ASSUME NEW q \in Live', Known(proc[q].of)', proc[q].signal # "SIGKILL"
                 PROVE Found(q)'
        BY <1>1 DEF Traced
    <2>1. q \in Live /\ proc[q].of \in Aliased /\ Known(proc[q].of)
        BY <1>1, <1>3, <1>4
    <2>2. proc[q].of \in Registered
        <3>1. CASE Written(q)
            BY <1>t, <2>1, <3>1 DEF Traced, Found
        <3>2. CASE ~ Written(q)
            <4>1. PICK k \in Jobs : pc[k] = "write" /\ job[k].pid = q
                BY <3>2 DEF Written
            <4>2. Owned(q, job[k].at)
                BY <4>1 DEF NodeInv, ProcsInv, JobRight, Minding, Holding
            <4>3. job[k].at = proc[q].of
                BY <2>1, <4>2 DEF Owned, Live
            <4>4. QED
                BY <2>1, <4>1, <4>3 DEF NodeInv, ProcsInv, JobRight
        <3>3. QED
            BY <3>1, <3>2
    <2>3. QED
        BY <1>1, <1>4, <2>1, <2>2 DEF Found
<1>7. QED
    BY <1>2, <1>5, <1>6 DEF ProcsInv

-----------------------------------------------------------------------------
(* Starts, whatever they overlap with.                                      *)

\* A start that finds nothing running is the only one to spawn, or it makes two.
LEMMA StartsAlone ==
    ASSUME NodeInv, NEW j \in Jobs, StartBegins(j) PROVE Alone'
<1>0. PICK i \in Instances : i = job[j].at
    BY DEF StartBegins, Registered
<1>1. /\ pc[j] = "start" /\ FindRunning(i) = {} /\ UNCHANGED proc
      /\ doubled' = IF \E k \in Jobs : pc[k] = "spawn" /\ job[k].at = i
                    THEN doubled \cup {i} ELSE doubled \ {i}
    BY <1>0 DEF StartBegins, At, processVars
<1>2. Moves(j) /\ pc'[j] = "spawn" /\ job'[j].at = i
    BY <1>0, JobStarts DEF NodeInv
<1>3. i \in Aliased => LiveOf(i) = {}
    BY <1>0, <1>1, NothingRuns
<1>4. \A h : LiveOf(h)' = LiveOf(h)
    BY <1>1 DEF LiveOf, Live
<1> SUFFICES ASSUME NEW h \in Aliased \ doubled'
             PROVE  /\ \A q, r \in LiveOf(h)' : q = r
                    /\ \A k \in Spawning(h)' : LiveOf(h)' = {}
                    /\ \A k, l \in Spawning(h)' : k = l
    BY DEF Alone
<1>5. CASE h = i
    <2>1. Spawning(i) = {}
        BY <1>1, <1>5 DEF Spawning
    <2>2. Spawning(i)' = {j}
        BY <1>2, <2>1 DEF Spawning, Moves
    <2>3. QED
        BY <1>3, <1>4, <1>5, <2>2
<1>6. CASE h # i
    <2>1. h \notin doubled
        BY <1>1, <1>6
    <2>2. Spawning(h)' = Spawning(h)
        BY <1>1, <1>2, <1>6 DEF Spawning, Moves
    <2>3. QED
        BY <1>4, <2>1, <2>2 DEF NodeInv, Alone
<1>7. QED
    BY <1>5, <1>6

\* Any other step brings no process and no start to the point of spawning one.
LEMMA StaysAlone ==
    ASSUME NodeInv, Shrinks, UNCHANGED doubled,
           \A k \in Jobs : pc'[k] = "spawn" => Stays(k)
    PROVE  Alone'
<1>1. \A i : Spawning(i)' \subseteq Spawning(i)
    BY DEF Spawning, Stays
<1>2. \A i : LiveOf(i)' \subseteq LiveOf(i)
    BY ShrinkingKeeps
<1>3. \A i \in Aliased \ doubled :
          /\ \A p, q \in LiveOf(i) : p = q
          /\ \A j \in Spawning(i) : LiveOf(i) = {}
          /\ \A j, k \in Spawning(i) : j = k
    BY DEF NodeInv, Alone
<1>4. QED
    BY <1>1, <1>2, <1>3 DEF Alone

LEMMA StepsAlone ==
    ASSUME NodeInv, NEW j \in Jobs, Step(j), ~ Spawn(j) PROVE Alone'
<1>1. CASE StartBegins(j)
    BY <1>1, StartsAlone
<1>2. CASE ~ StartBegins(j)
    <2>1. UNCHANGED doubled
        BY <1>2 DEF Step, historyVars, StartRefused, SpawnFails, WritePidFile, SeesExit,
           SeesHealth, TimesOut, Ready, NotReady, Look, Kill, StopNothing, StopFinds,
           StopSignals, StopEnds, StopStuck, RemoveRow, RowIsGone, PauseOrResume,
           ListInstances, Archive
    <2>2. Moves(j) /\ pc'[j] # "spawn"
        BY <1>2, JobSteps, JobLists DEF NodeInv
    <2>3. \A k \in Jobs : pc'[k] = "spawn" => Stays(k)
        BY <2>2 DEF Moves, Stays
    <2>4. QED
        BY <2>1, <2>3, StepsShrink, StaysAlone
<1>3. QED
    BY <1>1, <1>2

-----------------------------------------------------------------------------
LEMMA NodeInit == Init => NodeInv
<1> SUFFICES ASSUME Init PROVE NodeInv
    OBVIOUS
<1>1. Modelled
    <2>1. PICK port \in Ports : instances =
              [i \in Instances |-> IF i \in Models THEN Row(i, port) ELSE NoRow]
        BY DEF Init
    <2>2. QED
        BY <2>1 DEF Modelled, Registered, Row
<1>2. Live = {}
    BY DEF Init, Live
<1>3. ProcsTyped
    <2>1. NotSpawned \in Procs
        BY DEF NotSpawned, Nobody, Procs
    <2>2. QED
        BY <1>2, <2>1 DEF Init, ProcsTyped
<1>4. FilesRight /\ Single /\ Traced /\ Alone /\ \A j \in Jobs : JobRight(j)
    BY <1>2 DEF Init, FilesRight, Single, Traced, Alone, Spawning, Counted, LiveOf,
                JobRight, Holding
<1>5. QED
    BY <1>1, <1>3, <1>4, RegistryInit, JobsInit DEF NodeInv, ProcsInv

LEMMA NodeNext == ASSUME NodeInv, [Next]_vars PROVE NodeInv'
<1>1. RegistryInv' /\ JobsInv'
    BY RegistryStep, JobsNext DEF NodeInv
<1>2. ASSUME NEW j \in Jobs, Operate(j) PROVE Modelled' /\ ProcsInv' /\ Alone'
    <2>1. /\ Forgiven /\ Moves(j) /\ pc[j] = "idle"
          /\ pc'[j] \in {"start", "stop", "pause", "list"}
        BY <1>2, JobBegins DEF NodeInv
    <2>2. UNCHANGED <<instances, proc, pidfile, crashes, doubled>>
        BY <1>2 DEF Operate, Begin, BeginRetire, registryVars, processVars, historyVars
    <2>3. Modelled' /\ Shrinks
        BY <2>2, RowsStay, SameProcesses DEF NodeInv, RowsGrow
    <2>4. \A k \in Jobs : pc'[k] = "spawn" => Stays(k)
        BY <2>1 DEF Moves, Stays
    <2>5. QED
        BY <2>1, <2>2, <2>3, <2>4, ComesRight, StaysAlone DEF Nowhere
<1>3. ASSUME NEW j \in Jobs, Step(j) PROVE Modelled' /\ ProcsInv' /\ Alone'
    <2>1. CASE RemoveRow(j)
        <3>1. ~ Spawn(j)
            BY <2>1 DEF RemoveRow, Spawn, At
        <3>2. QED
            BY <1>3, <2>1, <3>1, RemoveRight, RemovalTakesOne, StepsAlone DEF NodeInv
    <2>2. CASE Spawn(j)
        <3>1. ~ RemoveRow(j)
            BY <2>2 DEF RemoveRow, Spawn, At
        <3>2. QED
            BY <1>3, <2>2, <3>1, SpawnRight, StepsGrow DEF NodeInv, RowsGrow
    <2>3. CASE ListInstances(j)
        <3>1. /\ Forgiven /\ Moves(j) /\ pc[j] = "list" /\ pc'[j] \in {"stop", "archive"}
            BY <2>3, JobLists DEF NodeInv
        <3>2. UNCHANGED <<instances, proc, pidfile, crashes>>
            BY <2>3 DEF ListInstances, registryVars, processVars
        <3>3. ~ Spawn(j) /\ Modelled'
            BY <2>3, <3>2, RowsStay DEF ListInstances, Spawn, At, NodeInv, RowsGrow
        <3>4. QED
            BY <1>3, <3>1, <3>2, <3>3, ComesRight, StepsAlone DEF Nowhere
    <2>4. CASE ~ RemoveRow(j) /\ ~ Spawn(j) /\ ~ ListInstances(j)
        <3>1. Modelled' /\ Alone'
            BY <1>3, <2>4, StepsGrow, StepsAlone DEF NodeInv, RowsGrow
        <3>2. ProcsInv'
            BY <1>3, <2>4, StepsAway, StartsRight, WaitsRight, SeesExitRight, KillRight,
               StopNothingRight, StopFindsRight, StopSignalsRight, WriteRight DEF Step
        <3>3. QED
            BY <3>1, <3>2
    <2>5. QED
        BY <2>1, <2>2, <2>3, <2>4
<1>4. ASSUME NEW p \in Pids, Bind(p) \/ Exits(p) PROVE Modelled' /\ ProcsInv' /\ Alone'
    <2>1. UNCHANGED <<instances, pidfile, jobVars, crashes, overlapped, doubled>>
        BY <1>4 DEF Bind, Exits, registryVars, historyVars
    <2>2. RowsGrow /\ Shrinks
        BY <1>4, <2>1, RowsStay, EnginesShrink DEF NodeInv
    <2>3. \A k \in Jobs : Stays(k)
        BY <2>1 DEF Stays, jobVars
    <2>4. QED
        BY <2>1, <2>2, <2>3, OthersRight, StaysAlone DEF RowsGrow
<1>5. ASSUME EditRegistry PROVE Modelled' /\ ProcsInv' /\ Alone'
    <2>1. UNCHANGED <<proc, pidfile, jobVars, crashes, overlapped, doubled>>
        BY <1>5 DEF EditRegistry, processVars, historyVars
    <2>2. RowsGrow /\ Shrinks
        BY <1>5, <2>1, EditsGrow, SameProcesses DEF NodeInv
    <2>3. \A k \in Jobs : Stays(k)
        BY <2>1 DEF Stays, jobVars
    <2>4. QED
        BY <2>1, <2>2, <2>3, OthersRight, StaysAlone DEF RowsGrow
<1>6. ASSUME ManagerCrashes PROVE Modelled' /\ ProcsInv' /\ Alone'
    <2>1. UNCHANGED <<instances, proc, doubled>> /\ \A k \in Jobs : pc'[k] # "spawn"
        BY <1>6 DEF ManagerCrashes, processVars, historyVars
    <2>2. QED
        BY <1>6, <2>1, CrashRight, RowsStay, SameProcesses, StaysAlone DEF NodeInv, RowsGrow
<1>7. ASSUME UNCHANGED vars PROVE Modelled' /\ ProcsInv' /\ Alone'
    <2>1. UNCHANGED <<instances, proc, pidfile, jobVars, crashes, overlapped, doubled>>
        BY <1>7 DEF vars, registryVars, processVars, historyVars
    <2>2. RowsGrow /\ Shrinks
        BY <2>1, RowsStay, SameProcesses DEF NodeInv
    <2>3. \A k \in Jobs : Stays(k)
        BY <2>1 DEF Stays, jobVars
    <2>4. QED
        BY <2>1, <2>2, <2>3, OthersRight, StaysAlone DEF RowsGrow
<1>8. QED
    BY <1>1, <1>2, <1>3, <1>4, <1>5, <1>6, <1>7 DEF Next, NodeInv

\* An instance whose engine names it on its command line has two processes only
\* once two starts of it had both found nothing running, whatever operations
\* overlap on it and whatever edits, exits and crashes come between
\* (_find_running in lifecycle.py).
THEOREM OneProcessEach == Spec => []OneProcess
<1>1. NodeInv /\ [Next]_vars => NodeInv'
    BY NodeNext
<1>2. NodeInv => OneProcess
    BY NodeIsRight
<1>3. QED
    BY <1>1, <1>2, NodeInit, PTL DEF Spec

\* ... and every process can be found by a scan under the name of an instance
\* that is registered, but one that has been killed, one that a crash made the
\* manager lose, and those of an instance on which a start and another operation
\* overlapped.
THEOREM ProcessesAreAccounted == Spec => []Accounted
<1>1. NodeInv /\ [Next]_vars => NodeInv'
    BY NodeNext
<1>2. NodeInv => Accounted
    BY NodeIsRight
<1>3. QED
    BY <1>1, <1>2, NodeInit, PTL DEF Spec
=============================================================================
