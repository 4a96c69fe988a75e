---------------------------- MODULE ModelRegistry ----------------------------
(***************************************************************************)
(* A node's registry of models and instances (registry.py), as the one     *)
(* manager process edits it through its API (control.py): catalogue rows   *)
(* that own a slug and are archived rather than deleted, and instance rows *)
(* that refer to them. A write of the SQLite file and _load, which rebuilds *)
(* the cached rows, are one section of the lock. A handler that checks      *)
(* before it writes does so in a section before that; the handlers run on  *)
(* the event loop and do not await, so no other comes between, but the      *)
(* worker threads of the lifecycle do.                                     *)
(***************************************************************************)
EXTENDS Integers, Sequences, FiniteSets

CONSTANTS
    Models,     \* ids of catalogue rows
    Slugs,      \* public names a model may be given
    Instances,  \* ids of instance rows: a model's first one has its own id
    Replicas,   \* per model: the ids next_instance_id tries, in order
    Ports,      \* ports an operator may ask for
    MaxEdits    \* bound: edits through the API

ASSUME RegistryAssumption ==
    /\ Models \subseteq Instances /\ Models \subseteq Slugs
    /\ "" \notin Instances     \* _ID_RE
    /\ Replicas \in [Models -> Seq(Instances)]
    /\ Ports \subseteq Nat
    /\ MaxEdits \in Nat

VARIABLES
    models,     \* the models table: per id its slug and status
    instances,  \* the instances table: per id its model and port
    edit,       \* what the handler at work has checked and has yet to write
    edits,      \* edits so far
    overtaken   \* history: models archived while an instance was registered

registryVars == <<models, instances, edit, edits, overtaken>>

Catalogued == {"none", "live", "archived"}
NoModel == [slug |-> "", status |-> "none"]

Row(m, port) == [model |-> m, port |-> port]
NoRow == Row("", 0)

\* A handler's checks have passed, and its write is still to come.
Pending(writes, m, slug, i, port) ==
    [writes |-> writes, model |-> m, slug |-> slug, at |-> i, port |-> port]
NoEdit == Pending("nothing", "", "", "", 0)

RegistryTypeOK ==
    /\ models \in [Models -> [slug : Slugs \cup {""}, status : Catalogued]]
    /\ \A i \in Instances :
          \/ instances[i] = NoRow
          \/ /\ instances[i].model \in Models
             /\ instances[i].port \in Nat
    /\ \/ edit = NoEdit
       \/ /\ edit.writes \in {"catalog", "both", "instance", "slug"}
          /\ edit.model \in Models
    /\ overtaken \subseteq Models
    /\ edits \in 0 .. MaxEdits

-----------------------------------------------------------------------------
(* What the operations read. *)

Catalog == {m \in Models : models[m].status = "live"}
Archived == {m \in Models : models[m].status = "archived"}
Registered == {i \in Instances : instances[i] # NoRow}
InstancesOf(m) == {i \in Registered : instances[i].model = m}

\* Fault: the names of archived models are given out again.
SlugFreeAmongLive(slug, owner) ==
    \A m \in Catalog \ {owner} : models[m].slug # slug

SlugFree(slug, owner) ==
    \A m \in (Catalog \cup Archived) \ {owner} : models[m].slug # slug

IdFree(m) == m \notin Archived

\* The id of the next replica, of those no instance has.
NextInstanceId(m) ==
    LET free == {n \in DOMAIN Replicas[m] : Replicas[m][n] \notin Registered}
    IN  {Replicas[m][n] : n \in {k \in free : \A l \in free : k <= l}}

\* Columns of an instance row, written by id: KeyError when there is none.
Update(i, row) ==
    instances' = [instances EXCEPT ![i] = row]

\* The event loop has no handler at work.
LoopIsFree == edit = NoEdit

Edit == LoopIsFree /\ edits < MaxEdits /\ edits' = edits + 1

-----------------------------------------------------------------------------
(* The operations that check and then write: what they check ...           *)

Checked(new) ==
    /\ Edit /\ edit' = new
    /\ UNCHANGED <<models, instances, overtaken>>

\* POST /v1/models and the download flow: a catalogue row, an upsert by id.
AddCatalog(m, slug) ==
    /\ IdFree(m) /\ SlugFree(slug, m)
    /\ Checked(Pending("catalog", m, slug, "", 0))

\* POST /v1/backends without a model: the catalogue row and an instance row
\* of the same id, both upserts.
Add(m, slug, port) ==
    /\ IdFree(m) /\ SlugFree(slug, m)
    /\ Checked(Pending("both", m, slug, m, port))

\* POST /v1/backends for a catalogued model. An id the caller gives is not
\* checked: INSERT OR REPLACE takes the row over from whoever had it.
AddInstance(m, i, port) ==
    /\ m \in Catalog
    /\ Checked(Pending("instance", m, "", i, port))

AddReplica(m, port) == \E i \in NextInstanceId(m) : AddInstance(m, i, port)

\* PATCH /v1/backends/{id}: the slug goes to the catalogue row, if it is live.
SetSlug(i, slug) ==
    /\ i \in Registered
    /\ instances[i].model \in Catalog
    /\ SlugFree(slug, instances[i].model)
    /\ Checked(Pending("slug", instances[i].model, slug, "", 0))

(* ... and what they write, without looking again. *)

\* INSERT OR REPLACE: the row is live, whatever it was.
WriteCatalog ==
    /\ edit.writes \in {"catalog", "both"}
    /\ models' = [models EXCEPT ![edit.model] =
                     [slug |-> edit.slug, status |-> "live"]]
    /\ IF edit.writes = "both"
       THEN Update(edit.at, Row(edit.model, edit.port))
       ELSE UNCHANGED instances

\* An instance row, of a model that may have been archived by now.
WriteInstance ==
    /\ edit.writes = "instance"
    /\ Update(edit.at, Row(edit.model, edit.port))
    /\ UNCHANGED models

WriteSlug ==
    /\ edit.writes = "slug"
    /\ models' = [models EXCEPT ![edit.model].slug = edit.slug]
    /\ UNCHANGED instances

WriteEdit ==
    /\ WriteCatalog \/ WriteInstance \/ WriteSlug
    /\ edit' = NoEdit
    /\ UNCHANGED <<edits, overtaken>>

-----------------------------------------------------------------------------
(* The operations of one section. *)

\* PATCH /v1/backends/{id}: the columns of the instance row; an operator's word
\* is not checked against any process.
PatchInstance(i, port) ==
    /\ Edit
    /\ i \in Registered
    /\ Update(i, Row(instances[i].model, port))
    /\ UNCHANGED <<models, edit, overtaken>>

\* POST /v1/models/{id}/restore.
RestoreCatalog(m) ==
    /\ Edit
    /\ m \in Archived
    /\ models' = [models EXCEPT ![m].status = "live"]
    /\ UNCHANGED <<instances, edit, overtaken>>

\* remove, for the lifecycle: an instance row only.
Remove(i) == Update(i, NoRow)

\* archive_catalog, for the lifecycle. RegistryIntegrityError when referenced;
\* an instance that is checked and not yet written is not seen.
ArchiveCatalog(m) ==
    /\ InstancesOf(m) = {}
    /\ models' = [models EXCEPT ![m].status = "archived"]
    /\ overtaken' = IF edit.writes = "instance" /\ edit.model = m
                    THEN overtaken \cup {m} ELSE overtaken \ {m}

EditInstance(i) ==
    \/ \E slug \in Slugs : SetSlug(i, slug)
    \/ \E port \in Ports : PatchInstance(i, port)
    \/ \E m \in Models, port \in Ports : AddInstance(m, i, port)

EditModel(m) ==
    \/ \E slug \in Slugs : AddCatalog(m, slug)
    \/ \E slug \in Slugs, port \in Ports : Add(m, slug, port)
    \/ \E port \in Ports : AddReplica(m, port)
    \/ RestoreCatalog(m)

-----------------------------------------------------------------------------
(* Properties. *)

\* _assert_slug_free: clients route on a slug and usage is billed against it,
\* so no two models have the same one, an archived model keeping its own.
SlugsUnique ==
    \A m, n \in Catalog \cup Archived :
        models[m].slug = models[n].slug => m = n

\* archive_catalog: a model that is archived has no instance, whatever order
\* instances are registered, started and removed in. One escapes: add_instance
\* looks the model up in one section of the lock and inserts in another, and
\* deregister_model, in its thread, may archive the model between the two.
RetiredHasNone == \A m \in Archived \ overtaken : InstancesOf(m) = {}

\* The registry's two rules, over every order of edits, starts and removals.
RegistrySound == SlugsUnique /\ RetiredHasNone
=============================================================================
