------------------------------- MODULE Catalogue -------------------------------
(***************************************************************************)
(* The procedure catalogue of a workspace: its process areas with the      *)
(* defaults every reader makes sure are there, the procedures inside them, *)
(* and the copy of a procedure a case takes when it is opened.             *)
(*                                                                         *)
(* Source: app/modules/catalog/service.py.  A workspace made before the    *)
(* catalogue has no indexes and may hold areas twice; each process         *)
(* remembers the workspaces it has seeded.  Names are values; what a       *)
(* procedure asks for is the number of times it was edited.                *)
(***************************************************************************)
EXTENDS Naturals, FiniteSets

CONSTANTS
  Keys, Defaults,   \* area keys, and those of DEFAULT_AREAS
  MaxRows,          \* bound: rows ever inserted in process_areas
  Names,            \* names of procedures
  Procedures,       \* ids of rows: they bound the inserts
  MaxEdits,         \* bound: edits of a procedure
  Cases,
  NoKey, Removed,   \* a row not inserted yet, and one that was deleted
  NoName, NoProcedure,
  Workers,          \* the server's processes
  Readers           \* the requests: each runs in a process

\* What the constants satisfy: assumed wherever the module is instantiated.
CatalogueAssumption ==
  /\ Defaults \subseteq Keys /\ {NoKey, Removed} \cap Keys = {} /\ NoKey # Removed
  /\ NoName \notin Names
  /\ NoProcedure \notin Procedures /\ MaxRows \in Nat /\ MaxEdits \in Nat

VARIABLES
  areas,      \* areas[n]: the key of the n-th row inserted
  hidden,     \* the rows switched off
  unique,     \* the unique index on the key of an area, and the one on procedures
  procedures, \* procedures[p]: its area, name, whether it is offered, its edits
  opened,     \* opened[k]: the procedure a case was opened on, and its edits then
  seeded,     \* the processes that have seeded this workspace
  reading     \* the requests in flight

cvars == <<areas, hidden, unique, procedures, opened, seeded, reading>>

Rows == 1..MaxRows
NoRow == [area |-> NoKey, name |-> NoName, active |-> FALSE, edits |-> 0]
ProcedureType == [area: Keys \cup {NoKey}, name: Names \cup {NoName}, active: BOOLEAN,
                  edits: 0..MaxEdits]
Pc == {"idle", "scan", "clear", "index", "upsert", "served", "pr_insert", "ar_insert"}
ReaderType == [pc: Pc, worker: Workers, drop: SUBSET Rows, todo: SUBSET Keys,
               key: Keys \cup {NoKey}, row: ProcedureType]

TypeOK ==
  /\ areas \in [Rows -> Keys \cup {NoKey, Removed}]
  /\ hidden \subseteq Rows
  /\ unique \in [areas: BOOLEAN, procedures: BOOLEAN]
  /\ procedures \in [Procedures -> ProcedureType]
  /\ opened \in [Cases -> [procedure: Procedures \cup {NoProcedure}, edits: 0..MaxEdits]]
  /\ seeded \subseteq Workers
  /\ reading \in [Readers -> ReaderType]

RowsOf(k) == {n \in Rows : areas[n] = k}
Free == {n \in Rows : areas[n] = NoKey}
Next1 == CHOOSE n \in Free : \A m \in Free : n <= m

\* A workspace provisioned with its indexes, or an older one where the first
\* version of the code has raced with itself.
Init ==
  /\ \/ /\ areas = [n \in Rows |-> NoKey]
        /\ unique \in [areas: BOOLEAN, procedures: BOOLEAN]
     \/ /\ \E k \in Defaults : areas = [n \in Rows |-> IF n <= 2 THEN k ELSE NoKey]
        /\ unique = [areas |-> FALSE, procedures |-> FALSE]
  /\ hidden = {}
  /\ procedures = [p \in Procedures |-> NoRow]
  /\ opened = [c \in Cases |-> [procedure |-> NoProcedure, edits |-> 0]]
  /\ seeded = {}
  /\ reading \in [Readers -> [pc: {"idle"}, worker: Workers, drop: {{}}, todo: {{}},
                             key: {NoKey}, row: {NoRow}]]

At(r, pc) == reading[r].pc = pc
Goto(r, pc) == reading' = [reading EXCEPT ![r].pc = pc]
End(r) == reading' = [reading EXCEPT ![r].pc = "idle", ![r].drop = {}, ![r].todo = {},
                                     ![r].key = NoKey, ![r].row = NoRow]

-----------------------------------------------------------------------------
\* ensure_defaults, on every read of the catalogue and every new procedure.
Ask(r) ==
  /\ At(r, "idle")
  /\ Goto(r, IF reading[r].worker \in seeded THEN "served" ELSE "scan")
  /\ UNCHANGED <<areas, hidden, unique, procedures, opened, seeded>>

Duplicates == {n \in Rows : areas[n] \in Keys /\ \E m \in RowsOf(areas[n]) : m < n}

Scan(r) ==
  /\ At(r, "scan")
  /\ reading' = [reading EXCEPT ![r].pc = "clear", ![r].drop = Duplicates]
  /\ UNCHANGED <<areas, hidden, unique, procedures, opened, seeded>>

Clear(r) ==
  /\ At(r, "clear")
  /\ areas' = [n \in Rows |-> IF n \in reading[r].drop THEN Removed ELSE areas[n]]
  /\ Goto(r, "index")
  /\ UNCHANGED <<hidden, unique, procedures, opened, seeded>>

\* A unique index cannot be built over duplicates: the request fails.
Index(r) ==
  /\ At(r, "index")
  /\ IF Duplicates = {} \/ unique.areas
     THEN /\ unique' = [areas |-> TRUE, procedures |-> TRUE]
          /\ reading' = [reading EXCEPT ![r].pc = "upsert", ![r].todo = Defaults]
     ELSE End(r) /\ UNCHANGED unique
  /\ UNCHANGED <<areas, hidden, procedures, opened, seeded>>

Upsert(r, k) ==
  /\ At(r, "upsert") /\ k \in reading[r].todo
  /\ RowsOf(k) = {} => Free # {}
  /\ areas' = IF RowsOf(k) = {} THEN [areas EXCEPT ![Next1] = k] ELSE areas
  /\ reading' = [reading EXCEPT ![r].todo = @ \ {k}]
  /\ UNCHANGED <<hidden, unique, procedures, opened, seeded>>

\* Mutant: the process is remembered as soon as it has begun.
MaySeedEarly(r) == At(r, "upsert")

MaySeed(r) == At(r, "upsert") /\ reading[r].todo = {}

Seeded(r) ==
  /\ MaySeed(r)
  /\ seeded' = seeded \cup {reading[r].worker}
  /\ Goto(r, "served")
  /\ UNCHANGED <<areas, hidden, unique, procedures, opened>>

Read(r) ==
  /\ At(r, "served")
  /\ End(r)
  /\ UNCHANGED <<areas, hidden, unique, procedures, opened, seeded>>

-----------------------------------------------------------------------------
\* create_area does not seed: the key is looked for, and inserted.
AreaStart(r, k) ==
  /\ At(r, "idle")
  /\ RowsOf(k) = {}
  /\ reading' = [reading EXCEPT ![r].pc = "ar_insert", ![r].key = k]
  /\ UNCHANGED <<areas, hidden, unique, procedures, opened, seeded>>

AreaInsert(r) ==
  /\ At(r, "ar_insert")
  /\ IF unique.areas /\ RowsOf(reading[r].key) # {}
     THEN UNCHANGED areas
     ELSE Free # {} /\ areas' = [areas EXCEPT ![Next1] = reading[r].key]
  /\ End(r)
  /\ UNCHANGED <<hidden, unique, procedures, opened, seeded>>

\* update_area: the procedures inside it are left as they are.
UpdateArea(n) ==
  /\ areas[n] \in Keys
  /\ hidden' \in {hidden \cup {n}, hidden \ {n}}
  /\ UNCHANGED <<areas, unique, procedures, opened, seeded, reading>>

-----------------------------------------------------------------------------
Named(k, n) == {p \in Procedures : procedures[p].area = k /\ procedures[p].name = n}

\* create_procedure, once the catalogue is there: the area, the name in it.
ProcedureStart(r, k, n) ==
  /\ At(r, "served")
  /\ RowsOf(k) # {} /\ Named(k, n) = {}
  /\ \E active \in BOOLEAN :
       reading' = [reading EXCEPT ![r].pc = "pr_insert",
                                  ![r].row = [area |-> k, name |-> n, active |-> active, edits |-> 0]]
  /\ UNCHANGED <<areas, hidden, unique, procedures, opened, seeded>>

\* create_from_template: a template is of a default area, and is offered.
TemplateStart(r, k, n) ==
  /\ At(r, "served") /\ k \in Defaults
  /\ RowsOf(k) # {} /\ Named(k, n) = {}
  /\ reading' = [reading EXCEPT ![r].pc = "pr_insert",
                                ![r].row = [area |-> k, name |-> n, active |-> TRUE, edits |-> 0]]
  /\ UNCHANGED <<areas, hidden, unique, procedures, opened, seeded>>

\* duplicate_procedure: the copy of the row as it is, retired or not, under a
\* name that is free; the catalogue is not seeded for it.
DuplicateStart(r, p, n) ==
  /\ At(r, "idle")
  /\ procedures[p] # NoRow /\ Named(procedures[p].area, n) = {}
  /\ reading' = [reading EXCEPT ![r].pc = "pr_insert", ![r].row = [procedures[p] EXCEPT !.name = n]]
  /\ UNCHANGED <<areas, hidden, unique, procedures, opened, seeded>>

\* What the unique index on (area, name) leaves to the insert and the update.
NameFree(k, n) == unique.procedures => Named(k, n) = {}

ProcedureInsert(r, p) ==
  /\ At(r, "pr_insert")
  /\ procedures[p] = NoRow
  /\ procedures' = IF NameFree(reading[r].row.area, reading[r].row.name)
                   THEN [procedures EXCEPT ![p] = reading[r].row]
                   ELSE procedures
  /\ End(r)
  /\ UNCHANGED <<areas, hidden, unique, opened, seeded>>

\* update_procedure moves it, renames it, edits it, or offers it again.
UpdateProcedure(p, k, n, active) ==
  /\ procedures[p] # NoRow /\ procedures[p].edits < MaxEdits
  /\ RowsOf(k) # {}
  /\ <<k, n>> # <<procedures[p].area, procedures[p].name>> => NameFree(k, n)
  /\ procedures' = [procedures EXCEPT ![p] = [area |-> k, name |-> n, active |-> active,
                                              edits |-> @.edits + 1]]
  /\ UNCHANGED <<areas, hidden, unique, opened, seeded, reading>>

\* deactivate_procedure retires it and deletes nothing.
Deactivate(p) ==
  /\ procedures[p] # NoRow
  /\ procedures' = [procedures EXCEPT ![p].active = FALSE]
  /\ UNCHANGED <<areas, hidden, unique, opened, seeded, reading>>

\* case_plan and what it is made of: the stages and the timeline of the row.
CasePlan(p) == procedures[p].edits

\* snapshot_for_case: a case takes a copy, of a retired procedure too.
OpenCase(k, p) ==
  /\ opened[k].procedure = NoProcedure /\ procedures[p] # NoRow
  /\ opened' = [opened EXCEPT ![k] = [procedure |-> p, edits |-> CasePlan(p)]]
  /\ UNCHANGED <<areas, hidden, unique, procedures, seeded, reading>>

-----------------------------------------------------------------------------
Step(r) ==
  \/ Ask(r) \/ Scan(r) \/ Clear(r) \/ Index(r) \/ Seeded(r) \/ Read(r)
  \/ \E k \in Keys : \/ Upsert(r, k) \/ AreaStart(r, k)
                     \/ \E n \in Names : ProcedureStart(r, k, n) \/ TemplateStart(r, k, n)
  \/ AreaInsert(r)
  \/ \E p \in Procedures : \/ ProcedureInsert(r, p)
                           \/ \E n \in Names : DuplicateStart(r, p, n)

Next ==
  \/ \E r \in Readers : Step(r)
  \/ \E n \in Rows : UpdateArea(n)
  \/ \E p \in Procedures : \/ Deactivate(p)
                           \/ \E k \in Cases : OpenCase(k, p)
                           \/ \E k \in Keys, n \in Names, b \in BOOLEAN : UpdateProcedure(p, k, n, b)

Spec == Init /\ [][Next]_cvars

-----------------------------------------------------------------------------
\* list_areas and list_procedures, with what is switched off or without.
AreasListed(all) == {n \in Rows : areas[n] \in Keys /\ (all \/ n \notin hidden)}
ProceduresListed(all) == {p \in Procedures : procedures[p] # NoRow /\ (all \/ procedures[p].active)}

\* _area_names: a procedure is shown under the name of its area's row.
AreaNames(p) == {n \in AreasListed(TRUE) : areas[n] = procedures[p].area}

\* However many requests seed the workspace at once, whoever is served finds
\* each default exactly once (catalog/service.py:60), and every procedure of
\* the list, retired ones too, still has an area to be shown under.
AreasOnce ==
  /\ \A r \in Readers : At(r, "served") =>
       \A k \in Defaults : Cardinality({n \in AreasListed(TRUE) : areas[n] = k}) = 1
  /\ \A p \in ProceduresListed(TRUE) : AreaNames(p) # {}

\* Why it holds, as an inductive invariant: the rows a seeder drops have an older
\* one of their key, which no seeder drops, so no key loses its last row; and the
\* index, built over no duplicates, lets none in.
SeederInv(r) ==
  /\ At(r, "clear") => \A n \in reading[r].drop : areas[n] = Removed \/ n \in Duplicates
  /\ At(r, "upsert") => /\ unique.areas
                        /\ \A k \in Defaults \ reading[r].todo : RowsOf(k) # {}
  /\ At(r, "served") \/ reading[r].worker \in seeded =>
       unique.areas /\ \A k \in Defaults : RowsOf(k) # {}
  /\ At(r, "pr_insert") => RowsOf(reading[r].row.area) # {} /\ reading[r].row.area \in Keys
CatalogueInv ==
  /\ unique.areas => Duplicates = {}
  /\ \A r \in Readers : SeederInv(r)
  /\ \A p \in Procedures : procedures[p] # NoRow =>
       procedures[p].area \in Keys /\ RowsOf(procedures[p].area) # {}
=============================================================================
