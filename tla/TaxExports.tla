----------------------------- MODULE TaxExports -----------------------------
(***************************************************************************)
(* POST /api/exports beside the calculations and reviews of TaxRuns: a     *)
(* file is written once per run, kind and format version, and registered   *)
(* in export_runs and export_artifacts.  What matters of a file is whose   *)
(* figures it holds.  Kinds that show review decisions or valuations read  *)
(* these as they are at the moment of the export and are left out.         *)
(***************************************************************************)
EXTENDS TaxRuns

CONSTANTS
    Exporters,  \* the POST /api/exports calls
    Kinds       \* ExportKind, each with the one format version of the program

ASSUME ExportAssumption ==
    /\ Kinds \subseteq {"tax_journal_csv", "annual_summary_csv"}
    /\ None \notin Exporters

VARIABLES
    exports,   \* export_runs, each with its artifact
    files,     \* the export directory, by who wrote: the run shown
    xpc,       \* where each export request is
    wanted,    \* the run and the kind it is about
    given      \* the artifact its response names, by who registered it

xvars == <<exports, files, xpc, wanted, given>>

Export == [by : Exporters, run : Calculations, kind : Kinds]
Wanted == [run : Calculations, kind : Kinds]

ExportTypeOK ==
    /\ TypeOK
    /\ exports \subseteq Export
    /\ files \in [Exporters -> Calculations \cup {None}]
    /\ xpc \in [Exporters -> {"idle", "writing", "committing", "done"}]
    /\ wanted \in [Exporters -> Wanted \cup {None}]
    /\ given \in [Exporters -> Exporters \cup {None}]

ExportInit ==
    /\ Init
    /\ exports = {}
    /\ files = [x \in Exporters |-> None]
    /\ xpc = [x \in Exporters |-> "idle"]
    /\ wanted = [x \in Exporters |-> None]
    /\ given = [x \in Exporters |-> None]

ExportTo(x, step) == xpc' = [xpc EXCEPT ![x] = step]
Gives(x, by) == ExportTo(x, "done") /\ given' = [given EXCEPT ![x] = by]

Registered(run, kind) == {e \in exports : e.run = run /\ e.kind = kind}

\* The run exists, whatever its status; an export of it may exist already.
FindExport(x, run, kind) ==
    /\ xpc[x] = "idle"
    /\ wanted' = [wanted EXCEPT ![x] = [run |-> run, kind |-> kind]]
    /\ \/ \E e \in Registered(run, kind) : Gives(x, e.by)
       \/ Registered(run, kind) = {} /\ ExportTo(x, "writing") /\ UNCHANGED given
    /\ UNCHANGED <<exports, files>>

\* MUTANT of ShownRun: the annual summary of the oldest current run.
OldestShown(w) ==
    IF w.kind = "annual_summary_csv"
    THEN {r \in Current : \A q \in Current : runs[r].startedAt <= runs[q].startedAt}
    ELSE {w.run}

\* _export_rows: tax_summary looks for the latest run of the year, the other
\* kinds read what belongs to the run.
ShownRun(w) == IF w.kind = "annual_summary_csv" THEN LatestOf(Current) ELSE {w.run}

\* MUTANT of WriteFile: the rows are inserted before the file is written.
RegisterFirst(x) ==
    /\ xpc[x] = "writing"
    /\ exports' = exports \cup {[by |-> x, run |-> wanted[x].run, kind |-> wanted[x].kind]}
    /\ ExportTo(x, "committing")
    /\ UNCHANGED <<files, wanted, given>>

\* The rows are read and the file is written under a random name.
WriteFile(x) ==
    /\ xpc[x] = "writing"
    /\ \E r \in ShownRun(wanted[x]) : files' = [files EXCEPT ![x] = r]
    /\ ExportTo(x, "committing")
    /\ UNCHANGED <<exports, wanted, given>>

\* uq_export_run_format
FormatTaken(x) == Registered(wanted[x].run, wanted[x].kind) # {}

CommitExport(x) ==
    /\ xpc[x] = "committing"
    /\ ~FormatTaken(x)
    /\ exports' = exports \cup {[by |-> x, run |-> wanted[x].run, kind |-> wanted[x].kind]}
    /\ Gives(x, x)
    /\ UNCHANGED <<files, wanted>>

\* Another request was faster: an internal error, the file stays behind.
ExportRefused(x) ==
    /\ xpc[x] = "committing"
    /\ FormatTaken(x)
    /\ ExportTo(x, "done")
    /\ UNCHANGED <<exports, files, wanted, given>>

\* Any other exception, or the end of the process, before the commit.
ExportFails(x) ==
    /\ xpc[x] \in {"writing", "committing"}
    /\ ExportTo(x, "done")
    /\ UNCHANGED <<exports, files, wanted, given>>

CreateExport(x) ==
    \/ \E run \in Inserted, kind \in Kinds : FindExport(x, run, kind)
    \/ WriteFile(x) \/ CommitExport(x) \/ ExportRefused(x) \/ ExportFails(x)

ExportNext ==
    \/ Next /\ UNCHANGED xvars
    \/ \E x \in Exporters : CreateExport(x) /\ UNCHANGED vars

ExportSpec == ExportInit /\ [][ExportNext]_<<vars, xvars>>

-----------------------------------------------------------------------------
\* Whatever requests race or break off, an artifact that is registered or named
\* in a response can be downloaded: its file was written before its row.
ArtifactHasFile ==
    /\ \A e \in exports : files[e.by] # None
    /\ \A x \in Exporters : given[x] # None => files[given[x]] # None

\* However runs supersede each other around it, an export of a run never shows
\* an older calculation than the one it is registered for.
NeverShowsOlderRun ==
    \A e \in exports : files[e.by] # None =>
        runs[files[e.by]].startedAt >= runs[e.run].startedAt
=============================================================================
