------------------------------ MODULE Catalog ------------------------------
(***************************************************************************)
(* The scrapers of package collector as data.  Every scraper has the same *)
(* control (modelled once, in module Scrape); what tells them apart is    *)
(* the shape of each query it runs:                                        *)
(*   cols   the number of columns the SQL text returns,                    *)
(*   dest   the number of destinations its rows.Scan call takes,           *)
(*   slots  the MustNewConstMetric calls of one row, in order: whether    *)
(*          the value is always sent ("plain"), sent only when a          *)
(*          sql.Null* column is Valid ("nullable"), or first parsed with   *)
(*          strconv.ParseFloat, whose error aborts the scrape ("parsed"). *)
(* version is Version() times ten (5.6 is 56).  Label values, help text,  *)
(* metric kinds and SQL text are left out: no property tells them apart.  *)
(***************************************************************************)
EXTENDS Naturals, Sequences

Q(cols, dest, slots) == [cols |-> cols, dest |-> dest, slots |-> slots]

V  == [value |-> "plain"]     \* always sent
NV == [value |-> "nullable"]  \* sent when its sql.Null* column is Valid
PV == [value |-> "parsed"]    \* sent after a strconv.ParseFloat that may fail

\* The SELECT list lacks a comma after FILE_NAME, so FREE_EXTENTS is an
\* alias and the query returns 9 columns; Scan takes 10.
ScrapeFiles ==
  [name |-> "info_schema.files", version |-> 51,
   queries |-> << Q(9, 10, <<NV, V, V, V>>) >>]

ScrapeNdbinfoClusterLocks ==
  [name |-> "ndbinfo.cluster_locks", version |-> 56,
   queries |-> << Q(6, 6, <<V, V>>) >>]

ScrapeNdbinfoClusterOperations ==
  [name |-> "ndbinfo.cluster_operations", version |-> 56,
   queries |-> << Q(4, 4, <<V>>) >>]

ScrapeNdbinfoClusterTransactions ==
  [name |-> "ndbinfo.cluster_transactions", version |-> 56,
   queries |-> << Q(3, 3, <<V>>) >>]

ScrapeNdbinfoCountersSPJ ==
  [name |-> "ndbinfo.counters.spj", version |-> 56,
   queries |-> << Q(3, 3, <<V>>) >>]

ScrapeNdbinfoDiskWriteSpeedAggregate ==
  [name |-> "ndbinfo.disk_write_speed_aggregate", version |-> 56,
   queries |-> << Q(6, 6, <<V, V, V, V>>) >>]

ScrapeNdbinfoDiskpagebuffers ==
  [name |-> "ndbinfo.diskpagebuffers", version |-> 56,
   queries |-> << Q(9, 9, <<V, V, V, V, V, V, V>>) >>]

\* Two queries: ndbinfo.resources, then the long message buffer of
\* ndbinfo.memoryusage; one free-memory gauge per row of each.
ScrapeNdbinfoFreeMemory ==
  [name |-> "ndbinfo.resources.free", version |-> 57,
   queries |-> << Q(4, 4, <<V>>), Q(3, 3, <<V>>) >>]

ScrapeNdbinfoLogspaces ==
  [name |-> "ndbinfo.logspaces", version |-> 56,
   queries |-> << Q(5, 5, <<V, V>>) >>]

\* The second query is ndbinfoLongSignalMemoryQuery of
\* ndbinfo_free_resources.go, not the file's own ndbinfoLongSignalQuery.
ScrapeNdbinfoResources ==
  [name |-> "ndbinfo.resources", version |-> 57,
   queries |-> << Q(4, 4, <<V, V>>), Q(3, 3, <<V, V>>) >>]

ScrapeNdbinfoProcesses ==
  [name |-> "ndbinfo.processes", version |-> 56,
   queries |-> << Q(3, 3, <<V>>) >>]

ScrapeNdbinfoPgmanTimeTrack ==
  [name |-> "ndbinfo.pgman_time_track_stats", version |-> 57,
   queries |-> << Q(6, 6, <<V, V, V, V>>) >>]

ScrapeNdbinfoLogbuffers ==
  [name |-> "ndbinfo.logbuffers", version |-> 56,
   queries |-> << Q(5, 5, <<V, V>>) >>]

ScrapeNdbinfoMemoryusage ==
  [name |-> "ndbinfo.memoryusage", version |-> 56,
   queries |-> << Q(6, 6, <<V, V, V, V>>) >>]

ScrapeNdbinfoTransporters ==
  [name |-> "ndbinfo.transporters", version |-> 56,
   queries |-> << Q(9, 9, <<V, V, V, V, V, V, V>>) >>]

\* c_loop, c_exec and c_wait are scanned as strings and parsed, each
\* right before its own send.
ScrapeNdbinfoThreadstat ==
  [name |-> "ndbinfo.threadstat", version |-> 56,
   queries |-> << Q(14, 14, <<PV, PV, PV, V, V, V, V, V, V, V>>) >>]

ScrapeNdbinfoTcTimeTrack ==
  [name |-> "ndbinfo.tc_time_track_stats", version |-> 57,
   queries |-> << Q(7, 7, <<V, V, V, V, V>>) >>]

Catalog ==
  { ScrapeFiles, ScrapeNdbinfoClusterLocks, ScrapeNdbinfoClusterOperations,
    ScrapeNdbinfoClusterTransactions, ScrapeNdbinfoCountersSPJ,
    ScrapeNdbinfoDiskWriteSpeedAggregate, ScrapeNdbinfoDiskpagebuffers,
    ScrapeNdbinfoFreeMemory, ScrapeNdbinfoLogspaces, ScrapeNdbinfoResources,
    ScrapeNdbinfoProcesses, ScrapeNdbinfoPgmanTimeTrack,
    ScrapeNdbinfoLogbuffers, ScrapeNdbinfoMemoryusage,
    ScrapeNdbinfoTransporters, ScrapeNdbinfoThreadstat,
    ScrapeNdbinfoTcTimeTrack }

\* The scraper of the catalog whose Name() is n.
Named(n) == CHOOSE s \in Catalog : s.name = n

=============================================================================
