------------------------------ MODULE MC_Scrape ------------------------------
(* Scrape instantiated with scrapers of the catalog.                       *)
EXTENDS Scrape, Catalog

\* A scraper with two queries, one that parses, and the one whose query
\* and Scan disagree: together they reach every exit path of Scrape.
MCProcsPool == {"ndbinfo.resources.free", "ndbinfo.threadstat", "info_schema.files"}

\* Only the files scraper.
MCProcsFiles == {"info_schema.files"}

\* Only the threadstat scraper.
MCProcsThreadstat == {"ndbinfo.threadstat"}

\* Two scrapers with two queries each.
MCProcsTwoQueries == {"ndbinfo.resources.free", "ndbinfo.resources"}

MCJob(procs) == [n \in procs |-> Named(n).queries]
MCJobPool == MCJob(MCProcsPool)
MCJobFiles == MCJob(MCProcsFiles)
MCJobTwoQueries == MCJob(MCProcsTwoQueries)
MCJobThreadstat == MCJob(MCProcsThreadstat)

=============================================================================
