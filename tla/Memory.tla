------------------------------- MODULE Memory -------------------------------
(***************************************************************************)
(* The values the two memory scrapers derive from a row, with Go's         *)
(* arithmetic: uint64 wraps modulo 2^Width, and float64(x) rounds x to     *)
(* Mantissa significant bits (to nearest, ties to even).  The real widths  *)
(* are 64 and 53; a run scales them down so that TLC's integers suffice.   *)
(*                                                                         *)
(*   ScrapeNdbinfoFreeMemory (ndbinfo_free_resources.go) sends             *)
(*     free_memory{type}      = float64(reserved - used, clamped at 0) * 32768 *)
(*     free_memory{LSM}       = float64(total - used, clamped at 0)    * 256   *)
(*   ScrapeNdbinfoResources (ndbinfo_resources.go) sends                   *)
(*     memory_resource_reserved{type} = float64(reserved * 32768)  (uint64) *)
(*     memory_resource_used{type}     = float64(used * 32768)      (uint64) *)
(*     memory_resource_reserved{LSM}  = float64(total_pages * 256) (uint64) *)
(*     memory_resource_used{LSM}      = float64(used_pages * 256)  (uint64) *)
(*                                                                         *)
(* One row of ndbinfo.resources (reserved, used pages of 32 KiB) and one   *)
(* of ndbinfo.memoryusage for the long message buffer (total, used pages   *)
(* of 256 bytes) are modelled.  reserved and total are configuration and   *)
(* stay fixed; the data node allocates and frees pages at any time, and    *)
(* either scraper reads the rows whenever it runs.                         *)
(***************************************************************************)
EXTENDS Naturals, Sequences

CONSTANTS
  Width,     \* bits of Go's uint64
  Mantissa,  \* significant bits of Go's float64
  Pages      \* the page counts a row of either table can hold in a run

ASSUME WidthAssumption ==
  /\ Mantissa \in Nat \ {0}
  /\ Width \in Nat
  /\ Mantissa < Width
  /\ 2^Mantissa \in Nat   \* true for Mantissa \in Nat; the provers lack ^
  /\ 2^Width \in Nat      \* likewise
  /\ 2^Mantissa < 2^Width \* likewise, since Mantissa < Width
ASSUME PagesAssumption == Pages \subseteq 0 .. (2^Width - 1)

VARIABLES
  resources,    \* the ndbinfo.resources row: [reserved, used]
  memoryusage,  \* the long message buffer row: [total, used]
  sent          \* sent[m]: the last sample of metric m, with the row it was
                \* computed from, or NoSample

vars == <<resources, memoryusage, sent>>

Metrics == {"free_memory", "free_memory_lsm",
            "resource_reserved", "resource_used",
            "resource_reserved_lsm", "resource_used_lsm"}
NoSample == [value |-> 0, from |-> <<>>]

-----------------------------------------------------------------------------
(* Go arithmetic.                                                          *)

\* uint64 multiplication wraps.
Uint(x) == x % (2^Width)

\* float64(x) for a uint64 x: exact below 2^Mantissa, else rounded to the
\* nearest multiple of 2^k, k the bits x has beyond the mantissa, ties to
\* an even quotient.  Multiplying by 32768 or 256 afterwards is exact (a
\* power of two, far below float64's range).
Float64(x) ==
  IF x < 2^Mantissa THEN x
  ELSE LET k == CHOOSE k \in 1 .. (Width - Mantissa) :
                  x >= 2^(Mantissa + k - 1) /\ x < 2^(Mantissa + k)
           q == x \div 2^k
           r == x % 2^k
       IN  (IF r > 2^(k - 1) \/ (r = 2^(k - 1) /\ q % 2 = 1)
              THEN q + 1 ELSE q) * 2^k

-----------------------------------------------------------------------------
(* The derivations, as the scrapers compute them.                          *)

\* Variant for mutation testing: free computed in a signed integer, so a
\* row using more than it reserved gives a negative free memory.
FreeSigned(reserved, used) == reserved - used

\* free = reserved - used if reserved >= used, else 0 (both loops).
Free(reserved, used) == IF reserved >= used THEN reserved - used ELSE 0

FreeMemoryBytes(reserved, used) == Float64(Free(reserved, used)) * 32768
FreeLongSignalBytes(total, used) == Float64(Free(total, used)) * 256

\* reserved_bytes = reserved * 32768 and float64(reserved_bytes), etc.
ResourceBytes(pages) == Float64(Uint(pages * 32768))
LongSignalBytes(pages) == Float64(Uint(pages * 256))

-----------------------------------------------------------------------------
(* Actions.                                                                *)

Init ==
  /\ resources \in [reserved : Pages, used : Pages]
  /\ memoryusage \in [total : Pages, used : Pages]
  /\ sent = [m \in Metrics |-> NoSample]

\* The data node allocates or frees pages of either resource.
Allocate ==
  /\ \E u \in Pages, v \in Pages :
       /\ resources' = [resources EXCEPT !.used = u]
       /\ memoryusage' = [memoryusage EXCEPT !.used = v]
  /\ UNCHANGED sent

\* ScrapeNdbinfoFreeMemory.Scrape: one row of each loop and its sample.
ScrapeFreeMemory ==
  LET r == resources
      m == memoryusage
  IN  /\ sent' = [sent EXCEPT
           !["free_memory"] =
              [value |-> FreeMemoryBytes(r.reserved, r.used), from |-> <<r.reserved, r.used>>],
           !["free_memory_lsm"] =
              [value |-> FreeLongSignalBytes(m.total, m.used), from |-> <<m.total, m.used>>]]
      /\ UNCHANGED <<resources, memoryusage>>

\* ScrapeNdbinfoResources.Scrape: one row of each loop and its two samples.
ScrapeResources ==
  LET r == resources
      m == memoryusage
  IN  /\ sent' = [sent EXCEPT
           !["resource_reserved"] = [value |-> ResourceBytes(r.reserved), from |-> <<r.reserved>>],
           !["resource_used"] = [value |-> ResourceBytes(r.used), from |-> <<r.used>>],
           !["resource_reserved_lsm"] = [value |-> LongSignalBytes(m.total), from |-> <<m.total>>],
           !["resource_used_lsm"] = [value |-> LongSignalBytes(m.used), from |-> <<m.used>>]]
      /\ UNCHANGED <<resources, memoryusage>>

Next == Allocate \/ ScrapeFreeMemory \/ ScrapeResources

Spec == Init /\ [][Next]_vars

-----------------------------------------------------------------------------
(* Properties.  The reference is the spec's: free = max(0, reserved -     *)
(* used), bytes = pages * page size, "reproduced exactly".  Run           *)
(* memory_free checks TypeOK; FreeMemoryExact and ResourceBytesExact are   *)
(* proved in Memory_proofs for every width, below the wrap.                *)

\* The rows hold page counts of the run, and every sample is a natural number.
TypeOK ==
  /\ resources \in [reserved : Pages, used : Pages]
  /\ memoryusage \in [total : Pages, used : Pages]
  /\ sent \in [Metrics -> [value : Nat, from : Seq(Nat)]]

\* Every free-memory sample the free-memory scraper sent is max(0, reserved
\* - used) pages in bytes for the row it read, even when the data node uses
\* more than it reserved (the clamp in ScrapeNdbinfoFreeMemory.Scrape).
FreeMemoryExact ==
  /\ sent["free_memory"] # NoSample =>
       LET f == sent["free_memory"].from
       IN  sent["free_memory"].value =
             (IF f[1] >= f[2] THEN f[1] - f[2] ELSE 0) * 32768
  /\ sent["free_memory_lsm"] # NoSample =>
       LET f == sent["free_memory_lsm"].from
       IN  sent["free_memory_lsm"].value =
             (IF f[1] >= f[2] THEN f[1] - f[2] ELSE 0) * 256

\* Every reserved and used byte count the resources scraper sent is the
\* page count it read times the page size (ScrapeNdbinfoResources.Scrape
\* multiplies in uint64).
ResourceBytesExact ==
  /\ \A m \in {"resource_reserved", "resource_used"} :
       sent[m] # NoSample => sent[m].value = sent[m].from[1] * 32768
  /\ \A m \in {"resource_reserved_lsm", "resource_used_lsm"} :
       sent[m] # NoSample => sent[m].value = sent[m].from[1] * 256

=============================================================================
