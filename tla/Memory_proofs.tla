---------------------------- MODULE Memory_proofs ----------------------------
(***************************************************************************)
(* Proofs about module Memory, for every Width, Mantissa and set of page   *)
(* counts below 2^Mantissa: in particular for Go's 64-bit uint64 and       *)
(* 53-bit float64 mantissa, and every page count below 2^53.               *)
(***************************************************************************)
EXTENDS Memory, TLAPS

\* The free-memory samples depend only on these parts of the state.
IInv ==
  /\ resources \in [reserved : Pages, used : Pages]
  /\ memoryusage \in [total : Pages, used : Pages]
  /\ DOMAIN sent = Metrics
  /\ FreeMemoryExact

\* float64(x) is x itself for every x below 2^Mantissa.
LEMMA Float64Exact ==
  ASSUME NEW x \in Nat, x < 2^Mantissa
  PROVE  Float64(x) = x
BY DEF Float64

\* The clamped difference never exceeds the larger operand, so it is exact
\* in float64 whenever the operand is.
LEMMA FreeExact ==
  ASSUME NEW a \in Nat, NEW b \in Nat, a < 2^Mantissa
  PROVE  /\ Float64(Free(a, b)) = IF a >= b THEN a - b ELSE 0
         /\ Free(a, b) \in Nat
<1>1. Free(a, b) \in Nat /\ Free(a, b) <= a
  BY DEF Free
<1>2. 2^Mantissa \in Nat
  BY WidthAssumption
<1>3. Free(a, b) < 2^Mantissa
  BY <1>1, <1>2
<1>4. Float64(Free(a, b)) = Free(a, b)
  BY <1>1, <1>3, Float64Exact
<1>. QED
  BY <1>1, <1>4 DEF Free

\* No sample has been sent initially.
LEMMA InitIInv == Init => IInv
BY DEF Init, IInv, FreeMemoryExact, NoSample, Metrics

\* Each step keeps the free-memory samples exact, provided every page count
\* is below 2^Mantissa.
LEMMA NextIInv ==
  ASSUME Pages \subseteq 0 .. (2^Mantissa - 1)
  PROVE  IInv /\ [Next]_vars => IInv'
<1> SUFFICES ASSUME IInv, [Next]_vars PROVE IInv'
  OBVIOUS
<1>1. CASE Allocate
  BY <1>1 DEF Allocate, IInv, FreeMemoryExact
<1>2. CASE ScrapeFreeMemory
  <2>0. 2^Mantissa \in Nat
    BY WidthAssumption
  <2>1. /\ resources.reserved \in 0 .. (2^Mantissa - 1)
        /\ resources.used \in 0 .. (2^Mantissa - 1)
        /\ memoryusage.total \in 0 .. (2^Mantissa - 1)
        /\ memoryusage.used \in 0 .. (2^Mantissa - 1)
    BY DEF IInv
  <2>2. /\ resources.reserved \in Nat /\ resources.reserved < 2^Mantissa
        /\ resources.used \in Nat
        /\ memoryusage.total \in Nat /\ memoryusage.total < 2^Mantissa
        /\ memoryusage.used \in Nat
    BY <2>0, <2>1
  <2>3. FreeMemoryBytes(resources.reserved, resources.used)
          = (IF resources.reserved >= resources.used
               THEN resources.reserved - resources.used ELSE 0) * 32768
    BY <2>2, FreeExact DEF FreeMemoryBytes
  <2>4. FreeLongSignalBytes(memoryusage.total, memoryusage.used)
          = (IF memoryusage.total >= memoryusage.used
               THEN memoryusage.total - memoryusage.used ELSE 0) * 256
    BY <2>2, FreeExact DEF FreeLongSignalBytes
  <2>. QED
    BY <1>2, <2>3, <2>4 DEF ScrapeFreeMemory, IInv, FreeMemoryExact, Metrics, NoSample
<1>3. CASE ScrapeResources
  BY <1>3 DEF ScrapeResources, IInv, FreeMemoryExact, Metrics
<1>4. CASE UNCHANGED vars
  BY <1>4 DEF vars, IInv, FreeMemoryExact
<1>. QED
  BY <1>1, <1>2, <1>3, <1>4 DEF Next

\* For every page count below 2^Mantissa, every free-memory sample the
\* free-memory scraper sends is max(0, reserved - used) pages in bytes,
\* clamp included: a row that uses more than it reserved gives 0, never a
\* wrapped uint64.
THEOREM FreeMemoryCorrect ==
  ASSUME Pages \subseteq 0 .. (2^Mantissa - 1)
  PROVE  Spec => []FreeMemoryExact
<1>1. IInv => FreeMemoryExact
  BY DEF IInv
<1>. QED
  BY <1>1, InitIInv, NextIInv, PTL DEF Spec

-----------------------------------------------------------------------------
(* Below the uint64 wrap, the resources scraper is exact too.              *)

\* Every page count of the run is small enough that its byte count is
\* below 2^Mantissa (2^38 pages of 32 KiB for Go's float64).
BelowWrap == Pages \subseteq {n \in Nat : n * 32768 < 2^Mantissa}

\* The samples are natural numbers and each one records the row it came from.
SentTyped == sent \in [Metrics -> [value : Nat, from : Seq(Nat)]]

\* The inductive invariant: IInv, the samples typed, and the resources
\* scraper's samples exact.
XInv == IInv /\ SentTyped /\ ResourceBytesExact

\* uint64 arithmetic is exact below 2^Mantissa, which is below 2^Width.
LEMMA UintExact ==
  ASSUME NEW x \in Nat, x < 2^Mantissa
  PROVE  Uint(x) = x
BY WidthAssumption DEF Uint

\* Below the wrap, reserved * 32768 and total_pages * 256 survive both the
\* uint64 multiplication and the float64 conversion.
LEMMA BytesBelowWrap ==
  ASSUME NEW n \in Nat, n * 32768 < 2^Mantissa
  PROVE  /\ ResourceBytes(n) = n * 32768
         /\ LongSignalBytes(n) = n * 256
<1>1. n * 256 \in Nat /\ n * 256 < 2^Mantissa /\ n * 32768 \in Nat
  BY WidthAssumption
<1>2. Uint(n * 32768) = n * 32768 /\ Uint(n * 256) = n * 256
  BY <1>1, UintExact
<1>3. Float64(n * 32768) = n * 32768 /\ Float64(n * 256) = n * 256
  BY <1>1, Float64Exact
<1>. QED
  BY <1>2, <1>3 DEF ResourceBytes, LongSignalBytes

\* A page count below the wrap is below 2^Mantissa itself.
LEMMA PagesBelowMantissa ==
  ASSUME BelowWrap
  PROVE  Pages \subseteq 0 .. (2^Mantissa - 1)
BY WidthAssumption DEF BelowWrap

\* No sample has been sent initially.
LEMMA InitXInv == Init => XInv
<1> SUFFICES ASSUME Init PROVE XInv
  OBVIOUS
<1>1. IInv
  BY InitIInv
<1>2. NoSample \in [value : Nat, from : Seq(Nat)]
  BY DEF NoSample
<1>3. SentTyped
  BY <1>2 DEF Init, SentTyped
<1>4. ResourceBytesExact
  BY DEF Init, ResourceBytesExact, Metrics
<1>. QED
  BY <1>1, <1>3, <1>4 DEF XInv

\* The page counts of the rows a scraper reads are natural numbers below
\* 2^Mantissa, and so are their byte counts.
LEMMA RowsBelowWrap ==
  ASSUME BelowWrap, XInv
  PROVE  /\ resources.reserved \in Nat /\ resources.reserved * 32768 < 2^Mantissa
         /\ resources.used \in Nat /\ resources.used * 32768 < 2^Mantissa
         /\ memoryusage.total \in Nat /\ memoryusage.total * 32768 < 2^Mantissa
         /\ memoryusage.used \in Nat /\ memoryusage.used * 32768 < 2^Mantissa
<1>1. /\ resources.reserved \in Pages /\ resources.used \in Pages
      /\ memoryusage.total \in Pages /\ memoryusage.used \in Pages
  BY DEF XInv, IInv
<1>2. \A n \in Pages : n \in Nat /\ n * 32768 < 2^Mantissa
  BY DEF BelowWrap
<1>3. resources.reserved \in Nat /\ resources.reserved * 32768 < 2^Mantissa
  BY <1>1, <1>2
<1>4. resources.used \in Nat /\ resources.used * 32768 < 2^Mantissa
  BY <1>1, <1>2
<1>5. memoryusage.total \in Nat /\ memoryusage.total * 32768 < 2^Mantissa
  BY <1>1, <1>2
<1>6. memoryusage.used \in Nat /\ memoryusage.used * 32768 < 2^Mantissa
  BY <1>1, <1>2
<1>. QED
  BY <1>3, <1>4, <1>5, <1>6

\* The free-memory scraper sends natural numbers and leaves the resources
\* samples alone.
LEMMA FreeStepX ==
  ASSUME BelowWrap, XInv, ScrapeFreeMemory
  PROVE  SentTyped' /\ ResourceBytesExact'
<1>0. 2^Mantissa \in Nat
  BY WidthAssumption
<1>1. /\ resources.reserved \in Nat /\ resources.reserved < 2^Mantissa
      /\ resources.used \in Nat
      /\ memoryusage.total \in Nat /\ memoryusage.total < 2^Mantissa
      /\ memoryusage.used \in Nat
  BY <1>0, RowsBelowWrap
<1>2. FreeMemoryBytes(resources.reserved, resources.used) \in Nat
  <2>1. Float64(Free(resources.reserved, resources.used)) \in Nat
    BY <1>1, FreeExact
  <2>. QED
    BY <2>1 DEF FreeMemoryBytes
<1>3. FreeLongSignalBytes(memoryusage.total, memoryusage.used) \in Nat
  <2>1. Float64(Free(memoryusage.total, memoryusage.used)) \in Nat
    BY <1>1, FreeExact
  <2>. QED
    BY <2>1 DEF FreeLongSignalBytes
<1>4. <<resources.reserved, resources.used>> \in Seq(Nat)
      /\ <<memoryusage.total, memoryusage.used>> \in Seq(Nat)
  BY <1>1
<1>5. SentTyped'
  BY <1>2, <1>3, <1>4 DEF ScrapeFreeMemory, XInv, SentTyped, Metrics
<1>6. ResourceBytesExact'
  <2>1. \A m \in {"resource_reserved", "resource_used",
                  "resource_reserved_lsm", "resource_used_lsm"} :
          sent'[m] = sent[m]
    BY DEF ScrapeFreeMemory, XInv, SentTyped, Metrics
  <2>. QED
    BY <2>1 DEF XInv, ResourceBytesExact
<1>. QED
  BY <1>5, <1>6

\* The resources scraper sends, for each page count it reads, exactly
\* that count times the page size.
LEMMA ResourcesStepX ==
  ASSUME BelowWrap, XInv, ScrapeResources
  PROVE  SentTyped' /\ ResourceBytesExact'
<1>1. /\ resources.reserved \in Nat /\ resources.reserved * 32768 < 2^Mantissa
      /\ resources.used \in Nat /\ resources.used * 32768 < 2^Mantissa
      /\ memoryusage.total \in Nat /\ memoryusage.total * 32768 < 2^Mantissa
      /\ memoryusage.used \in Nat /\ memoryusage.used * 32768 < 2^Mantissa
  BY RowsBelowWrap
<1>2. /\ ResourceBytes(resources.reserved) = resources.reserved * 32768
      /\ ResourceBytes(resources.used) = resources.used * 32768
      /\ LongSignalBytes(memoryusage.total) = memoryusage.total * 256
      /\ LongSignalBytes(memoryusage.used) = memoryusage.used * 256
  BY <1>1, BytesBelowWrap
<1>3. /\ sent'["resource_reserved"] = [value |-> ResourceBytes(resources.reserved),
                                        from |-> <<resources.reserved>>]
      /\ sent'["resource_used"] = [value |-> ResourceBytes(resources.used),
                                    from |-> <<resources.used>>]
      /\ sent'["resource_reserved_lsm"] = [value |-> LongSignalBytes(memoryusage.total),
                                            from |-> <<memoryusage.total>>]
      /\ sent'["resource_used_lsm"] = [value |-> LongSignalBytes(memoryusage.used),
                                        from |-> <<memoryusage.used>>]
      /\ sent'["free_memory"] = sent["free_memory"]
      /\ sent'["free_memory_lsm"] = sent["free_memory_lsm"]
  BY DEF ScrapeResources, XInv, SentTyped, Metrics
<1>4. DOMAIN sent' = Metrics /\ sent' = [m \in Metrics |-> sent'[m]]
  BY DEF ScrapeResources, XInv, SentTyped
<1>5. /\ [value |-> ResourceBytes(resources.reserved), from |-> <<resources.reserved>>]
         \in [value : Nat, from : Seq(Nat)]
      /\ [value |-> ResourceBytes(resources.used), from |-> <<resources.used>>]
         \in [value : Nat, from : Seq(Nat)]
      /\ [value |-> LongSignalBytes(memoryusage.total), from |-> <<memoryusage.total>>]
         \in [value : Nat, from : Seq(Nat)]
      /\ [value |-> LongSignalBytes(memoryusage.used), from |-> <<memoryusage.used>>]
         \in [value : Nat, from : Seq(Nat)]
  BY <1>1, <1>2
<1>6. SentTyped'
  <2>1. \A m \in Metrics : sent'[m] \in [value : Nat, from : Seq(Nat)]
    BY <1>3, <1>5 DEF XInv, SentTyped, Metrics
  <2>. QED
    BY <1>4, <2>1 DEF SentTyped
<1>7. ResourceBytesExact'
  BY <1>2, <1>3 DEF ResourceBytesExact
<1>. QED
  BY <1>6, <1>7

\* Every step keeps XInv below the wrap.
LEMMA NextXInv ==
  ASSUME BelowWrap
  PROVE  XInv /\ [Next]_vars => XInv'
<1> SUFFICES ASSUME XInv, [Next]_vars PROVE XInv'
  OBVIOUS
<1>1. IInv'
  BY PagesBelowMantissa, NextIInv DEF XInv
<1>2. CASE ScrapeFreeMemory
  BY <1>1, <1>2, FreeStepX DEF XInv
<1>3. CASE ScrapeResources
  BY <1>1, <1>3, ResourcesStepX DEF XInv
<1>4. CASE Allocate \/ UNCHANGED vars
  BY <1>1, <1>4 DEF Allocate, vars, XInv, SentTyped, ResourceBytesExact
<1>. QED
  BY <1>2, <1>3, <1>4 DEF Next

\* For every page count below the uint64 wrap of reserved * 32768, every
\* sample of either memory scraper is a natural number and every byte count
\* of the resources scraper is its page count times the page size.  Real
\* ndbinfo page counts (below 2^38 for Go's 53-bit mantissa) satisfy the
\* assumption, so the uint64 product and the float64 conversion of
\* ndbinfo_resources.go never lose a page.
THEOREM ExactBelowWrap ==
  ASSUME BelowWrap
  PROVE  Spec => [](TypeOK /\ ResourceBytesExact)
<1>1. XInv => TypeOK /\ ResourceBytesExact
  BY DEF XInv, IInv, SentTyped, TypeOK
<1>. QED
  BY <1>1, InitXInv, NextXInv, PTL DEF Spec

=============================================================================
