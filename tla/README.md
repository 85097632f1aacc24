# Formal model of the NDB scrapers of mysqld_exporter

This directory holds TLA+ modules that model the MySQL NDB Cluster scrapers in
`src/`, together with the TLC configurations that model-check them and the TLAPS
proofs of their main safety properties.

## The system

`src/` holds one scraper per file: `ScrapeFiles` and the `ScrapeNdbinfo*` types
in `src/collector/*.go` and `src/unnamed/part_00*`. Each scraper has:

- `Name()`, `Help()` and `Version()`;
- a SQL constant;
- a set of `prometheus.NewDesc` descriptors;
- a `Scrape(ctx, db, ch)` method.

The exporter harness calls these methods. It is not in `src/` and is described
only by the spec. It keeps a registry of scrapers and enables those selected by
flags whose `Version()` the server supports. On each HTTP scrape it runs every
enabled scraper in a goroutine of its own against one shared `*sql.DB`, under
the request's context. It records each scraper's error separately.

Every `Scrape` method has the same control:

```
rows, err := db.QueryContext(ctx, query)   // may wait for a pool connection
if err != nil { return err }
defer rows.Close()
for rows.Next() {
    if err := rows.Scan(...); err != nil { return err }
    [strconv.ParseFloat(...); if err != nil { return err }]   // threadstat
    ch <- prometheus.MustNewConstMetric(...)                  // per metric
}
[second query, same shape]     // ndbinfo.resources, ndbinfo.resources.free
return nil
```

`rows.Err()` is never consulted.

### Interactions

The scrapers share two things:

- **The connection pool.** An open `Rows` holds a pool connection until `Next`
  returns false or `Close` runs. A `QueryContext` waits for a free connection.
- **The request context.** Cancelling it makes a waiting `QueryContext` fail
  and a running result stream end.

Samples go to the exporter on `ch`.

### What is hard about it

These are the hazards listed in `PROJECT.json`:

- **Interleaving on a small pool.** Goroutines contend for a small pool while
  the context is cancelled.
- **Two queries in one Scrape.** The second query of a two-query scraper needs
  a connection while the first `Rows` may still hold one.
- **Error returns from inside the row loop.** Scan, ParseFloat and Next errors
  rely on the deferred `Close` to give back the connection.
- **Stream errors look like the end of the data.** Both make `Next` return
  false, and without `rows.Err()` they cannot be told apart; a context
  deadline during the last loop ends the same way.
- **SQL text and Scan disagree.** The number of columns the SQL text returns
  must equal the number of Scan destinations.
- **Half rows.** threadstat sends a counter of a row before a later column
  of the same row fails to parse.
- **Memory arithmetic.** The `reserved - used` clamp.

## Modules

| Module | Models | Sources |
|---|---|---|
| `Scrape` | the control of every `Scrape` method, one goroutine per scraper, the pool and the context | every `Scrape` method; `Init` and `Cancel` are spec-modelled (harness) |
| `Catalog` | each scraper as data: `Version()`, and per query the SELECT column count, the Scan destinations, and one slot per `MustNewConstMetric` of a row (always sent, sent when a `sql.Null*` is Valid, or sent after a `ParseFloat`) | all 17 scrapers |
| `ConnPool` | the abstract connection discipline of the spec: take a connection for a query when one is free and you hold none, give it back, return giving back all; none after returning | spec §5 (abstract, not mapped) |
| `Memory` | one `ndbinfo.resources` row and one long-message-buffer row, and the per-row arithmetic of `ScrapeNdbinfoFreeMemory.Scrape` and `ScrapeNdbinfoResources.Scrape` | `ndbinfo_free_resources.go`, `ndbinfo_resources.go` |
| `MC_Scrape`, `MC_Memory` | the instances TLC checks | — |
| `Scrape_proofs`, `ScrapePool_proofs`, `Memory_proofs` | TLAPS proofs | — |

### `Scrape`: state

The constants are:

- `Procs`: the scrapers of a cycle.
- `Job[p]`: the query shapes of scraper `p`.
- `PoolCap`: `SetMaxOpenConns`.
- `MaxRows`: the row bound of a run.

| Variable | Code |
|---|---|
| `pc[p]` | where goroutine `p` is: before `QueryContext`, in the `rows.Next` loop, returned |
| `qi[p]` | which of its queries (`ndbinfo.resources` has two) |
| `row[p]` | rows read from the current `Rows` |
| `open` | the open `Rows` as `<<scraper, query>>`; each holds one pool connection |
| `out[p]` | the samples sent on `ch`, identified by query, row and slot |
| `result[p]` | the error `Scrape` returned: nil (`"ok"`), a query error, a Scan error, a ParseFloat error |
| `rowsErr[p]` | what `rows.Err()` would report, had it been called |
| `ctxDone` | the request context is cancelled |

### `Scrape`: actions

Each action is one whole step of the code.

- **`Query(p)`** is `db.QueryContext` with its three outcomes:
  - ctx done → error;
  - a free connection and rows → the loop;
  - a free connection and a server error → `return err`.

  It waits while the pool is full. Each error path runs the deferred `Close`
  calls (`ReleaseAll`).
- **`Fetch(p)`** is `Next` returning true, together with the row's `Scan`, its
  sends and any `ParseFloat`. `Decodes` is "column count = Scan destinations".
  `Emitted` is the set of slots sent. A `sql.NullInt64` slot is sent only when
  it is Valid. With a ParseFloat failure at slot `bad`, only the slots before
  it are sent, and then the scraper returns.
- **`EndRows(p)`** is `Next` returning false: data exhausted or stream failed,
  either way the `Rows` are closed. The scraper then goes on to the next query
  or to `return nil`.
- **`Cancel`** is the request context ending.

The database's outcomes are chosen with `\E`: rows or an error, Valid or NULL,
a parseable string or not, the end of the data or a stream error.

`Decodes` models one cause of a Scan error, the one the code has: a column
count that differs from the number of destinations. A conversion error (a
NULL or an out-of-range value into a `uint64`) is not among the outcomes:
the model takes the columns scanned into plain integers to hold integers,
as the ndbinfo tables define them, and the columns the code expects to be
NULL are scanned into `sql.Null*`. Such an error would take the same
`return err` path as a count mismatch.

Row values, label values, help texts and metric kinds are abstracted away:
no property tells them apart.

## Runs

The `Scrape` runs use `MC_Scrape` with `MaxRows = 2` and `PoolCap = 1`,
except `scrape_refines` (`PoolCap = 2`).

- **`scrape_pool1`** (pass). Scrapers: `ndbinfo.resources.free` (two queries),
  `ndbinfo.threadstat` (ParseFloat) and `info_schema.files` (NULLs and a
  decode error). About 9,300 distinct states; every action and every
  disjunct fires. It checks:
  - `TypeOK`, which includes `qi[p] \in 1..Len(Job[p])`: no scraper runs
    past its last query;
  - `CursorsReleased`: no returned scraper holds a `Rows`, whatever path it
    returned by;
  - `AllScrapersReturn`: every Scrape returns, under fairness, even on a
    one-connection pool and with no cancellation.
- **`scrape_refines`** (pass). Checks `PoolSafe`: the scrapers' connection
  use implements `ConnPool`'s safety part (below). Same three scrapers, a
  two-connection pool, about 10,700 distinct states.
- **`scrape_truncated`** (violation). Checks `OkMeansComplete`: a scraper that
  returned nil saw no stream error. TLC finds `EndRows` with a stream error
  followed by `return nil`. **Finding:** errors mid-stream and cancellations
  are silently dropped (`ndbinfo_free_resources.go:125` returns nil without
  `rows.Err()`, like every scraper), and truncated metrics are reported as a
  successful scrape.
- **`scrape_files`** (violation). Checks `RowsDecode`: no Scan fails for a
  column-count mismatch. **Finding:** the files query lacks a comma after
  `FILE_NAME`, so it returns 9 columns against 10 destinations. Every
  non-empty table fails.
- **`scrape_torn`** (violation). Checks `RowsWhole`: every sample a scraper
  sent comes with every other non-nullable sample of its row. Only
  threadstat runs. **Finding:** `c_loop` is sent (`part_004:146`) before
  `c_exec` and `c_wait` are parsed, and a ParseFloat error then returns with
  half a row in the output. The spec says a decode error aborts the
  scraper's contribution.

**Why the bounds suffice.** A pool of one connection is the most contended
case: every query of every scraper waits for every other, and a scraper that
kept its first `Rows` would wait on itself. A pool of two is the smallest in
which a scraper could hold two connections at once without blocking, which is
what `PoolSafe` is about. Two rows give a loop that continues after a row and
also one that fails after a row. Three scrapers cover:

- a two-query scraper;
- a ParseFloat scraper;
- a nullable, mis-shaped scraper.

**Fairness.** Weak fairness on each scraper's `Step`:

- The Go scheduler runs a runnable goroutine.
- A waiting `QueryContext` is served once a connection is free for good.

There is no fairness on `Cancel`: a context need not end. `AllScrapersReturn`
holds because every `Rows` is released by `EndRows` (`Next` returning false
auto-closes) before the same scraper's next query.

**Mutants.** Each property of a passing run has a mutant that breaks it:

| Mutant | Breaks | Run |
|---|---|---|
| `EndRowsPastLast` (off-by-one on the check for a further query) | `TypeOK` | `scrape_pool1` |
| `FetchParseErrLeaks` (no Close on the ParseFloat error return) | `CursorsReleased` | `scrape_pool1` |
| `EndRowsKeepsConn` (a loop's `Rows` kept until the deferred Close, as after a `break`) | `AllScrapersReturn`: the two-query scraper waits on its own connection | `scrape_pool1` |
| `EndRowsKeepsConn` | `PoolSafe`: with two connections nothing blocks and every scraper returns, but the two-query scraper holds two connections at once | `scrape_refines` |
| `FreeSigned` (a signed subtraction) | `Memory.TypeOK` | `memory_free` |

### Proofs (`Scrape_proofs`)

The theorems hold for every `Procs`, `Job`, `PoolCap` and `MaxRows` that
satisfy the assumptions of `Scrape`:

- `JobAssumption`: each scraper runs a non-empty sequence of query shapes.
- `PoolCap \in Nat \ {0}`.
- `MaxRows \in Nat`.

These are the theorems:

- **`TypeCorrect`**: `Spec => []TypeOK`. The proof has one lemma per action:
  `QueryTypeOK`, `FetchTypeOK` and `EndRowsTypeOK`.
- **`CursorsReleasedInvariant`**: `Spec => []CursorsReleased`.
  `CursorsReleased` is not inductive: a step that returns `p` must be known to
  leave none of `p`'s `Rows` open. The strengthening is
  `IInv == TypeOK /\ ConnHeldOnlyWhileIterating`. It says every open `Rows`
  belongs to a scraper in its row loop, at the query it is iterating. Why each
  step preserves it:
  - `Query` adds `<<p, qi[p]>>` while moving `p` to "fetch".
  - Every return path removes all of `p`'s `Rows` (the deferred Close).
  - `EndRows` removes exactly `<<p, qi[p]>>` before `qi` advances.
  - The other scrapers' entries are untouched.
- **`OneConnPerScraper`**: a scraper never holds two `Rows`. It follows from
  the same invariant.

## The connection discipline as an abstract spec (`ConnPool`)

`ConnPool` states what the spec promises about connections, with nothing of
how a scraper queries:

- `holding`: the checkouts, as `<<scraper, query>>`.
- `returned`: the scrapers whose `Scrape` has returned.
- `Acquire(p)`: check out a connection for one of the `Tags` when `p` has
  not returned, holds none, and fewer than `PoolCap` are held.
- `Release(p)`: give back one of `p`'s checkouts.
- `Return(p)`: return, giving back all of `p`'s checkouts; weakly fair in
  `Spec`.

`Scrape` defines `Pool == INSTANCE ConnPool WITH Tags <- QueryTags,
holding <- open, returned <- {p \in Procs : pc[p] = "done"}`, and
`PoolSafe == Pool!SafetySpec`. Under the mapping:

- `Query` opening `Rows` is `Acquire`;
- `EndRows` closing a loop's `Rows` is `Release`, or `Return` on the last
  query;
- every error return with its deferred `Close` is `Return`;
- a row read or `Cancel` is a stutter.

Every guard of `ConnPool` can fail under this mapping. A second
`QueryContext` while the scraper's first `Rows` is open maps to an
`Acquire` whose "holds none" guard is false (mutant `EndRowsKeepsConn`); an
`Acquire` past the cap, or after return, or a `Return` that leaves a
checkout behind, likewise has no abstract step. The liveness part of
`Pool!Spec` is `AllScrapersReturn` again and is not part of `PoolSafe`.

**`ScrapePool_proofs`** proves `RefinesConnPool == Spec => PoolSafe` for
every instance. The inductive invariant is `RInv == IInv /\ FetchHolds`:

- `IInv` gives "holds none" at `Query`: a scraper at `QueryContext` is not
  in its loop, so no open `Rows` is its own (lemma `OwnRows`). It also
  makes a return's deferred `Close` (`ReleaseAll`) remove exactly the one
  `Rows` `EndRows` removes (lemma `ReleaseAllIsRemove`).
- `FetchHolds`: a scraper in its loop has the `Rows` of its query open, so
  `EndRows` really gives back a checkout of its own.

The pool's guard `Cardinality(open) < PoolCap` is `Acquire`'s cap itself.

## Memory derivations (`Memory`)

The state is:

- one `ndbinfo.resources` row `[reserved, used]`;
- one long-message-buffer row `[total, used]`;
- `sent[m]`: the last sample of each of the six metrics, with the row it
  came from.

The actions are:

- `Allocate`: the data node changes the used pages.
- `ScrapeFreeMemory` and `ScrapeResources`: the per-row arithmetic and sends
  of the two `Scrape` bodies.

Go's arithmetic is modelled by what it does:

- `Uint(x) == x % 2^Width` is `uint64`.
- `Float64(x)` rounds to `Mantissa` significant bits, to nearest with ties
  to even.

TLC's integers are 32-bit, so runs use `Width = 20` and `Mantissa = 17`,
about the real 64/53 ratio. `MCPages = {0, 1, 5, 32, 4096}` holds zero, one,
the scaled wrap points of `x32768` (32 pages) and `x256` (4096 pages), and 5
pages, whose 163,840 bytes lie between `2^17` and `2^20`, so `Float64`
takes its rounding branch. Allocations move `used` above and below
`reserved`.

- **`memory_free`** (pass, 422,500 states). Checks `TypeOK`: every sample of
  either scraper is a natural number, through the wrap and the rounding.
  Mutant `FreeSigned` (a signed subtraction) breaks it.

**`Memory_proofs`** proves two theorems for every `Width > Mantissa > 0`:

- **`FreeMemoryCorrect`**: for every page set below `2^Mantissa`,
  `Spec => []FreeMemoryExact`: every free-memory sample is
  `max(0, reserved - used)` pages in bytes. The clamped difference is at
  most `reserved`, so it is below `2^Mantissa`, where `Float64` is the
  identity; multiplying by a power of two is exact.
- **`ExactBelowWrap`**: under `BelowWrap` (every page count `n` has
  `n * 32768 < 2^Mantissa`, that is below 2^38 pages for Go's float64, which
  covers every real count), `Spec => [](TypeOK /\ ResourceBytesExact)`:
  every sample is a natural number and every byte count of the resources
  scraper is its page count times the page size. Neither the `uint64`
  multiply nor the `float64` conversion changes a value there (lemmas
  `UintExact` and `BytesBelowWrap`). The inductive invariant is
  `XInv == IInv /\ SentTyped /\ ResourceBytesExact`.

Neither property is a TLC run: in the model each restates the code's
arithmetic on values where it is exact, and what the theorems add is that
this holds for every width, including Go's.

**Why `TypeOK` needs the hypothesis in the proof.** Above the bound,
`Float64` takes its rounding branch, and there `2^k > 0` for a chosen `k` is
needed. The provers have no facts about `^`, and a proof by induction over
`k` needs an operator parameter they cannot instantiate. So for page counts
beyond the wrap, `TypeOK` stays with TLC (`memory_free`).

`WidthAssumption` states three facts as conjuncts, because the provers have
no facts about `^`. All three are true whenever `Mantissa < Width`:

- `2^Mantissa \in Nat`;
- `2^Width \in Nat`;
- `2^Mantissa < 2^Width`.

## Left to TLC

- All liveness: `AllScrapersReturn`. TLAPS does not handle fairness or
  `ENABLED`.
- `Memory.TypeOK` for page counts beyond `BelowWrap` (see above).
- Every violation run.

## Not modelled

- **The exporter harness beyond one cycle.** It is not under `src/`. One
  cycle is modelled (`Scrape`'s `Init`, `Cancel` and `Terminating`).
  Version gating, repeated cycles and per-scraper error recording are not:
  stated as properties they only restated their own guards, and
  `CursorsReleased` already gives that a cycle ends with no connection held,
  so the next one starts with the pool free.
- **Concurrent pulls.** Overlapping scrape cycles; the spec describes one
  cycle at a time.
- **The registry's flags.** The HTTP handler and TLS.
- **Descriptors, metric kinds and label formatting.** Static values or
  formatting only. The help texts of `memory_resource_reserved` and
  `memory_resource_used` are swapped (`ndbinfo_resources.go:44-52`), but no
  property is about text.
- **The `uint64` wrap of the resources byte counts.** `ndbinfo_resources.go`
  multiplies pages by 32768 in `uint64`, which wraps only above 2^49 pages,
  far beyond any data node; `ExactBelowWrap` proves the values exact below
  2^38 pages.
