------------------------------- MODULE Scrape -------------------------------
(***************************************************************************)
(* The scrapers of one scrape cycle, each running its Scrape method in a  *)
(* goroutine of its own against one shared *sql.DB.  Every Scrape method  *)
(* of package collector has the same control:                             *)
(*                                                                         *)
(*   rows, err := db.QueryContext(ctx, query)   \* may block on the pool  *)
(*   if err != nil { return err }                                          *)
(*   defer rows.Close()                                                    *)
(*   for rows.Next() {                                                     *)
(*     if err := rows.Scan(...); err != nil { return err }                 *)
(*     ch <- ... one MustNewConstMetric per slot of the row ...            *)
(*   }                                                                     *)
(*   ... the next query, if the scraper has two ...                        *)
(*   return nil                                                            *)
(*                                                                         *)
(* rows.Err() is never consulted.  The database/sql semantics the control *)
(* relies on are part of the model: an open Rows holds one connection of  *)
(* the pool, whose size is PoolCap; QueryContext waits for a free         *)
(* connection or for ctx to be done; Next returning false closes the Rows *)
(* (releasing its connection), whether the rows ran out or the stream     *)
(* failed; cancelling ctx makes a waiting QueryContext return ctx.Err()   *)
(* and a later Next return false.  The database answers each call with    *)
(* any of its outcomes, chosen with \E.                                    *)
(***************************************************************************)
EXTENDS Naturals, FiniteSets, Sequences

CONSTANTS
  Procs,     \* the scrapers of the cycle, one goroutine each
  Job,       \* Job[p]: the queries scraper p runs, in order (see Catalog)
  PoolCap,   \* the most connections the *sql.DB opens (SetMaxOpenConns)
  MaxRows    \* the most rows a result set has in a run

Slot == [value : {"plain", "nullable", "parsed"}]
QueryShape == [cols : Nat, dest : Nat, slots : Seq(Slot)]

ASSUME JobAssumption == Job \in [Procs -> Seq(QueryShape) \ {<<>>}]
ASSUME PoolCapAssumption == PoolCap \in Nat \ {0}
ASSUME MaxRowsAssumption == MaxRows \in Nat

VARIABLES
  pc,       \* pc[p]: "query" (about to call QueryContext), "fetch" (in the
            \* rows.Next loop) or "done" (Scrape returned)
  qi,       \* qi[p]: the index in Job[p] of the query p is at
  row,      \* row[p]: the rows read so far from the current result set
  open,     \* the open Rows, as <<scraper, query index>>: each holds a conn
  out,      \* out[p]: the samples p sent on ch, as <<query, row, slot>>
  result,   \* result[p]: what Scrape returned ("none" while it runs)
  rowsErr,  \* rowsErr[p]: some rows.Next of p ended on an error (rows.Err())
  ctxDone   \* the cycle's context is cancelled (deadline or client gone)

vars == <<pc, qi, row, open, out, result, rowsErr, ctxDone>>

Results == {"none", "ok", "queryErr", "decodeErr", "parseErr"}
Sample == Nat \X Nat \X Nat

-----------------------------------------------------------------------------
(* Helpers.                                                                *)

\* The query scraper p is running.
Cur(p) == Job[p][qi[p]]

\* rows.Scan succeeds when it has one destination per column.
Decodes(p) == Cur(p).cols = Cur(p).dest

NullableSlots(p) == {i \in DOMAIN Cur(p).slots : Cur(p).slots[i].value = "nullable"}
ParsedSlots(p) == {i \in DOMAIN Cur(p).slots : Cur(p).slots[i].value = "parsed"}

\* The slots of a row that are sent when the nullable slots in valid are
\* Valid and bad is the first slot whose ParseFloat fails (0: none fails):
\* the sends before bad, skipping the nullable slots that are NULL.
Emitted(p, valid, bad) ==
  {i \in DOMAIN Cur(p).slots :
     /\ bad = 0 \/ i < bad
     /\ Cur(p).slots[i].value = "nullable" => i \in valid}

\* The deferred rows.Close() calls of p run: its Rows release their conns.
ReleaseAll(p) == open' = {c \in open : c[1] # p}

\* Scrape returns r.
Return(p, r) ==
  /\ pc' = [pc EXCEPT ![p] = "done"]
  /\ result' = [result EXCEPT ![p] = r]

-----------------------------------------------------------------------------
(* Actions.                                                                *)

Init ==
  /\ pc = [p \in Procs |-> "query"]
  /\ qi = [p \in Procs |-> 1]
  /\ row = [p \in Procs |-> 0]
  /\ open = {}
  /\ out = [p \in Procs |-> {}]
  /\ result = [p \in Procs |-> "none"]
  /\ rowsErr = [p \in Procs |-> FALSE]
  /\ ctxDone = FALSE

\* db.QueryContext(ctx, query): with ctx done it returns ctx.Err(); else it
\* waits for a free connection, and the server returns rows or an error
\* (no such table on this version, connection lost).  On an error Scrape
\* returns it and its deferred Close calls run.
Query(p) ==
  /\ pc[p] = "query"
  /\ \/ /\ ctxDone
        /\ Return(p, "queryErr")
        /\ ReleaseAll(p)
        /\ UNCHANGED row
     \/ /\ ~ctxDone
        /\ Cardinality(open) < PoolCap
        /\ open' = open \cup {<<p, qi[p]>>}
        /\ pc' = [pc EXCEPT ![p] = "fetch"]
        /\ row' = [row EXCEPT ![p] = 0]
        /\ UNCHANGED result
     \/ /\ ~ctxDone
        /\ Cardinality(open) < PoolCap
        /\ Return(p, "queryErr")
        /\ ReleaseAll(p)
        /\ UNCHANGED row
  /\ UNCHANGED <<qi, out, rowsErr, ctxDone>>

\* Variant of Fetch for mutation testing: on a ParseFloat error Scrape
\* returns without closing its Rows (an explicit Close that the error
\* path skips, in place of the defer).
FetchParseErrLeaks(p) ==
  /\ pc[p] = "fetch"
  /\ row[p] < MaxRows
  /\ row' = [row EXCEPT ![p] = @ + 1]
  /\ \/ /\ ~Decodes(p)
        /\ Return(p, "decodeErr")
        /\ ReleaseAll(p)
        /\ UNCHANGED out
     \/ /\ Decodes(p)
        /\ \E valid \in SUBSET NullableSlots(p), bad \in {0} \cup ParsedSlots(p) :
             /\ out' = [out EXCEPT ![p] = @ \cup
                          {<<qi[p], row[p] + 1, i>> : i \in Emitted(p, valid, bad)}]
             /\ IF bad = 0
                  THEN UNCHANGED <<pc, result, open>>
                  ELSE Return(p, "parseErr") /\ UNCHANGED open
  /\ UNCHANGED <<qi, rowsErr, ctxDone>>

\* rows.Next() returns true, then rows.Scan and the sends of the row.  A
\* Scan error returns at once; a ParseFloat error returns after the sends
\* of the slots before it.  After cancellation Next may still return a row
\* it already holds.
Fetch(p) ==
  /\ pc[p] = "fetch"
  /\ row[p] < MaxRows
  /\ row' = [row EXCEPT ![p] = @ + 1]
  /\ \/ /\ ~Decodes(p)
        /\ Return(p, "decodeErr")
        /\ ReleaseAll(p)
        /\ UNCHANGED out
     \/ /\ Decodes(p)
        /\ \E valid \in SUBSET NullableSlots(p), bad \in {0} \cup ParsedSlots(p) :
             /\ out' = [out EXCEPT ![p] = @ \cup
                          {<<qi[p], row[p] + 1, i>> : i \in Emitted(p, valid, bad)}]
             /\ IF bad = 0
                  THEN UNCHANGED <<pc, result, open>>
                  ELSE Return(p, "parseErr") /\ ReleaseAll(p)
  /\ UNCHANGED <<qi, rowsErr, ctxDone>>

\* Variants of EndRows for mutation testing.  EndRowsPastLast: the check
\* for a further query is off by one.  EndRowsKeepsConn: the Rows of a
\* finished loop keep their connection until the deferred Close runs at
\* return (as when a loop is left with break), so the next query of the
\* same Scrape waits for a connection its own Rows hold.
EndRowsPastLast(p) ==
  /\ pc[p] = "fetch"
  /\ \E err \in BOOLEAN : rowsErr' = [rowsErr EXCEPT ![p] = @ \/ err]
  /\ open' = open \ {<<p, qi[p]>>}
  /\ \/ /\ qi[p] <= Len(Job[p])
        /\ qi' = [qi EXCEPT ![p] = @ + 1]
        /\ pc' = [pc EXCEPT ![p] = "query"]
        /\ UNCHANGED result
     \/ /\ qi[p] = Len(Job[p])
        /\ Return(p, "ok")
        /\ UNCHANGED qi
  /\ UNCHANGED <<row, out, ctxDone>>

EndRowsKeepsConn(p) ==
  /\ pc[p] = "fetch"
  /\ \E err \in BOOLEAN : rowsErr' = [rowsErr EXCEPT ![p] = @ \/ err]
  /\ \/ /\ qi[p] < Len(Job[p])
        /\ qi' = [qi EXCEPT ![p] = @ + 1]
        /\ pc' = [pc EXCEPT ![p] = "query"]
        /\ UNCHANGED <<result, open>>
     \/ /\ qi[p] = Len(Job[p])
        /\ Return(p, "ok")
        /\ ReleaseAll(p)
        /\ UNCHANGED qi
  /\ UNCHANGED <<row, out, ctxDone>>

\* rows.Next() returns false: the rows ran out, or the stream failed
\* (connection lost, ctx cancelled) and rows.Err() holds the error.  Either
\* way Next closes the Rows, and the loop ends: on to the next query, or
\* return nil.
EndRows(p) ==
  /\ pc[p] = "fetch"
  /\ \E err \in BOOLEAN : rowsErr' = [rowsErr EXCEPT ![p] = @ \/ err]
  /\ open' = open \ {<<p, qi[p]>>}
  /\ \/ /\ qi[p] < Len(Job[p])
        /\ qi' = [qi EXCEPT ![p] = @ + 1]
        /\ pc' = [pc EXCEPT ![p] = "query"]
        /\ UNCHANGED result
     \/ /\ qi[p] = Len(Job[p])
        /\ Return(p, "ok")
        /\ UNCHANGED qi
  /\ UNCHANGED <<row, out, ctxDone>>

\* The cycle's context is cancelled: its deadline passes or the client
\* that asked for the metrics goes away.
Cancel ==
  /\ ~ctxDone
  /\ ctxDone' = TRUE
  /\ UNCHANGED <<pc, qi, row, open, out, result, rowsErr>>

\* Every Scrape has returned; the cycle is over.
Terminating ==
  /\ \A p \in Procs : pc[p] = "done"
  /\ UNCHANGED vars

Step(p) == Query(p) \/ Fetch(p) \/ EndRows(p)

Next ==
  \/ \E p \in Procs : Step(p)
  \/ Cancel
  \/ Terminating

\* The Go scheduler runs every runnable goroutine and the database answers
\* every call; nothing forces the context to be cancelled.
Fairness == \A p \in Procs : WF_vars(Step(p))

Spec == Init /\ [][Next]_vars /\ Fairness

-----------------------------------------------------------------------------
(* Properties.                                                             *)

\* The connection discipline the cycle promises (module ConnPool): a
\* connection is checked out for a query while that query's Rows is open,
\* and a scraper has returned once its Scrape has.
QueryTags == UNION {DOMAIN Job[p] : p \in Procs}
Pool == INSTANCE ConnPool WITH
          Tags <- QueryTags,
          holding <- open,
          returned <- {p \in Procs : pc[p] = "done"}

\* The scrapers' use of the pool implements ConnPool's safety part:
\* QueryContext takes a connection only when the pool has one free and the
\* scraper holds none (a scraper with two queries, as ndbinfo.resources,
\* has closed its first Rows before its second QueryContext), Next
\* returning false gives it back, and every return path (the deferred
\* Close) gives back what the scraper holds.
PoolSafe == Pool!SafetySpec

\* Every variable holds a value of its type, and every scraper is at one of
\* its own queries.
TypeOK ==
  /\ pc \in [Procs -> {"query", "fetch", "done"}]
  /\ qi \in [Procs -> Nat]
  /\ \A p \in Procs : qi[p] \in 1 .. Len(Job[p])
  /\ row \in [Procs -> 0 .. MaxRows]
  /\ open \subseteq Procs \X Nat
  /\ out \in [Procs -> SUBSET Sample]
  /\ result \in [Procs -> Results]
  /\ rowsErr \in [Procs -> BOOLEAN]
  /\ ctxDone \in BOOLEAN

\* Every exit path of Scrape releases the connections it took: a scraper
\* that has returned (ok, or on a query, Scan or ParseFloat error) holds no
\* open Rows.
CursorsReleased ==
  \A c \in open : pc[c[1]] # "done"

\* The strengthening that makes CursorsReleased inductive: a connection is
\* held only by the Rows of the query its scraper is iterating.
ConnHeldOnlyWhileIterating ==
  \A c \in open : pc[c[1]] = "fetch" /\ c[2] = qi[c[1]]

\* Every Scrape of the cycle returns without waiting on cancellation, even
\* with a single-connection pool: a scraper with two queries never waits
\* for a connection it holds itself.
AllScrapersReturn == <>(\A p \in Procs : pc[p] = "done")

\* Scrape returns nil only when it read every row of every query: a stream
\* that fails part way through is reported as an error.
OkMeansComplete ==
  \A p \in Procs : result[p] = "ok" => ~rowsErr[p]

\* Every row a scraper's own query returns is decoded by its rows.Scan.
RowsDecode ==
  \A p \in Procs : result[p] # "decodeErr"

\* Every row a scraper contributed is whole: a sample of a row is sent only
\* with every other non-nullable sample of that row, so that an error
\* (ParseFloat in ScrapeNdbinfoThreadstat.Scrape) never leaves half a row in
\* the cycle's output.
RowsWhole ==
  \A p \in Procs : \A s \in out[p] :
    \A i \in DOMAIN Job[p][s[1]].slots :
      Job[p][s[1]].slots[i].value # "nullable" => <<s[1], s[2], i>> \in out[p]

=============================================================================
