---------------------------- MODULE Scrape_proofs ----------------------------
(***************************************************************************)
(* Proofs about module Scrape, for every set of scrapers, every shape of   *)
(* their queries, every pool size and every bound on the rows.             *)
(***************************************************************************)
EXTENDS Scrape, SequenceTheorems, TLAPS

USE PoolCapAssumption, MaxRowsAssumption

-----------------------------------------------------------------------------
(* Type correctness.                                                       *)

\* Every scraper runs at least one query, each of the shape of a query.
LEMMA JobFacts ==
  ASSUME NEW p \in Procs
  PROVE  /\ Job[p] \in Seq(QueryShape)
         /\ Len(Job[p]) \in Nat \ {0}
  BY JobAssumption, EmptySeq

\* The query a running scraper is at has the shape of a query, and the
\* slots of its rows are numbered from 1.
LEMMA CurShape ==
  ASSUME TypeOK, NEW p \in Procs
  PROVE  /\ Cur(p) \in QueryShape
         /\ DOMAIN Cur(p).slots \subseteq Nat
<1>1. Cur(p) \in QueryShape
  BY JobFacts, ElementOfSeq DEF TypeOK, Cur
<1>2. Cur(p).slots \in Seq(Slot)
  BY <1>1 DEF QueryShape
<1>3. QED
  BY <1>1, <1>2, LenProperties

\* The initial state is well typed.
LEMMA InitTypeOK == Init => TypeOK
<1> SUFFICES ASSUME Init PROVE TypeOK
  OBVIOUS
<1>1. pc \in [Procs -> {"query", "fetch", "done"}]
  BY DEF Init
<1>2. qi \in [Procs -> Nat] /\ \A p \in Procs : qi[p] \in 1 .. Len(Job[p])
  BY JobFacts DEF Init
<1>3. row \in [Procs -> 0 .. MaxRows]
  BY DEF Init
<1>4. open \subseteq Procs \X Nat
  BY DEF Init
<1>5. out \in [Procs -> SUBSET Sample]
  BY DEF Init
<1>6. result \in [Procs -> Results]
  BY DEF Init, Results
<1>7. rowsErr \in [Procs -> BOOLEAN] /\ ctxDone \in BOOLEAN
  BY DEF Init
<1>8. QED
  BY <1>1, <1>2, <1>3, <1>4, <1>5, <1>6, <1>7 DEF TypeOK

\* The deferred Close calls leave only Rows of the other scrapers open.
LEMMA ReleaseAllType ==
  ASSUME TypeOK, NEW p \in Procs, ReleaseAll(p)
  PROVE  open' \subseteq Procs \X Nat
  BY DEF ReleaseAll, TypeOK

\* Scrape returning keeps pc and result typed.
LEMMA ReturnType ==
  ASSUME TypeOK, NEW p \in Procs, NEW r \in Results, Return(p, r)
  PROVE  /\ pc' \in [Procs -> {"query", "fetch", "done"}]
         /\ result' \in [Procs -> Results]
  BY DEF Return, TypeOK

\* QueryContext, on each of its outcomes, keeps the state well typed.
LEMMA QueryTypeOK ==
  ASSUME TypeOK, NEW p \in Procs, Query(p)
  PROVE  TypeOK'
<1>1. UNCHANGED <<qi, out, rowsErr, ctxDone>>
  BY DEF Query
<1>2. CASE ctxDone /\ Return(p, "queryErr") /\ ReleaseAll(p) /\ UNCHANGED row
  <2>1. "queryErr" \in Results
    BY DEF Results
  <2>2. QED
    BY <1>1, <1>2, <2>1, ReturnType, ReleaseAllType DEF TypeOK
<1>3. CASE /\ open' = open \cup {<<p, qi[p]>>}
           /\ pc' = [pc EXCEPT ![p] = "fetch"]
           /\ row' = [row EXCEPT ![p] = 0]
           /\ UNCHANGED result
  <2>1. open' \subseteq Procs \X Nat
    BY <1>3 DEF TypeOK
  <2>2. pc' \in [Procs -> {"query", "fetch", "done"}]
    BY <1>3 DEF TypeOK
  <2>3. row' \in [Procs -> 0 .. MaxRows]
    BY <1>3 DEF TypeOK
  <2>4. QED
    BY <1>1, <1>3, <2>1, <2>2, <2>3 DEF TypeOK
<1>4. CASE Return(p, "queryErr") /\ ReleaseAll(p) /\ UNCHANGED row
  <2>1. "queryErr" \in Results
    BY DEF Results
  <2>2. QED
    BY <1>1, <1>4, <2>1, ReturnType, ReleaseAllType DEF TypeOK
<1>5. QED
  BY <1>2, <1>3, <1>4 DEF Query

\* A row read, decoded and sent keeps the state well typed.
LEMMA FetchTypeOK ==
  ASSUME TypeOK, NEW p \in Procs, Fetch(p)
  PROVE  TypeOK'
<1>1. DOMAIN Cur(p).slots \subseteq Nat
  BY CurShape
<1>2. row' \in [Procs -> 0 .. MaxRows]
  BY DEF Fetch, TypeOK
<1>3. UNCHANGED <<qi, rowsErr, ctxDone>>
  BY DEF Fetch
<1>4. "decodeErr" \in Results /\ "parseErr" \in Results
  BY DEF Results
<1>5. CASE Return(p, "decodeErr") /\ ReleaseAll(p) /\ UNCHANGED out
  BY <1>2, <1>3, <1>4, <1>5, ReturnType, ReleaseAllType DEF TypeOK
<1>6. ASSUME NEW valid, NEW bad,
             out' = [out EXCEPT ![p] = @ \cup
                       {<<qi[p], row[p] + 1, i>> : i \in Emitted(p, valid, bad)}],
             \/ UNCHANGED <<pc, result, open>>
             \/ Return(p, "parseErr") /\ ReleaseAll(p)
      PROVE  TypeOK'
  <2>1. Emitted(p, valid, bad) \subseteq Nat
    BY <1>1 DEF Emitted
  <2>2. qi[p] \in Nat /\ row[p] + 1 \in Nat
    BY DEF TypeOK
  <2>3. out' \in [Procs -> SUBSET Sample]
    BY <1>6, <2>1, <2>2 DEF TypeOK, Sample
  <2>4. /\ pc' \in [Procs -> {"query", "fetch", "done"}]
        /\ result' \in [Procs -> Results]
        /\ open' \subseteq Procs \X Nat
    BY <1>4, <1>6, ReturnType, ReleaseAllType DEF TypeOK
  <2>5. QED
    BY <1>2, <1>3, <2>3, <2>4 DEF TypeOK
<1>7. QED
  BY <1>5, <1>6 DEF Fetch

\* The end of a result set keeps the state well typed.
LEMMA EndRowsTypeOK ==
  ASSUME TypeOK, NEW p \in Procs, EndRows(p)
  PROVE  TypeOK'
<1>1. UNCHANGED <<row, out, ctxDone>>
  BY DEF EndRows
<1>2. rowsErr' \in [Procs -> BOOLEAN]
  BY DEF EndRows, TypeOK
<1>3. open' \subseteq Procs \X Nat
  BY DEF EndRows, TypeOK
<1>4. CASE /\ qi[p] < Len(Job[p])
           /\ qi' = [qi EXCEPT ![p] = @ + 1]
           /\ pc' = [pc EXCEPT ![p] = "query"]
           /\ UNCHANGED result
  <2>1. qi' \in [Procs -> Nat]
    BY <1>4 DEF TypeOK
  <2>2. \A q \in Procs : qi'[q] \in 1 .. Len(Job[q])
    BY <1>4, JobFacts DEF TypeOK
  <2>3. pc' \in [Procs -> {"query", "fetch", "done"}]
    BY <1>4 DEF TypeOK
  <2>4. QED
    BY <1>1, <1>2, <1>3, <1>4, <2>1, <2>2, <2>3 DEF TypeOK
<1>5. CASE Return(p, "ok") /\ UNCHANGED qi
  <2>1. "ok" \in Results
    BY DEF Results
  <2>2. QED
    BY <1>1, <1>2, <1>3, <1>5, <2>1, ReturnType DEF TypeOK
<1>6. QED
  BY <1>4, <1>5 DEF EndRows

\* Every step keeps the state well typed.
LEMMA NextTypeOK == TypeOK /\ [Next]_vars => TypeOK'
<1> SUFFICES ASSUME TypeOK, [Next]_vars PROVE TypeOK'
  OBVIOUS
<1>1. CASE \E p \in Procs : Step(p)
  BY <1>1, QueryTypeOK, FetchTypeOK, EndRowsTypeOK DEF Step
<1>2. CASE Cancel
  BY <1>2 DEF Cancel, TypeOK
<1>3. CASE Terminating \/ UNCHANGED vars
  BY <1>3 DEF Terminating, vars, TypeOK
<1>4. QED
  BY <1>1, <1>2, <1>3 DEF Next

\* Every state of every behaviour of Scrape is well typed.
THEOREM TypeCorrect == Spec => []TypeOK
  BY InitTypeOK, NextTypeOK, PTL DEF Spec

-----------------------------------------------------------------------------
(* Connections are released on every exit path.                           *)

\* The inductive invariant: typing, and a connection is held only by the
\* Rows of the query its scraper is iterating.
IInv == TypeOK /\ ConnHeldOnlyWhileIterating

\* No connection is held initially.
LEMMA InitIInv == Init => IInv
  BY InitTypeOK DEF Init, IInv, ConnHeldOnlyWhileIterating

\* QueryContext opens Rows only for the query the scraper is then at.
LEMMA QueryConnHeld ==
  ASSUME IInv, NEW p \in Procs, Query(p)
  PROVE  ConnHeldOnlyWhileIterating'
  BY DEF Query, Return, ReleaseAll, IInv, TypeOK, ConnHeldOnlyWhileIterating

\* Reading a row keeps the Rows; an error return releases them all.
LEMMA FetchConnHeld ==
  ASSUME IInv, NEW p \in Procs, Fetch(p)
  PROVE  ConnHeldOnlyWhileIterating'
<1>1. CASE UNCHANGED <<pc, open>>
  BY <1>1 DEF Fetch, IInv, TypeOK, ConnHeldOnlyWhileIterating
<1>2. CASE pc' = [pc EXCEPT ![p] = "done"] /\ ReleaseAll(p)
  BY <1>2 DEF Fetch, ReleaseAll, IInv, TypeOK, ConnHeldOnlyWhileIterating
<1>3. QED
  BY <1>1, <1>2 DEF Fetch, Return

\* Next returning false closes the Rows before the scraper moves on.
LEMMA EndRowsConnHeld ==
  ASSUME IInv, NEW p \in Procs, EndRows(p)
  PROVE  ConnHeldOnlyWhileIterating'
<1> SUFFICES ASSUME NEW c \in open'
             PROVE  pc'[c[1]] = "fetch" /\ c[2] = qi'[c[1]]
  BY DEF ConnHeldOnlyWhileIterating
<1>1. c \in open /\ c # <<p, qi[p]>>
  BY DEF EndRows
<1>2. pc[c[1]] = "fetch" /\ c[2] = qi[c[1]] /\ c[1] \in Procs
  BY <1>1 DEF IInv, ConnHeldOnlyWhileIterating, TypeOK
<1>3. c[1] # p
  BY <1>1, <1>2 DEF IInv, TypeOK
<1>4. QED
  BY <1>2, <1>3 DEF EndRows, Return, IInv, TypeOK

\* Every step preserves the inductive invariant.
LEMMA NextIInv == IInv /\ [Next]_vars => IInv'
<1> SUFFICES ASSUME IInv, [Next]_vars PROVE IInv'
  OBVIOUS
<1>1. TypeOK'
  BY NextTypeOK DEF IInv
<1>2. CASE \E p \in Procs : Step(p)
  <2>1. PICK p \in Procs : Step(p)
    BY <1>2
  <2>2. ConnHeldOnlyWhileIterating'
    BY <2>1, QueryConnHeld, FetchConnHeld, EndRowsConnHeld DEF Step
  <2>3. QED
    BY <1>1, <2>2 DEF IInv
<1>3. CASE Cancel
  BY <1>1, <1>3 DEF Cancel, IInv, ConnHeldOnlyWhileIterating
<1>4. CASE Terminating \/ UNCHANGED vars
  BY <1>1, <1>4 DEF Terminating, vars, IInv, ConnHeldOnlyWhileIterating
<1>5. QED
  BY <1>1, <1>2, <1>3, <1>4 DEF Next, IInv

\* A scraper that has returned holds no connection of the pool, whatever
\* path it returned by (ok, or a query, Scan or ParseFloat error).
THEOREM CursorsReleasedInvariant == Spec => []CursorsReleased
<1>1. IInv => CursorsReleased
  BY DEF IInv, ConnHeldOnlyWhileIterating, CursorsReleased
<1>2. QED
  BY InitIInv, NextIInv, <1>1, PTL DEF Spec

\* No scraper ever holds two connections at once, so a scraper with two
\* queries cannot wait on itself for a connection.
THEOREM OneConnPerScraper ==
  Spec => [](\A c, d \in open : c[1] = d[1] => c = d)
<1>1. IInv => \A c, d \in open : c[1] = d[1] => c = d
  <2> SUFFICES ASSUME IInv, NEW c \in open, NEW d \in open, c[1] = d[1]
               PROVE  c = d
    OBVIOUS
  <2>1. c[2] = d[2]
    BY DEF IInv, ConnHeldOnlyWhileIterating
  <2>2. c \in Procs \X Nat /\ d \in Procs \X Nat
    BY DEF IInv, TypeOK
  <2>3. QED
    BY <2>1, <2>2
<1>2. QED
  BY InitIInv, NextIInv, <1>1, PTL DEF Spec

=============================================================================
