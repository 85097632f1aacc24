-------------------------- MODULE ScrapePool_proofs --------------------------
(***************************************************************************)
(* Proof that the scrapers' use of the connection pool (module Scrape)     *)
(* implements the abstract discipline of module ConnPool, for every set of *)
(* scrapers, every shape of their queries and every pool size.             *)
(*                                                                         *)
(* Under the refinement mapping the checkouts are the open Rows, as        *)
(* <<scraper, query>>, and a scraper has returned when its pc is "done".   *)
(* QueryContext that opens Rows is Acquire, Next returning false before a  *)
(* further query is Release, every return path is Return, and every other *)
(* step (a row read, cancellation) leaves the abstract state alone.        *)
(*                                                                         *)
(* Acquire's guard that the scraper holds no checkout is where the proof   *)
(* needs more than the code's own guards: it rests on IInv (Rows are open  *)
(* only for the query a scraper is iterating, so a scraper at QueryContext *)
(* holds none), and Release on FetchHolds (a scraper in its row loop has   *)
(* the Rows of its query open).                                            *)
(***************************************************************************)
EXTENDS Scrape_proofs

\* The scrapers that have returned.
Returned == {p \in Procs : pc[p] = "done"}

\* A scraper in its row loop holds the Rows of the query it is at.
FetchHolds == \A p \in Procs : pc[p] = "fetch" => <<p, qi[p]>> \in open

\* The invariant the refinement rests on.
RInv == IInv /\ FetchHolds

-----------------------------------------------------------------------------
(* Facts about the open Rows.                                              *)

\* The only open Rows of a scraper are those of the query it is iterating.
LEMMA OwnRows ==
  ASSUME IInv, NEW p \in Procs, NEW c \in open, c[1] = p
  PROVE  c = <<p, qi[p]>> /\ pc[p] = "fetch"
<1>1. c \in Procs \X Nat
  BY DEF IInv, TypeOK
<1>2. pc[p] = "fetch" /\ c[2] = qi[p]
  BY DEF IInv, ConnHeldOnlyWhileIterating
<1>. QED
  BY <1>1, <1>2

\* The deferred Close calls of p remove exactly the Rows p is iterating.
LEMMA ReleaseAllIsRemove ==
  ASSUME IInv, NEW p \in Procs
  PROVE  {c \in open : c[1] # p} = open \ {<<p, qi[p]>>}
BY OwnRows

\* The query a scraper is at is one a connection may be checked out for.
LEMMA QueryIsTag ==
  ASSUME TypeOK, NEW p \in Procs
  PROVE  qi[p] \in QueryTags
<1>1. DOMAIN Job[p] = 1 .. Len(Job[p])
  BY JobFacts
<1>. QED
  BY <1>1 DEF TypeOK, QueryTags

-----------------------------------------------------------------------------
(* RInv is an invariant.                                                   *)

\* Initially no scraper is in its row loop.
LEMMA InitRInv == Init => RInv
BY InitIInv DEF Init, RInv, FetchHolds

\* Every step keeps a scraper in its row loop holding its Rows: only
\* QueryContext enters the loop, and it opens the Rows; every other step
\* of p leaves the loop or keeps pc, qi and p's Rows; the other scrapers'
\* state is untouched.
LEMMA NextRInv == RInv /\ [Next]_vars => RInv'
<1> SUFFICES ASSUME RInv, [Next]_vars PROVE RInv'
  OBVIOUS
<1>1. IInv'
  BY NextIInv DEF RInv
<1>2. FetchHolds'
  <2> SUFFICES ASSUME NEW q \in Procs, pc'[q] = "fetch"
               PROVE  <<q, qi'[q]>> \in open'
    BY DEF FetchHolds
  <2>1. CASE \E p \in Procs : Step(p)
    <3>1. PICK p \in Procs : Step(p)
      BY <2>1
    <3>2. CASE p = q
      \* pc'[p] = "fetch" leaves only QueryContext opening Rows, or a row
      \* read that returns nothing.
      <4>1. CASE Query(p)
        <5>1. qi' = qi
          BY <4>1 DEF Query
        <5>2. pc'[p] = "fetch" => open' = open \cup {<<p, qi[p]>>}
          BY <4>1 DEF Query, Return, RInv, IInv, TypeOK
        <5>. QED
          BY <3>2, <5>1, <5>2
      <4>2. CASE Fetch(p)
        <5>1. qi' = qi /\ pc[p] = "fetch"
          BY <4>2 DEF Fetch
        <5>2. pc'[p] = "fetch" => open' = open
          BY <4>2 DEF Fetch, Return, RInv, IInv, TypeOK
        <5>. QED
          BY <3>2, <5>1, <5>2 DEF RInv, FetchHolds
      <4>3. CASE EndRows(p)
        BY <3>2, <4>3 DEF EndRows, Return, RInv, IInv, TypeOK
      <4>. QED
        BY <3>1, <4>1, <4>2, <4>3 DEF Step
    <3>3. CASE p # q
      <4>1. pc'[q] = pc[q] /\ qi'[q] = qi[q]
        BY <3>1, <3>3 DEF Step, Query, Fetch, EndRows, Return, RInv, IInv, TypeOK
      <4>2. <<q, qi[q]>> \in open
        BY <4>1 DEF RInv, FetchHolds
      <4>3. <<q, qi[q]>> # <<p, qi[p]>> /\ <<q, qi[q]>>[1] # p
        BY <3>3
      <4>4. ~ ( <<q, qi[q]>> \in open /\ <<q, qi[q]>> \notin open' )
        BY <3>1, <4>3 DEF Step, Query, Fetch, EndRows, ReleaseAll
      <4>. QED
        BY <4>1, <4>2, <4>4
    <3>. QED
      BY <3>2, <3>3
  <2>2. CASE Cancel \/ Terminating \/ UNCHANGED vars
    BY <2>2 DEF Cancel, Terminating, vars, RInv, FetchHolds
  <2>. QED
    BY <2>1, <2>2 DEF Next
<1>. QED
  BY <1>1, <1>2 DEF RInv

-----------------------------------------------------------------------------
(* Every step maps to a step of ConnPool or to a stutter.                  *)

\* A return path of p whose deferred Close calls leave only the other
\* scrapers' Rows open is Return(p).
LEMMA ReturnRefines ==
  ASSUME RInv, NEW p \in Procs, pc[p] # "done",
         pc' = [pc EXCEPT ![p] = "done"],
         open' = {c \in open : c[1] # p}
  PROVE  Pool!Return(p)
<1>1. open' = open \ Pool!HeldBy(p)
  BY DEF Pool!HeldBy
<1>2. {q \in Procs : pc'[q] = "done"} = Returned \cup {p}
  BY DEF Returned, RInv, IInv, TypeOK
<1>3. p \notin Returned
  BY DEF Returned
<1>. QED
  BY <1>1, <1>2, <1>3 DEF Pool!Return, Returned

\* QueryContext that opens Rows is Acquire(p); one that fails is Return(p).
LEMMA QueryRefines ==
  ASSUME RInv, NEW p \in Procs, Query(p)
  PROVE  Pool!Acquire(p) \/ Pool!Return(p)
<1>1. pc[p] = "query"
  BY DEF Query
<1>2. CASE /\ Cardinality(open) < PoolCap
           /\ open' = open \cup {<<p, qi[p]>>}
           /\ pc' = [pc EXCEPT ![p] = "fetch"]
  <2>1. Pool!HeldBy(p) = {}
    BY <1>1, OwnRows DEF RInv, Pool!HeldBy
  <2>2. Pool!Cardinality(open) < PoolCap
    BY <1>2 DEF Pool!Cardinality, Cardinality
  <2>3. \E t \in QueryTags : open' = open \cup {<<p, t>>}
    BY <1>2, QueryIsTag DEF RInv, IInv
  <2>4. {q \in Procs : pc'[q] = "done"} = Returned
    BY <1>1, <1>2 DEF Returned, RInv, IInv, TypeOK
  <2>5. p \notin Returned
    BY <1>1 DEF Returned
  <2>. QED
    BY <2>1, <2>2, <2>3, <2>4, <2>5 DEF Pool!Acquire, Returned
<1>3. CASE Return(p, "queryErr") /\ ReleaseAll(p)
  BY <1>1, <1>3, ReturnRefines DEF Return, ReleaseAll
<1>. QED
  BY <1>2, <1>3 DEF Query

\* Reading a row leaves the pool alone; an error return is Return(p).
LEMMA FetchRefines ==
  ASSUME RInv, NEW p \in Procs, Fetch(p)
  PROVE  Pool!Return(p) \/ UNCHANGED <<open, Returned>>
<1>1. pc[p] = "fetch"
  BY DEF Fetch
<1>2. CASE UNCHANGED <<pc, open>>
  BY <1>2 DEF Returned
<1>3. CASE Return(p, "decodeErr") /\ ReleaseAll(p)
  BY <1>1, <1>3, ReturnRefines DEF Return, ReleaseAll
<1>4. CASE Return(p, "parseErr") /\ ReleaseAll(p)
  BY <1>1, <1>4, ReturnRefines DEF Return, ReleaseAll
<1>. QED
  BY <1>2, <1>3, <1>4 DEF Fetch

\* Next returning false before a further query is Release(p); after the
\* last query, with return nil, it is Return(p).
LEMMA EndRowsRefines ==
  ASSUME RInv, NEW p \in Procs, EndRows(p)
  PROVE  Pool!Release(p) \/ Pool!Return(p)
<1>1. pc[p] = "fetch" /\ open' = open \ {<<p, qi[p]>>}
  BY DEF EndRows
<1>2. CASE pc' = [pc EXCEPT ![p] = "query"]
  <2>1. <<p, qi[p]>> \in Pool!HeldBy(p)
    BY <1>1 DEF RInv, FetchHolds, Pool!HeldBy
  <2>2. {q \in Procs : pc'[q] = "done"} = Returned
    BY <1>1, <1>2 DEF Returned, RInv, IInv, TypeOK
  <2>3. p \notin Returned
    BY <1>1 DEF Returned
  <2>. QED
    BY <1>1, <2>1, <2>2, <2>3 DEF Pool!Release, Returned
<1>3. CASE Return(p, "ok")
  <2>1. open' = {c \in open : c[1] # p}
    BY <1>1, ReleaseAllIsRemove DEF RInv
  <2>. QED
    BY <1>1, <1>3, <2>1, ReturnRefines DEF Return
<1>. QED
  BY <1>2, <1>3 DEF EndRows

\* Every step of Scrape is a step of ConnPool or leaves its state alone.
LEMMA NextRefines == RInv /\ [Next]_vars => [Pool!Next]_Pool!vars
<1> SUFFICES ASSUME RInv, [Next]_vars PROVE [Pool!Next]_Pool!vars
  OBVIOUS
<1>1. CASE \E p \in Procs : Step(p)
  <2>1. PICK p \in Procs : Step(p)
    BY <1>1
  <2>2. CASE Query(p)
    BY <2>2, QueryRefines DEF Pool!Next
  <2>3. CASE Fetch(p)
    BY <2>3, FetchRefines DEF Pool!Next, Pool!vars, Returned
  <2>4. CASE EndRows(p)
    BY <2>4, EndRowsRefines DEF Pool!Next
  <2>. QED
    BY <2>1, <2>2, <2>3, <2>4 DEF Step
<1>2. CASE Cancel \/ Terminating \/ UNCHANGED vars
  BY <1>2 DEF Cancel, Terminating, vars, Pool!vars
<1>. QED
  BY <1>1, <1>2 DEF Next

\* The scrapers use the pool as ConnPool says (run scrape_refines checks
\* it on three scrapers): a connection is taken only when the pool has one
\* free and the scraper holds none and has not returned, so a scraper with
\* two queries closes its first Rows before its second QueryContext; it is
\* given back by Next returning false or by the deferred Close of any
\* return path, and never taken after Scrape returned.
THEOREM RefinesConnPool == Spec => PoolSafe
<1>1. Init => Pool!Init
  BY DEF Init, Pool!Init
<1>2. QED
  BY <1>1, InitRInv, NextRInv, NextRefines, PTL DEF Spec, PoolSafe, Pool!SafetySpec

=============================================================================
