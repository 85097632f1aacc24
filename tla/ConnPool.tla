------------------------------ MODULE ConnPool ------------------------------
(***************************************************************************)
(* What a scrape cycle promises about connections, abstractly: the         *)
(* checkout/checkin discipline of the spec ("acquire for the duration of   *)
(* one query, release immediately after the last row is consumed or on     *)
(* any error") and the Scraper contract ("must not retain the connection   *)
(* beyond its own call").  A checkout is a connection taken by a scraper   *)
(* for one of its queries.  A scraper takes one atomically when the pool   *)
(* has a connection free and it holds none, gives it back, and returns at *)
(* any time (with or without an error), giving back what it holds; it     *)
(* never takes one after returning.  Every scraper returns.               *)
(***************************************************************************)
EXTENDS Naturals, FiniteSets

CONSTANTS
  Procs,    \* the scrapers of the cycle
  Tags,     \* the queries a connection may be checked out for
  PoolCap   \* the most connections the pool opens

VARIABLES
  holding,  \* the checkouts, as <<scraper, query>>
  returned  \* the scrapers whose Scrape has returned

vars == <<holding, returned>>

\* The checkouts of scraper p.
HeldBy(p) == {h \in holding : h[1] = p}

Init ==
  /\ holding = {}
  /\ returned = {}

Acquire(p) ==
  /\ p \notin returned
  /\ HeldBy(p) = {}
  /\ Cardinality(holding) < PoolCap
  /\ \E t \in Tags : holding' = holding \cup {<<p, t>>}
  /\ UNCHANGED returned

Release(p) ==
  /\ p \notin returned
  /\ \E h \in HeldBy(p) : holding' = holding \ {h}
  /\ UNCHANGED returned

Return(p) ==
  /\ p \notin returned
  /\ returned' = returned \cup {p}
  /\ holding' = holding \ HeldBy(p)

Next == \E p \in Procs : Acquire(p) \/ Release(p) \/ Return(p)

SafetySpec == Init /\ [][Next]_vars

Spec == SafetySpec /\ \A p \in Procs : WF_vars(Return(p))

=============================================================================
