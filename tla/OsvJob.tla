------------------------------- MODULE OsvJob ---------------------------------
(* The vulnerability query of src/scripts/sandbox_fetch.py (_job_osv): batches,*)
(* pages and details within one budget of bytes, against what the service has. *)
(* A page is known by its token; the first page of query q is page q.          *)
EXTENDS Naturals, FiniteSets

CONSTANTS
  NQ, Page, Vuln,         \* queries 1..NQ, a subset of the pages; the ids
  None,                   \* no further page
  Batch, MaxPages, MaxDetails, ResponseCap

VARIABLES
  service,    \* what a page says: [next, ids, size], by page; and the bytes allowed
  osv,        \* where the job is: "batch", "query", "page", "details", "ok", "error"
  q, token, visited, got, results, details, left

vars == <<service, osv, q, token, visited, got, results, details, left>>

InitWith(services, budgets) ==
  /\ service \in services /\ left \in budgets
  /\ osv = "batch" /\ q = 1 /\ token = None /\ visited = {} /\ got = {}
  /\ results = [i \in 1..NQ |-> {}] /\ details = {}

Smaller(a, b) == IF a <= b THEN a ELSE b

Goto(l) == osv' = l

\* One answer within its own cap and the rest of the budget; a body is read up
\* to one byte more than that, and then it is no answer.
Answered(size, cap) ==
  /\ left > 0 /\ size <= Smaller(cap, left)
  /\ left' = left - size

\* A refused, redirected, malformed or oversized answer ends the job.
Fails ==
  /\ osv \in {"batch", "page", "details"}
  /\ Goto("error")
  /\ UNCHANGED <<service, q, token, visited, got, results, details, left>>

\* The first pages of the queries of a batch come in one answer, whose bytes are
\* counted page by page, none further than one byte over the cap.
InBatch(i) == {j \in i..NQ : j < i + Batch}
FirstPages ==
  Cardinality({b \in InBatch(q) \X (1..(ResponseCap + 1)) : b[2] <= service[b[1]].size})

PostBatch ==
  /\ osv = "batch" /\ q <= NQ
  /\ Answered(FirstPages, ResponseCap) /\ Goto("query")
  /\ UNCHANGED <<service, q, token, visited, got, results, details>>

FirstPage ==
  /\ osv = "query"
  /\ got' = service[q].ids /\ token' = service[q].next /\ visited' = {}
  /\ Goto("page")
  /\ UNCHANGED <<service, q, results, details, left>>

\* pages counts the first page, which has no token.
NextPage ==
  /\ osv = "page" /\ token # None
  /\ IF token \in visited \/ Cardinality(visited) + 1 >= MaxPages
     THEN Goto("error") /\ UNCHANGED <<visited, got, token, left>>
     ELSE /\ Answered(service[token].size, ResponseCap)
          /\ visited' = visited \cup {token}
          /\ got' = got \cup service[token].ids
          /\ token' = service[token].next
          /\ UNCHANGED osv
  /\ UNCHANGED <<service, q, results, details>>

NextQuery ==
  /\ osv = "page" /\ token = None
  /\ results' = [results EXCEPT ![q] = got]
  /\ q' = q + 1
  /\ Goto(IF q = NQ THEN "details" ELSE IF q % Batch = 0 THEN "batch" ELSE "query")
  /\ UNCHANGED <<service, token, visited, got, details, left>>

Unique == UNION {results[i] : i \in 1..NQ}

\* Each vulnerability once; the details of one are one byte of the model.
Detail ==
  /\ osv = "details"
  /\ IF Cardinality(Unique) > MaxDetails
     THEN Goto("error") /\ UNCHANGED <<details, left>>
     ELSE \/ details = Unique /\ Goto("ok") /\ UNCHANGED <<details, left>>
          \/ \E v \in Unique \ details : Answered(1, 1) /\ details' = details \cup {v} /\ UNCHANGED osv
  /\ UNCHANGED <<service, q, token, visited, got, results>>

Next == Fails \/ PostBatch \/ FirstPage \/ NextPage \/ NextQuery \/ Detail

-----------------------------------------------------------------------------
TypeOK ==
  /\ osv \in {"batch", "query", "page", "details", "ok", "error"}
  /\ q \in 1..(NQ + 1) /\ token \in Page \cup {None} /\ left \in Nat
  /\ details \subseteq Vuln

\* A set of pages that holds the next of each of its pages.
Closed(S) == \A p \in S : service[p].next \in S \cup {None}

\* All pages that follow from page i: what every such set with i in it holds.
Following(i) == {p \in Page : \A S \in SUBSET Page : i \in S /\ Closed(S) => p \in S}

\* An answer that is called complete has every id of every page of each query,
\* and the details of each of them, although the pages come one by one, in
\* batches, and with tokens that may come again (sandbox_fetch.py:450).
AnswerIsComplete ==
  osv = "ok" =>
    /\ \A i \in 1..NQ : results[i] = UNION {service[p].ids : p \in Following(i)}
    /\ details = Unique
=============================================================================
