----------------------------- MODULE LedgerPages ------------------------------
(***************************************************************************)
(* A client that reads the ledger page by page (api/mod.rs                 *)
(* contract_transfers and token_path, ledger_repository.rs                 *)
(* ledger_page_conn) while workers ingest, orphan and replay.  A page is   *)
(* one query, and the client comes back with the next_cursor it was given; *)
(* the server keeps nothing between two pages.                             *)
(***************************************************************************)
EXTENDS Ledger

CONSTANT Queries   \* what clients ask for: members of QuerySet

\* A holder and a token_id filter pick one account; NoAccount is no filter.
QuerySet == [sort : {"asc", "desc"}, limit : Int, from : Int, to : Int,
             account : Accounts \cup {NoAccount}]

ASSUME PagesAssumption == Queries \subseteq QuerySet

VARIABLES
  query,    \* the client's query
  position, \* the cursor it holds, as a set of at most one position
  reading,  \* "new" before the first page, "more" between pages, "ended"
  given,    \* how often each row was returned to it
  steady    \* history: the rows that match the query and have been live, at one
            \* position of their own, since the first page

pageVars == <<query, position, reading, given, steady>>

PgInit ==
  /\ query \in Queries
  /\ position = {}
  /\ reading \in {"new", "ended"}
  /\ given = <<>>
  /\ steady = {}

-----------------------------------------------------------------------------

\* limit_or_default and to_ledger_query: anything else is a bad request.
ValidQuery(q) == q.limit \in 1..100 /\ q.from \in Nat /\ q.to \in Nat /\ q.from <= q.to

\* The columns a cursor names.  encode_cursor and parse_cursor keep all three.
PositionOf(rows, k) == <<rows[k].block, k[1].log, k[2]>>

Less(p, q) == \/ p[1] < q[1]
              \/ p[1] = q[1] /\ p[2] < q[2]
              \/ p[1] = q[1] /\ p[2] = q[2] /\ p[3] < q[3]

\* In the order of the query, q comes after p.
Beyond(sort, p, q) == IF sort = "asc" THEN Less(p, q) ELSE Less(q, p)

AfterCursorInclusive(p, q) ==           \* mutant: the cursor's own row again
  p = q \/ Beyond(query.sort, p, q)

\* The filter for a cursor at p.
AfterCursor(p, q) == Beyond(query.sort, p, q)

\* The live rows the filters of query let pass (movement_type is left out).
Matching(rows) ==
  {k \in DOMAIN rows :
     /\ ~rows[k].orphaned
     /\ rows[k].block \in query.from..query.to
     /\ query.account \in {NoAccount, rows[k].from, rows[k].to}}

\* ledger_page_conn: up to limit rows beyond the cursor, first ones first; rows
\* at the same position come in any order.  A further row means a next_cursor,
\* which is the position of the last row of the page.
FetchPage ==
  LET At(k) == PositionOf(entry, k)
      ahead == {k \in Matching(entry) :
                  \A p \in position : AfterCursor(p, At(k))}
  IN /\ reading # "ended"
     /\ ValidQuery(query)
     /\ \E page \in SUBSET ahead :
          /\ Cardinality(page) = Least({query.limit, Cardinality(ahead)})
          /\ \A k \in page, m \in ahead \ page : ~Beyond(query.sort, At(m), At(k))
          /\ given' = [k \in DOMAIN given \cup page |->
                         (IF k \in DOMAIN given THEN given[k] ELSE 0)
                         + (IF k \in page THEN 1 ELSE 0)]
          /\ IF page = ahead
             THEN position' = {} /\ reading' = "ended"
             ELSE /\ position' = {At(k) : k \in {x \in page : \A m \in page :
                                                   ~Beyond(query.sort, At(x), At(m))}}
                  /\ reading' = "more"
     /\ steady' = IF reading = "new"
                  THEN {k \in Matching(entry) : \A m \in Matching(entry) \ {k} :
                                                  At(m) # At(k)}
                  ELSE steady
     /\ UNCHANGED query

\* A bad request is answered with an error.
RefuseQuery ==
  /\ reading = "new"
  /\ ~ValidQuery(query)
  /\ reading' = "ended"
  /\ UNCHANGED <<query, position, given, steady>>

\* What a step of others does to the history variable.
ReaderWaits ==
  /\ steady' = {k \in steady :
                  /\ k \in Matching(entry')
                  /\ PositionOf(entry', k) = PositionOf(entry, k)
                  /\ \A m \in Matching(entry') \ {k} :
                       PositionOf(entry', m) # PositionOf(entry', k)}
  /\ UNCHANGED <<query, position, reading, given>>

-----------------------------------------------------------------------------

\* "Cursor-paginated ledger transfers": a client that follows next_cursor to
\* the end has been given every row that was there all the time, once, however
\* many rows before and after its cursor were added, orphaned and restored
\* between its pages.  (Two live rows can share a position while a reorganised
\* block has not been replayed; the cursor cannot tell those apart.)
PagesComplete ==
  /\ reading = "ended" /\ ValidQuery(query) => steady \subseteq DOMAIN given
  /\ \A k \in steady \cap DOMAIN given : given[k] = 1
=============================================================================
