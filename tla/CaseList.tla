------------------------------ MODULE CaseList ------------------------------
(***************************************************************************)
(* The page /cases of one user: its filter and page number, the pages of   *)
(* the list that React Query has cached under ["cases", params], and the   *)
(* requests on their way, while cases come and go at the server.           *)
(*                                                                         *)
(* A case is its createdAt; the status filter stands for the search text   *)
(* as well, which resets the page in the same way.  /tutors has the same   *)
(* filter and cache and no pager.                                          *)
(***************************************************************************)
EXTENDS Integers, FiniteSets

CONSTANTS
  Cases,       \* createdAt of the cases that can be listed
  Statuses,    \* the values of CaseStatus
  Filters,     \* the choices of the filter, "" for all statuses
  PageSize,    \* the default of the query's pageSize
  MaxChanges,  \* bound: changes at the server since the page was loaded
  MaxFlights   \* bound: requests on their way at once

CaseListConstants ==
  /\ Cases \subseteq Nat /\ IsFiniteSet(Cases) /\ Cases # {}
  /\ PageSize \in Nat \ {0} /\ MaxChanges \in Nat
  /\ "" \in Filters /\ Filters \subseteq Statuses \union {""}

VARIABLES
  listed,    \* status of the cases the caller may list, "hidden" for the others
  filter,    \* status, "" for all
  page,
  cache,     \* query key -> the data cached for it
  last,      \* the key whose data was shown last: placeholderData
  failed,    \* keys without data whose last fetch failed
  flights,   \* requests on their way
  changes,   \* bounds the changes at the server
  lost,      \* ghost: filters a case has left since the page was loaded
  jumped     \* ghost: filters for which Next was clicked on another's pager

view == <<filter, page, last>>
vars == <<listed, view, cache, failed, flights, changes, lost, jumped>>

Keys    == [filter : Filters, page : 1..Cardinality(Cases)]
NotYet  == [rows |-> {}, pages |-> -1]
NoKey   == [filter |-> "", page |-> 0]
Key     == [filter |-> filter, page |-> page]

(* The where clause, by createdAt descending, and one page of it. *)
Matching(f) == {c \in Cases : listed[c] \in (IF f = "" THEN Statuses ELSE {f})}
Place(c, S) == Cardinality({d \in S : d >= c})
PageOf(k)   ==
  LET S == Matching(k.filter)
  IN  {c \in S : Place(c, S) \in (k.page - 1) * PageSize + 1 .. k.page * PageSize}
TotalPages(n) == (n + PageSize - 1) \div PageSize

Sent(k)     == [key |-> k, total |-> -1]
Fetching(k) == \E r \in flights : r.key = k

(* What the page shows: the data of its key; before it arrives the data     *)
(* shown last, unless the fetch failed.                                     *)
Shown ==
  IF cache[Key] # NotYet \/ Key \in failed \/ last = NoKey THEN cache[Key]
  ELSE cache[last]

Init ==
  /\ listed \in [Cases -> Statuses \union {"hidden"}]
  /\ filter = "" /\ page = 1 /\ last = NoKey
  /\ cache = [k \in Keys |-> NotYet] /\ failed = {}
  /\ flights = {Sent(Key)}
  /\ changes = 0 /\ lost = {} /\ jumped = {}

-----------------------------------------------------------------------------
(* The observer moves to another key: it fetches what is not cached, and    *)
(* what is cached but older than staleTime.                                 *)
Observe(k) ==
  /\ filter' = k.filter /\ page' = k.page
  /\ last' = IF cache[k] # NotYet THEN k ELSE last
  /\ \/ Fetching(k) /\ UNCHANGED <<flights, failed>>
     \/ ~Fetching(k) /\ flights' = flights \union {Sent(k)} /\ failed' = failed \ {k}
     \/ cache[k] # NotYet /\ UNCHANGED <<flights, failed>>
  /\ UNCHANGED <<listed, cache, changes, lost>>

(* A bug the properties must notice: the page number is kept. *)
SetFilterKeepsPage(f) ==
  /\ f # filter
  /\ Observe([filter |-> f, page |-> page])
  /\ UNCHANGED jumped

SetFilter(f) ==
  /\ f # filter
  /\ Observe([filter |-> f, page |-> 1])
  /\ UNCHANGED jumped

(* The pager is there when there is more than one page. *)
NextPage ==
  /\ Shown.pages > 1 /\ page < Shown.pages
  /\ Observe([filter |-> filter, page |-> page + 1])
  /\ jumped' = IF cache[Key] = NotYet /\ last.filter # filter
               THEN jumped \union {filter} ELSE jumped

PreviousPage ==
  /\ Shown.pages > 1 /\ page > 1
  /\ Observe([filter |-> filter, page |-> page - 1])
  /\ UNCHANGED jumped

(* Stale data is fetched again on focus or reconnect, a failed fetch by     *)
(* Retry.                                                                   *)
Refetch ==
  /\ ~Fetching(Key)
  /\ flights' = flights \union {Sent(Key)}
  /\ failed' = failed \ {Key}
  /\ UNCHANGED <<listed, view, cache, changes, lost, jumped>>

(* The two statements of the transaction in list read one after the other.  *)
Count(r) ==
  /\ r.total = -1
  /\ flights' = (flights \ {r}) \union
                {[r EXCEPT !.total = Cardinality(Matching(r.key.filter))]}
  /\ UNCHANGED <<listed, view, cache, failed, changes, lost, jumped>>

(* The page is read and its answer is cached, whoever looks at it now. *)
Find(r) ==
  /\ r.total >= 0
  /\ cache' = [cache EXCEPT ![r.key] = [rows |-> PageOf(r.key), pages |-> TotalPages(r.total)]]
  /\ last' = IF r.key = Key THEN Key ELSE last
  /\ flights' = flights \ {r}
  /\ UNCHANGED <<listed, filter, page, failed, changes, lost, jumped>>

Fail(r) ==
  /\ flights' = flights \ {r}
  /\ failed' = IF cache[r.key] = NotYet THEN failed \union {r.key} ELSE failed
  /\ UNCHANGED <<listed, view, cache, changes, lost, jumped>>

(* Someone creates, changes, matches or closes a case, invites or revokes. *)
Change(c, s) ==
  /\ changes < MaxChanges /\ s # listed[c]
  /\ listed' = [listed EXCEPT ![c] = s]
  /\ changes' = changes + 1
  /\ lost' = lost \union {f \in Filters : ~Matching(f) \subseteq Matching(f)'}
  /\ UNCHANGED <<view, cache, failed, flights, jumped>>

Next ==
  \/ \E f \in Filters : SetFilter(f)
  \/ NextPage
  \/ PreviousPage
  \/ Refetch
  \/ \E r \in flights : Count(r) \/ Find(r) \/ Fail(r)
  \/ \E c \in Cases, s \in Statuses \union {"hidden"} : Change(c, s)

ListSpec == Init /\ [][Next]_vars

Bound == Cardinality(flights) <= MaxFlights

-----------------------------------------------------------------------------
Data == [rows : SUBSET Cases, pages : Nat] \union {NotYet}

CaseListTypeOK ==
  /\ listed \in [Cases -> Statuses \union {"hidden"}]
  /\ Key \in Keys /\ last \in Keys \union {NoKey}
  /\ last # NoKey => cache[last] # NotYet
  /\ cache \in [Keys -> Data]
  /\ failed \subseteq {k \in Keys : cache[k] = NotYet}
  /\ flights \subseteq [key : Keys, total : Int]
  /\ lost \subseteq Filters /\ jumped \subseteq Filters /\ changes \in 0..MaxChanges

(* EmptyPageIsFirst: "No cases found" is said of a page behind the last one *)
(* only when cases have left the filter meanwhile, or when Next was clicked *)
(* while the pager still was that of another filter.  The pager, setPage(1) *)
(* on every change of the filter, the cached pages of other moments and the *)
(* count read before the rows have to agree for that.                       *)
EmptyPageIsFirst ==
  cache[Key] # NotYet /\ cache[Key].rows = {} /\ filter \notin lost \union jumped
    => page = 1

=============================================================================
