---------------------------- MODULE LegacyTables ----------------------------
(***************************************************************************)
(* The tables of the first-generation frontend.  A table keeps its page,    *)
(* page size, search and filters in the address of the page (useTableState),  *)
(* each under a name with the table's prefix, so that two tables of a page    *)
(* share one address and every change is an entry of the browser's history.   *)
(*                                                                         *)
(* The lists only grow.  A row matches every search and filter or none; what  *)
(* a table is sorted by is left out, though sorting goes back to page one.    *)
(***************************************************************************)
EXTENDS ClientBase

CONSTANTS
    PageSizes,     \* rows per page one can choose
    LastRow,       \* bound on the rows of a list
    HistoryLength  \* bound on the history entries kept

ASSUME LegacyTablesConstants ==
    PageSizes \subseteq Nat \ {0} /\ PageSizes # {} /\ LastRow \in Nat /\ HistoryLength \in Nat

VARIABLES
    tablePage,  \* the page whose tables these are
    address,    \* the parameters, under the prefix of their table
    entries,    \* the addresses Back goes to
    rowsOf,     \* server: the rows of each list, and those that match
    counted     \* the page count each table shows; Nothing while its read is pending

tableVars == <<tablePage, address, entries, rowsOf, counted>>

\* Where each table is, what it can be filtered by and the prefix of its parameters.
JobsTable == [at |-> "/jobs", filters |-> {"status", "kind", "force"}, prefix |-> ""]
UsersTable == [at |-> "/admin/users", filters |-> {"role", "is_active"}, prefix |-> ""]
CredentialsTable == [at |-> "/admin/credentials", filters |-> {"is_active"}, prefix |-> ""]
ProfilesTable == [at |-> "/admin/profiles", filters |-> {"is_active"}, prefix |-> ""]
AuditTable == [at |-> "/admin/audit", filters |-> {"action", "target_type"}, prefix |-> ""]
SwitchesTable == [at |-> "/admin/imports", filters |-> {"is_enabled", "is_validated"}, prefix |-> "switch_"]
BatchesTable == [at |-> "/admin/imports", filters |-> {"status"}, prefix |-> "import_"]

AllTables == {JobsTable, UsersTable, CredentialsTable, ProfilesTable, AuditTable, SwitchesTable, BatchesTable}
PagesWithTables == {{t \in AllTables : t.at = u.at} : u \in AllTables}
AllFilters == UNION {t.filters : t \in AllTables}

keyWithoutPrefix(t) == ""
key(t) == t.prefix
Keys == {key(t) : t \in tablePage}
Params == [page : 1..LastRow + 1, pageSize : PageSizes, search : BOOLEAN, filters : SUBSET AllFilters]

LegacyTablesTypeOK ==
    /\ tablePage \in PagesWithTables
    /\ address \in [Keys -> Params] /\ entries \in Seq([Keys -> Params])
    /\ rowsOf \in [tablePage -> [all : 0..LastRow, matching : 0..LastRow]]
    /\ counted \in [tablePage -> Maybe(0..LastRow)]

SmallestSize == CHOOSE n \in PageSizes : \A m \in PageSizes : n <= m
DefaultParams == [page |-> 1, pageSize |-> SmallestSize, search |-> FALSE, filters |-> {}]

\* The page as its link in the menu opens it.
LegacyTablesInit(some) ==
    /\ tablePage \in some
    /\ address = [k \in Keys |-> DefaultParams] /\ entries = <<>>
    /\ rowsOf = [t \in tablePage |-> [all |-> 0, matching |-> 0]]
    /\ counted = [t \in tablePage |-> Nothing]

-----------------------------------------------------------------------------
(* The lists and their reads. *)

RowAdded(t) ==
    /\ rowsOf[t].all < LastRow
    /\ \E m \in 0..1 : rowsOf' = [rowsOf EXCEPT ![t] = [all |-> @.all + 1, matching |-> @.matching + m]]
    /\ UNCHANGED <<tablePage, address, entries, counted>>

\* What the list's request asks for: its table's parameters.
Asks(t) == address[key(t)]
page_count(t, params) ==
    LET total == IF params.search \/ params.filters # {} THEN rowsOf[t].matching ELSE rowsOf[t].all
    IN  (total + params.pageSize - 1) \div params.pageSize

\* The answer, or the one cached for the same parameters while the list was
\* shorter; every answer is for the parameters of now.
RowsArrive(t) ==
    /\ \E n \in 0..page_count(t, Asks(t)) : counted' = [counted EXCEPT ![t] = n]
    /\ UNCHANGED <<tablePage, address, entries, rowsOf>>

-----------------------------------------------------------------------------
(* useTableState. *)

\* A new entry of the history; a table whose parameters changed is read afresh.
Goes(to) ==
    /\ address' = to
    /\ counted' = [t \in tablePage |-> IF to[key(t)] = Asks(t) THEN counted[t] ELSE Nothing]
    /\ UNCHANGED <<tablePage, rowsOf>>

\* setSearchParams: the parameters with t's prefix change, all others stay.
update(t, params, resetPage) ==
    /\ Goes([address EXCEPT ![key(t)] = IF resetPage THEN [params EXCEPT !.page = 1] ELSE params])
    /\ LET longer == Append(entries, address)
       IN  entries' = SubSeq(longer, IF Len(longer) > HistoryLength THEN 2 ELSE 1, Len(longer))

\* TablePagination: the buttons appear with the rows.
setPage(t) ==
    /\ counted[t] # Nothing
    /\ \E p \in {Asks(t).page - 1, Asks(t).page + 1} :
          /\ p < Asks(t).page => Asks(t).page > 1
          /\ p > Asks(t).page => Asks(t).page < counted[t]
          /\ update(t, [Asks(t) EXCEPT !.page = p], FALSE)

setPageSize(t) ==
    /\ counted[t] # Nothing
    /\ \E n \in PageSizes \ {Asks(t).pageSize} : update(t, [Asks(t) EXCEPT !.pageSize = n], TRUE)

setSearch(t) == update(t, [Asks(t) EXCEPT !.search = ~@], TRUE)

setFilter(t) ==
    \E f \in t.filters :
        update(t, [Asks(t) EXCEPT !.filters = IF f \in @ THEN @ \ {f} ELSE @ \union {f}], TRUE)

toggleSort(t) == Asks(t).page > 1 /\ update(t, Asks(t), TRUE)

BrowserBack ==
    /\ entries # <<>>
    /\ Goes(entries[Len(entries)])
    /\ entries' = SubSeq(entries, 1, Len(entries) - 1)

LegacyTablesNext ==
    \/ \E t \in tablePage : \/ RowAdded(t) \/ RowsArrive(t) \/ setPage(t) \/ setPageSize(t)
                            \/ setSearch(t) \/ setFilter(t) \/ toggleSort(t)
    \/ BrowserBack

-----------------------------------------------------------------------------
\* However a table was searched, filtered, resized, paged and gone back to, and
\* whatever was done to the other table of the address, the page asked for is
\* one its list has: no operator is left on an empty page of a list with rows.
PageExists ==
    \A t \in tablePage : Asks(t).page = 1 \/ Asks(t).page <= page_count(t, Asks(t))
=============================================================================
