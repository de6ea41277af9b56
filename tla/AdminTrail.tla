----------------------------- MODULE AdminTrail -----------------------------
(***************************************************************************)
(* The audit page: an infinite list of events, newest first, loaded page by *)
(* page with the identifier of the last event as the cursor, while events    *)
(* keep arriving.  A repeated read fetches every loaded page again, one      *)
(* after the other, and replaces them together.                             *)
(*                                                                         *)
(* An event gets its identifier when a transaction inserts it and is seen    *)
(* when that transaction commits: events become visible in any order, and    *)
(* those of a transaction together.                                        *)
(***************************************************************************)
EXTENDS ClientBase

CONSTANTS
    Topics,     \* what the filters can ask for; every event belongs to one
    LastEvent,  \* bound on the events recorded
    PageSize    \* events of one answer

ASSUME TrailConstants == LastEvent \in Nat /\ PageSize \in Nat \ {0} /\ Nothing \notin Nat

VARIABLES
    recorded,   \* server: the topic of each event inserted, by its identifier
    writing,    \* the open transactions, each the set of events it has inserted
    committed,  \* the events of committed transactions
    wanted,     \* the filter, Nothing for every topic
    pages,      \* the pages shown, each the sequence of its events
    asOf,       \* ghost: for each page shown, the events committed when it was read
    more,       \* the cursor of the next page; Nothing at the end
    getting     \* the read in flight: [kind, upTo, pages, asOf, more], or Nothing

serverTrail == <<recorded, writing, committed>>
trailVars == <<serverTrail, wanted, pages, asOf, more, getting>>

Events == 1..LastEvent
Page == UNION {[1..n -> Events] : n \in 0..PageSize}

TrailTypeOK ==
    /\ recorded \in Seq(Topics) /\ Len(recorded) <= LastEvent
    /\ (UNION writing) \union committed \subseteq DOMAIN recorded
    /\ wanted \in Maybe(Topics) /\ pages \in Seq(Page) /\ more \in Maybe(Events)
    /\ asOf \in Seq(SUBSET Events)
    /\ getting = Nothing \/ /\ getting.kind \in {"all", "more"} /\ getting.upTo \in Nat /\ getting.pages \in Seq(Page)
                            /\ getting.asOf \in Seq(SUBSET Events) /\ getting.more \in Maybe(0..LastEvent)

\* Cursor 0 asks for the newest events.
Start == 0
Fresh(n) == [kind |-> "all", upTo |-> n, pages |-> <<>>, asOf |-> <<>>, more |-> Start]

TrailInit ==
    /\ recorded = <<>> /\ writing = {} /\ committed = {}
    /\ wanted = Nothing /\ pages = <<>> /\ asOf = <<>> /\ more = Nothing
    /\ getting = Fresh(1)

Matching(w) == {e \in committed : w = Nothing \/ recorded[e] = w}

\* The newest PageSize events before the cursor.
Answer(w, before) ==
    LET left == {e \in Matching(w) : before = Start \/ e < before}
        Rank(e) == Cardinality({d \in left : d >= e})
        size == IF Cardinality(left) < PageSize THEN Cardinality(left) ELSE PageSize
    IN  [i \in 1..size |-> CHOOSE e \in left : Rank(e) = i]

NextBefore(w, page) ==
    IF \E e \in Matching(w) : Len(page) > 0 /\ e < page[Len(page)] THEN page[Len(page)] ELSE Nothing

\* The first event of a transaction, or one more of one that is open: an import
\* inserts one for each row.  It takes the next value of the identity column.
EventInserted ==
    /\ Len(recorded) < LastEvent
    /\ \E topic \in Topics : recorded' = Append(recorded, topic)
    /\ \E t \in writing \union {{}} : writing' = (writing \ {t}) \union {t \union {Len(recorded) + 1}}
    /\ UNCHANGED <<committed, wanted, pages, asOf, more, getting>>

EventsCommitted(t) ==
    /\ committed' = committed \union t /\ writing' = writing \ {t}
    /\ UNCHANGED <<recorded, wanted, pages, asOf, more, getting>>

\* A dry run, a row with an error, a failed statement or a connection lost: the
\* identifiers stay used.
EventsRolledBack(t) ==
    /\ writing' = writing \ {t}
    /\ UNCHANGED <<recorded, committed, wanted, pages, asOf, more, getting>>

-----------------------------------------------------------------------------
\* Another filter is another query; one seen before starts from nothing again
\* once the cache has dropped it.
Filter ==
    /\ \E w \in Maybe(Topics) \ {wanted} : wanted' = w
    /\ pages' = <<>> /\ asOf' = <<>> /\ more' = Nothing /\ getting' = Fresh(1)
    /\ UNCHANGED serverTrail

\* fetchNextPage: replaces a repeated read under way.
LoadMore ==
    /\ more # Nothing /\ (getting # Nothing => getting.kind = "all")
    /\ getting' = [kind |-> "more", upTo |-> Len(pages) + 1, pages |-> pages, asOf |-> asOf, more |-> more]
    /\ UNCHANGED <<serverTrail, wanted, pages, asOf, more>>

\* The network comes back: as many pages as are shown are read again.
PagesShown == IF pages = <<>> THEN 1 ELSE Len(pages)
ReadAllAgain ==
    /\ getting = Nothing /\ getting' = Fresh(PagesShown)
    /\ UNCHANGED <<serverTrail, wanted, pages, asOf, more>>

FirstPageReplaced(got) ==
    IF getting.kind = "all" /\ pages # <<>> THEN <<got[1]>> \o Tail(pages) ELSE got
AllReplaced(got) == got

\* One page of the read arrives; the last one puts them on screen together.
PageArrives ==
    /\ getting # Nothing
    /\ LET page == Answer(wanted, getting.more)
           next == NextBefore(wanted, page)
           got  == Append(getting.pages, page)
           seen == Append(getting.asOf, committed)
       IN  IF next = Nothing \/ Len(got) = getting.upTo
           THEN pages' = AllReplaced(got) /\ asOf' = seen /\ more' = next /\ getting' = Nothing
           ELSE /\ getting' = [getting EXCEPT !.pages = got, !.asOf = seen, !.more = next]
                /\ UNCHANGED <<pages, asOf, more>>
    /\ UNCHANGED <<serverTrail, wanted>>

PageFails ==
    /\ getting # Nothing /\ getting' = Nothing
    /\ UNCHANGED <<serverTrail, wanted, pages, asOf, more>>

TrailNext ==
    \/ EventInserted \/ \E t \in writing : EventsCommitted(t) \/ EventsRolledBack(t)
    \/ Filter \/ LoadMore \/ ReadAllAgain \/ PageArrives \/ PageFails

-----------------------------------------------------------------------------
\* The rows on screen are in order and none is shown twice.  Every event that was
\* committed when a page was read and matches the filter is on screen, unless it
\* belongs to a later page - which is there or can be loaded - or to an earlier
\* one, read before the event was committed: an event is left out only when its
\* transaction ended after newer events had been shown, and never by the pages'
\* being read at different times, again, or while others load.
AuditWithoutGaps ==
    LET shown == {k \in (1..Len(pages)) \X (1..PageSize) : k[2] <= Len(pages[k[1]])}
        At(k) == pages[k[1]][k[2]]
        Before(j, k) == j[1] < k[1] \/ (j[1] = k[1] /\ j[2] < k[2])
    IN  /\ \A j, k \in shown : Before(j, k) => At(j) > At(k)
        /\ \A p \in 1..Len(pages) : \A e \in asOf[p] \intersect Matching(wanted) :
              \/ \E k \in shown : At(k) = e
              \/ \E k \in shown : k[1] < p /\ At(k) < e
              \/ /\ \A k \in shown : k[1] = p => e < At(k)
                 /\ p < Len(pages) \/ more # Nothing
=============================================================================
