---------------------------- MODULE AdminSearch -----------------------------
(***************************************************************************)
(* The searched lists of the administration interface, devices and release  *)
(* history: search, filters and page live in the address; what is typed      *)
(* lives in the box and reaches the address 300 ms after the last render.    *)
(***************************************************************************)
EXTENDS ClientBase

CONSTANTS
    Words,      \* searches
    Groups,     \* values of another filter
    LastSheet,  \* the pages of every result
    PastLength  \* bound on the entries behind the current one

ASSUME SearchConstants == LastSheet \in Nat \ {0} /\ PastLength \in Nat

VARIABLES
    searchPlace, \* the address: [q, group, sheet]
    past,        \* the addresses Back leads to, the latest first
    text         \* the box: a search, with or without blanks around it

searchVars == <<searchPlace, past, text>>

Place == [q : Maybe(Words), group : Maybe(Groups), sheet : 1..LastSheet]
SearchTexts == [word : Maybe(Words), padded : BOOLEAN]
trim(t) == t.word

SearchTypeOK == searchPlace \in Place /\ past \in Seq(Place) /\ Len(past) <= PastLength /\ text \in SearchTexts

\* validateSearch: what is no page number leaves the parameter out, and so does
\* page 1.
Sheet(n) == IF n \in 2..LastSheet THEN n ELSE 1

\* The page opens on any address; the box starts from its search.
SearchInit(some) ==
    /\ searchPlace \in some
    /\ past = <<>> /\ text = [word |-> searchPlace.q, padded |-> FALSE]

Type == \E t \in SearchTexts \ {text} : text' = t /\ UNCHANGED <<searchPlace, past>>

TypedAWord == text.word # Nothing /\ searchPlace.q # trim(text)
Typed == searchPlace.q # trim(text)

\* filter() replaces the address and starts from its first page.
searchFilter(p) == searchPlace' = [p EXCEPT !.sheet = 1] /\ UNCHANGED <<past, text>>

Debounced == Typed /\ searchFilter([searchPlace EXCEPT !.q = trim(text)])
ChooseGroup == \E g \in Maybe(Groups) \ {searchPlace.group} : searchFilter([searchPlace EXCEPT !.group = g])

\* The pager adds an entry to Back.
Turn ==
    /\ Len(past) < PastLength
    /\ \E n \in {searchPlace.sheet - 1, searchPlace.sheet + 1} \intersect (1..LastSheet) :
           searchPlace' = [searchPlace EXCEPT !.sheet = Sheet(n)]
    /\ past' = <<searchPlace>> \o past /\ UNCHANGED text

\* Back changes the address and leaves the box as it is.
Back == past # <<>> /\ searchPlace' = Head(past) /\ past' = Tail(past) /\ UNCHANGED text

SearchNext == Type \/ Debounced \/ ChooseGroup \/ Turn \/ Back

\* The list comes to be searched for what the box says, also when that is
\* nothing, when the address changed under the box, or when the page was turned
\* in between.
SearchCatchesUp == (searchPlace.q # trim(text)) ~> (searchPlace.q = trim(text))
=============================================================================
