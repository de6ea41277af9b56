---------------------------- MODULE LegacyAdmin -----------------------------
(***************************************************************************)
(* The administration pages of the first-generation frontend (AdminPages):  *)
(* a form above the table of what it creates, and on the profiles page       *)
(* edits.  A success empties the form and has the table read again; nothing  *)
(* carries a version, so that the last write wins.                           *)
(*                                                                         *)
(* An item is a user, a credential, a profile or a switch; its contents are  *)
(* the number of the write that made it, 0 where there is none.  Error       *)
(* messages, which disable nothing, are left out.                            *)
(***************************************************************************)
EXTENDS ClientBase

CONSTANTS
    LegacyItems,    \* identifiers
    LegacyWrites,   \* bound on the writes of all administrators
    LegacySaves     \* bound on the requests in flight

ASSUME LegacyAdminConstants == LegacyWrites \in Nat /\ LegacySaves \in Nat \ {0}

VARIABLES
    adminPage,   \* the page of this behaviour
    onPage,      \* it is mounted
    items,       \* server: the contents of each item
    tables,      \* the tables' rows as last read; Nothing before
    tableReads,  \* the reads in flight: "idle", or asked or served
    editingId,   \* the profile being edited; Nothing while creating
    content,     \* what the form holds: the profile it was filled from, and its text since
    resetPasswords, \* users whose new password is typed
    saves,       \* requests in flight
    acknowledged \* ghost: the newest save whose answer found each table on screen

legacyAdminVars == <<adminPage, onPage, items, tables, tableReads, editingId, content, resetPasswords, saves,
                     acknowledged>>

AdminPages == {"users", "credentials", "imports", "profiles"}
TableNames == {"list", "switches"}  \* the second is on the imports page only
Contents == 0..LegacyWrites
Texts == {"default", "filled", "well", "ill"}  \* untouched, or typed: as the schema wants it or not
ItemSnapshot == [LegacyItems -> Contents]
TableRead == [stage : {"idle", "asked", "served"}, items : Maybe(ItemSnapshot)]
Idling == [stage |-> "idle", items |-> Nothing]
AskedFor == [stage |-> "asked", items |-> Nothing]
Save == [op : {"create", "save", "reset", "import"}, id : Maybe(LegacyItems), of : Maybe(LegacyItems),
         live : BOOLEAN, stage : {"sent", "done", "failed"}, wrote : {<<>>} \union (LegacyItems \X Contents)]

LegacyAdminTypeOK ==
    /\ adminPage \in AdminPages /\ onPage \in BOOLEAN /\ items \in ItemSnapshot
    /\ tables \in [TableNames -> Maybe(ItemSnapshot)] /\ tableReads \in [TableNames -> TableRead]
    /\ editingId \in Maybe(LegacyItems) /\ content \in [of : Maybe(LegacyItems), text : Texts]
    /\ resetPasswords \subseteq LegacyItems /\ saves \subseteq Save
    /\ acknowledged \in [TableNames -> {<<>>} \union (LegacyItems \X Contents)]

EmptyForm == [of |-> Nothing, text |-> "default"]
PageTables == IF adminPage = "imports" THEN TableNames ELSE {"list"}

LegacyAdminInit(some) ==
    /\ adminPage \in some /\ onPage = TRUE
    /\ items = [i \in LegacyItems |-> 0]
    /\ tables = [t \in TableNames |-> Nothing]
    /\ tableReads = [t \in TableNames |-> IF t \in PageTables THEN AskedFor ELSE Idling]
    /\ editingId = Nothing /\ content = EmptyForm /\ resetPasswords = {}
    /\ saves = {} /\ acknowledged = [t \in TableNames |-> <<>>]

form == <<editingId, content, resetPasswords>>
listed == <<tables, tableReads>>

-----------------------------------------------------------------------------
(* The API. *)

WritesSoFar == LET newest == {i \in LegacyItems : \A j \in LegacyItems : items[j] <= items[i]}
               IN  items[CHOOSE i \in newest : TRUE]

Written(i) == WritesSoFar < LegacyWrites /\ items' = [items EXCEPT ![i] = WritesSoFar + 1]

OtherAdminWrites(i) ==
    /\ Written(i)
    /\ UNCHANGED <<adminPage, onPage, listed, form, saves, acknowledged>>

SaveAnswer(s, stage, wrote) ==
    saves' = (saves \ {s}) \union {[s EXCEPT !.stage = stage, !.wrote = wrote]}

SaveServedHere(s) ==
    /\ s.stage = "sent"
    /\ \/ \E i \in LegacyItems : /\ IF s.id = Nothing THEN items[i] = 0 ELSE s.id = i
                           /\ Written(i) /\ SaveAnswer(s, "done", <<i, items'[i]>>)
       \/ SaveAnswer(s, "failed", <<>>) /\ UNCHANGED items
    /\ UNCHANGED <<adminPage, onPage, listed, form, acknowledged>>

SaveAnswerLost(s) ==
    /\ s.stage \in {"sent", "done"} /\ SaveAnswer(s, "failed", <<>>)
    /\ UNCHANGED <<adminPage, onPage, items, listed, form, acknowledged>>

TableServed(t) ==
    /\ tableReads[t].stage = "asked"
    /\ tableReads' = [tableReads EXCEPT ![t] = [stage |-> "served", items |-> items]]
    /\ UNCHANGED <<adminPage, onPage, items, tables, form, saves, acknowledged>>

TableArrives(t) ==
    /\ tableReads[t].stage = "served"
    /\ tables' = [tables EXCEPT ![t] = tableReads[t].items]
    /\ tableReads' = [tableReads EXCEPT ![t] = Idling]
    /\ UNCHANGED <<adminPage, onPage, items, form, saves, acknowledged>>

\* Both tries fail: the rows of before stay, and what was saved since may be missing.
TableUnread(t) ==
    /\ tableReads[t].stage = "asked"
    /\ tableReads' = [tableReads EXCEPT ![t] = Idling]
    /\ acknowledged' = [acknowledged EXCEPT ![t] = <<>>]
    /\ UNCHANGED <<adminPage, onPage, items, tables, form, saves>>

\* invalidateQueries: a read under way is replaced, except the first, which has
\* no rows yet to fall back on and is left to answer.
LegacyReadAgain(ts) ==
    tableReads' = [t \in TableNames |->
        IF t \in ts /\ onPage /\ (tables[t] # Nothing \/ tableReads[t] = Idling)
        THEN AskedFor ELSE tableReads[t]]

\* The network comes back.
TablesReconnect ==
    /\ onPage /\ \A t \in PageTables : tableReads[t] = Idling
    /\ LegacyReadAgain(PageTables)
    /\ UNCHANGED <<adminPage, onPage, items, tables, form, saves, acknowledged>>

-----------------------------------------------------------------------------
(* The forms. *)

Saving(op) == \E s \in saves : s.live /\ s.op = op

Sends(op, id, of) ==
    /\ onPage /\ ~Saving(op) /\ Cardinality(saves) < LegacySaves
    /\ saves' = saves \union {[op |-> op, id |-> id, of |-> of, live |-> TRUE, stage |-> "sent", wrote |-> <<>>]}
    /\ UNCHANGED <<adminPage, onPage, items, listed, form, acknowledged>>

TypeInForm(text) ==
    /\ onPage /\ text # content.text /\ content' = [content EXCEPT !.text = text]
    /\ UNCHANGED <<adminPage, onPage, items, listed, editingId, resetPasswords, saves, acknowledged>>

\* A form that its schema refuses never leaves the browser.  The fields of a new
\* user or credential start empty, the records of an import as the empty list; a
\* profile needs a name and patterns that are JSON objects and lists of strings,
\* as those of a profile that was read are.
createUserSchema(text) == text = "well"
createCredentialSchema(text) == text = "well"
createImportSchema(text) == text \in {"default", "well"}
createCommandProfileSchema(text) == text \in {"filled", "well"}

CreateUser ==
    adminPage = "users" /\ createUserSchema(content.text) /\ Sends("create", Nothing, Nothing)
CreateCredential ==
    adminPage = "credentials" /\ createCredentialSchema(content.text) /\ Sends("create", Nothing, Nothing)
ImportRecords ==
    adminPage = "imports" /\ createImportSchema(content.text) /\ Sends("import", Nothing, Nothing)
SaveProfile ==
    adminPage = "profiles" /\ createCommandProfileSchema(content.text) /\ Sends("save", editingId, content.of)

commandProfileToForm(i) == [of |-> i, text |-> "filled"]

\* Any row's button, while a save is under way too.
startEdit(i) ==
    /\ onPage /\ adminPage = "profiles" /\ tables["list"] # Nothing /\ tables["list"][i] > 0
    /\ editingId' = i /\ content' = commandProfileToForm(i)
    /\ UNCHANGED <<adminPage, onPage, items, listed, resetPasswords, saves, acknowledged>>

resetForm ==
    /\ onPage /\ editingId # Nothing
    /\ editingId' = Nothing /\ content' = EmptyForm
    /\ UNCHANGED <<adminPage, onPage, items, listed, resetPasswords, saves, acknowledged>>

TypePassword(i) ==
    /\ onPage /\ adminPage = "users" /\ tables["list"] # Nothing /\ tables["list"][i] > 0
    /\ i \notin resetPasswords /\ resetPasswords' = resetPasswords \union {i}
    /\ UNCHANGED <<adminPage, onPage, items, listed, editingId, content, saves, acknowledged>>

\* One mutation serves every row: all reset buttons wait for it.
resetPassword(i) ==
    /\ onPage /\ i \in resetPasswords
    /\ Sends("reset", i, i)

-----------------------------------------------------------------------------
(* Answers. *)

\* What every success does to the tables ts, and what is then known to be stored.
Refreshed(s, ts) ==
    /\ LegacyReadAgain(ts)
    /\ acknowledged' = [t \in TableNames |->
           IF t \in PageTables /\ onPage /\ tables[t] # Nothing THEN s.wrote ELSE acknowledged[t]]
    /\ saves' = saves \ {s}
    /\ UNCHANGED <<adminPage, onPage, items, tables>>
OnlyHeard(s, ts) ==
    /\ acknowledged' = [t \in TableNames |->
           IF t \in PageTables /\ onPage /\ tables[t] # Nothing THEN s.wrote ELSE acknowledged[t]]
    /\ saves' = saves \ {s}
    /\ UNCHANGED <<adminPage, onPage, items, tables, tableReads>>
SaveHeard(s, ts) == Refreshed(s, ts)

\* The form is emptied whatever was typed since.
LegacyCreated(s) ==
    /\ s.op = "create" /\ s.stage = "done" /\ SaveHeard(s, {"list"})
    /\ content' = IF s.live THEN EmptyForm ELSE content
    /\ UNCHANGED <<editingId, resetPasswords>>

ProfileSavedKeepingForm(s) ==
    /\ s.op = "save" /\ s.stage = "done" /\ SaveHeard(s, {"list"})
    /\ editingId' = IF s.live THEN Nothing ELSE editingId
    /\ UNCHANGED <<content, resetPasswords>>
\* So is the form of another profile whose edit has begun since.
ProfileSaved(s) ==
    /\ s.op = "save" /\ s.stage = "done" /\ SaveHeard(s, {"list"})
    /\ editingId' = IF s.live THEN Nothing ELSE editingId
    /\ content' = IF s.live THEN EmptyForm ELSE content
    /\ UNCHANGED resetPasswords

PasswordReset(s) ==
    /\ s.op = "reset" /\ s.stage = "done" /\ SaveHeard(s, {"list"})
    /\ resetPasswords' = IF s.live THEN resetPasswords \ {s.id} ELSE resetPasswords
    /\ UNCHANGED <<editingId, content>>

\* The records stay in the form; the batches and the switches are read again.
RecordsImported(s) ==
    /\ s.op = "import" /\ s.stage = "done" /\ SaveHeard(s, TableNames)
    /\ UNCHANGED form

SaveFailedHere(s) ==
    /\ s.stage = "failed" /\ saves' = saves \ {s}
    /\ UNCHANGED <<adminPage, onPage, items, listed, form, acknowledged>>

-----------------------------------------------------------------------------
(* The page is left and opened again: what was typed is gone, the requests go  *)
(* on, the rows are shown from the cache and read again.                       *)

LeavePage ==
    /\ onPage /\ onPage' = FALSE
    /\ editingId' = Nothing /\ content' = EmptyForm /\ resetPasswords' = {}
    /\ saves' = {[s EXCEPT !.live = FALSE] : s \in saves}
    /\ UNCHANGED <<adminPage, items, listed, acknowledged>>

OpenPage ==
    /\ ~onPage /\ onPage' = TRUE
    /\ tableReads' = [t \in TableNames |->
           IF t \in PageTables /\ tableReads[t] = Idling THEN AskedFor ELSE tableReads[t]]
    /\ acknowledged' = [t \in TableNames |-> <<>>]
    /\ UNCHANGED <<adminPage, items, tables, form, saves>>

LegacyAdminNext ==
    \/ \E i \in LegacyItems : \/ OtherAdminWrites(i) \/ startEdit(i) \/ TypePassword(i) \/ resetPassword(i)
    \/ \E t \in TableNames : TableServed(t) \/ TableArrives(t) \/ TableUnread(t)
    \/ TablesReconnect \/ LeavePage \/ OpenPage
    \/ \E text \in {"well", "ill"} : TypeInForm(text)
    \/ CreateUser \/ CreateCredential \/ ImportRecords \/ SaveProfile \/ resetForm
    \/ \E s \in saves : \/ SaveServedHere(s) \/ SaveAnswerLost(s) \/ LegacyCreated(s) \/ ProfileSaved(s)
                        \/ PasswordReset(s) \/ RecordsImported(s) \/ SaveFailedHere(s)

-----------------------------------------------------------------------------
\* What is saved to a profile was filled in from that profile, and what creates
\* one from the defaults: no answer of an earlier save, failed or late, leaves
\* the form with one profile's contents and another's identifier.
SavedContentsBelong ==
    \A s \in saves : s.op = "save" => s.id = s.of

\* A table that was on screen when a save was answered shows it, or something
\* newer, as soon as it is not being read (unless that read fails).
TablesShowOwnSaves ==
    \A t \in PageTables :
        onPage /\ tableReads[t] = Idling /\ acknowledged[t] # <<>> =>
            tables[t][acknowledged[t][1]] >= acknowledged[t][2]
=============================================================================
