---------------------------- MODULE AdminImport -----------------------------
(***************************************************************************)
(* The CSV import dialog: what is to be imported is previewed with a dry    *)
(* run, and only the request that was previewed may be committed.  The      *)
(* fields stay editable while a request is under way, a chosen file is read  *)
(* in its own time, and the dialog keeps its state while closed.            *)
(***************************************************************************)
EXTENDS ClientBase

CONSTANTS
    CsvTexts,      \* texts that can be pasted, inserted or read from a file
    ImportDefaults \* default credentials and profiles, beside none

VARIABLES
    request,   \* the fields: [kind, csv, defaults]
    files,     \* chosen files that are still being read
    report,    \* the report on screen
    previewed, \* the request a clean preview was made for
    failed,    \* an error is shown
    sending,   \* the request in flight; Nothing while not busy
    approved   \* ghost: what the last answer found free of errors, unless it imported it

importVars == <<request, files, report, previewed, failed, sending, approved>>

Request == [kind : {"switches", "networks"}, csv : Maybe(CsvTexts), defaults : Maybe(ImportDefaults)]
Report == [dry : BOOLEAN, errors : 0..1, created : 0..1]

ImportTypeOK ==
    /\ request \in Request /\ files \subseteq CsvTexts /\ report \in Maybe(Report)
    /\ previewed \in Maybe(Request) /\ failed \in BOOLEAN
    /\ sending = Nothing \/ /\ sending.dry \in BOOLEAN /\ sending.of \in Request
                            /\ sending.stage \in {"sent", "answered", "lost"}
                            /\ sending.answer \in Maybe(Report)
    /\ approved \in Maybe(Request)

ImportInit ==
    /\ request = [kind |-> "switches", csv |-> Nothing, defaults |-> Nothing]
    /\ files = {} /\ report = Nothing /\ previewed = Nothing /\ failed = FALSE
    /\ sending = Nothing /\ approved = Nothing

-----------------------------------------------------------------------------
(* The fields. *)

ChooseKind ==
    /\ \E k \in {"switches", "networks"} \ {request.kind} : request' = [request EXCEPT !.kind = k]
    /\ report' = Nothing
    /\ UNCHANGED <<files, previewed, failed, sending, approved>>

\* Typing keeps the report on screen.
EditCsv ==
    /\ \E t \in Maybe(CsvTexts) \ {request.csv} : request' = [request EXCEPT !.csv = t]
    /\ UNCHANGED <<files, report, previewed, failed, sending, approved>>

\* The template of the kind is one of the texts.
InsertTemplate ==
    /\ \E t \in CsvTexts : request' = [request EXCEPT !.csv = t]
    /\ report' = Nothing
    /\ UNCHANGED <<files, previewed, failed, sending, approved>>

\* The default selects are shown for switches only, but sent for both kinds.
ChooseDefault ==
    /\ request.kind = "switches"
    /\ \E d \in Maybe(ImportDefaults) \ {request.defaults} : request' = [request EXCEPT !.defaults = d]
    /\ UNCHANGED <<files, report, previewed, failed, sending, approved>>

ChooseFile(t) ==
    /\ t \notin files /\ files' = files \union {t}
    /\ UNCHANGED <<request, report, previewed, failed, sending, approved>>

\* file.text() resolves in any order.
FileRead(t) ==
    /\ t \in files /\ files' = files \ {t}
    /\ request' = [request EXCEPT !.csv = t] /\ report' = Nothing
    /\ UNCHANGED <<previewed, failed, sending, approved>>

-----------------------------------------------------------------------------
(* Preview and import. *)

canCommit ==
    /\ report # Nothing /\ report.dry /\ report.errors = 0 /\ report.created > 0
    /\ previewed = request

send(dry) ==
    /\ sending = Nothing
    /\ sending' = [dry |-> dry, of |-> request, stage |-> "sent", answer |-> Nothing]
    /\ failed' = FALSE
    /\ UNCHANGED <<request, files, report, previewed, approved>>

Preview == request.csv # Nothing /\ send(TRUE)
Commit == canCommit /\ send(FALSE)

\* The server validates every row in one transaction, inserting those it can also when others
\* have errors, and keeps it only when it is no dry run and no row has one; rows that exist
\* already are skipped.  Its report counts all three.
ImportServed ==
    /\ sending # Nothing /\ sending.stage = "sent"
    /\ \/ \E r \in Report :
            r.dry = sending.dry /\ sending' = [sending EXCEPT !.stage = "answered", !.answer = r]
       \/ sending' = [sending EXCEPT !.stage = "lost"]
    /\ UNCHANGED <<request, files, report, previewed, failed, approved>>

SentRequest == sending.of
CurrentRequest == request
PreviewedRequest == SentRequest

ImportAnswered ==
    /\ sending # Nothing /\ sending.stage = "answered"
    /\ LET r == sending.answer IN
           /\ report' = r
           /\ previewed' = IF sending.dry THEN PreviewedRequest ELSE Nothing
           /\ approved' = IF r.dry /\ r.errors = 0 /\ r.created > 0 THEN sending.of ELSE Nothing
    /\ sending' = Nothing
    /\ UNCHANGED <<request, files, failed>>

\* The report of before stays, and with it what may be imported.
ImportFailed ==
    /\ sending # Nothing /\ sending.stage = "lost"
    /\ failed' = TRUE /\ sending' = Nothing
    /\ UNCHANGED <<request, files, report, previewed, approved>>

ImportNext ==
    \/ ChooseKind \/ EditCsv \/ InsertTemplate \/ ChooseDefault
    \/ \E t \in CsvTexts : ChooseFile(t) \/ FileRead(t)
    \/ Preview \/ Commit \/ ImportServed \/ ImportAnswered \/ ImportFailed

-----------------------------------------------------------------------------
\* Only what was previewed, found free of errors and not imported since is sent
\* to be imported, whatever was typed, chosen or read from a file while the
\* preview was under way ("the exact request the clean preview was made for").
OnlyPreviewedCommitted ==
    [][sending = Nothing /\ sending' # Nothing /\ ~sending'.dry => sending'.of = approved]_importVars
=============================================================================
