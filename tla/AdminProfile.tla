---------------------------- MODULE AdminProfile ----------------------------
(***************************************************************************)
(* The name, the e-mail address and the password on the personal settings  *)
(* page.  The profile is read when the page opens and again later; its     *)
(* effect fills the page, but for a name that is being typed.  An address  *)
(* is changed in two steps: a request mails a code to the new address, and *)
(* the code is sent back with the request it belongs to.                   *)
(*                                                                         *)
(* Requests are numbered, each for an address of its own; codes are        *)
(* numbered by the mail that carried them.                                 *)
(***************************************************************************)
EXTENDS ClientBase

CONSTANTS
    Names,
    LastMail,      \* bound on the codes mailed
    ProfileCalls   \* bound on the calls in flight

ASSUME ProfileConstants == Names # {} /\ LastMail \in Nat /\ ProfileCalls \in Nat

VARIABLES
    savedName,     \* server
    mailRequest,   \* server: the open request and the code it takes
    mails,         \* codes mailed so far
    profile,       \* the cached profile
    profileRead,   \* the read in flight: Nothing, "asked", or what it has read
    userName,      \* user.name
    name,          \* what is in the field
    emailChange,   \* the request on screen
    code,          \* the code typed
    profileCalls,
    loggedOut      \* the address or the password has changed: the browser is at /login

profileVars == <<savedName, mailRequest, mails, profile, profileRead, userName, name, emailChange,
                 code, profileCalls, loggedOut>>
serverProfile == <<savedName, mailRequest, mails>>
fields == <<userName, name, emailChange, code>>

Mails == 1..LastMail
Profile == [name : Names, request : Maybe(Mails)]
ProfileCall == [op : {"name", "request", "resend", "verify", "password"}, name : Maybe(Names),
                id : Maybe(Mails), code : Maybe(Mails), live : BOOLEAN,
                stage : {"sent", "done", "refused", "rereading"}, result : Maybe(Mails)]

ProfileTypeOK ==
    /\ savedName \in Names /\ mailRequest \in Maybe([id : Mails, code : Mails]) /\ mails \in 0..LastMail
    /\ profile \in Maybe(Profile) /\ profileRead \in Maybe([stage : {"asked", "answered"}, got : Maybe(Profile)])
    /\ userName \in Maybe(Names) /\ name \in Maybe(Names)
    /\ emailChange \in Maybe(Mails) /\ code \in Maybe(Mails)
    /\ profileCalls \subseteq ProfileCall /\ loggedOut \in BOOLEAN

ProfileAsked == [stage |-> "asked", got |-> Nothing]
RequestID == IF mailRequest = Nothing THEN Nothing ELSE mailRequest.id

ProfileInit ==
    /\ savedName = CHOOSE n \in Names : TRUE
    /\ mailRequest = Nothing /\ mails = 0
    /\ profile = Nothing /\ profileRead = ProfileAsked
    /\ userName = Nothing /\ name = Nothing /\ emailChange = Nothing /\ code = Nothing
    /\ profileCalls = {} /\ loggedOut = FALSE

-----------------------------------------------------------------------------
(* Reading the profile. *)

\* Mutant: the profile fills the field whatever is in it.
ProfileFills(p, shownName, typedName) ==
    /\ userName' = p.name /\ name' = p.name /\ emailChange' = p.request

\* The effect on profileQuery.data: preserveNameDraft.
ProfileEffect(p, shownName, typedName) ==
    /\ userName' = p.name
    /\ name' = IF shownName # Nothing /\ typedName # shownName THEN typedName ELSE p.name
    /\ emailChange' = p.request

ProfileServed ==
    /\ profileRead = ProfileAsked
    /\ profileRead' = [stage |-> "answered", got |-> [name |-> savedName, request |-> RequestID]]
    /\ UNCHANGED <<serverProfile, profile, fields, profileCalls, loggedOut>>

\* Equal data stay the same object, and the effect does not run.
ProfileReturned ==
    /\ profileRead # Nothing /\ profileRead.stage = "answered"
    /\ profile' = profileRead.got /\ profileRead' = Nothing
    /\ IF profile' = profile THEN UNCHANGED <<userName, name, emailChange>>
       ELSE ProfileEffect(profile', userName, name)
    /\ UNCHANGED <<serverProfile, code, profileCalls, loggedOut>>

\* A failed read, the network coming back.
ProfileUnread ==
    /\ profileRead # Nothing
    /\ profileRead' = Nothing
    /\ UNCHANGED <<serverProfile, profile, fields, profileCalls, loggedOut>>

ReadProfile ==
    /\ profileRead = Nothing /\ ~loggedOut
    /\ profileRead' = ProfileAsked
    /\ UNCHANGED <<serverProfile, profile, fields, profileCalls, loggedOut>>

\* The page is left and opened again, from what is cached, which is read again.
ReopenPage ==
    /\ ~loggedOut /\ profileRead' = ProfileAsked
    /\ IF profile = Nothing THEN userName' = Nothing /\ name' = Nothing /\ emailChange' = Nothing
       ELSE ProfileEffect(profile, Nothing, Nothing)
    /\ code' = Nothing
    /\ profileCalls' = {[c EXCEPT !.live = FALSE] : c \in profileCalls}
    /\ UNCHANGED <<serverProfile, profile, loggedOut>>

-----------------------------------------------------------------------------
(* Filling in and sending. *)

OnPage == userName # Nothing /\ ~loggedOut
PendingCall(op) == \E c \in profileCalls : c.op = op /\ c.live

ProfileCallOf(op, n, id, k) ==
    /\ OnPage /\ Cardinality(profileCalls) < ProfileCalls
    /\ profileCalls' = profileCalls \union {[op |-> op, name |-> n, id |-> id, code |-> k, live |-> TRUE,
                                             stage |-> "sent", result |-> Nothing]}

TypeName(n) ==
    /\ OnPage /\ ~PendingCall("name") /\ n # name
    /\ name' = n
    /\ UNCHANGED <<serverProfile, profile, profileRead, userName, emailChange, code, profileCalls, loggedOut>>

\* The form refuses a name that is not a name; the button one that is saved.
SaveName ==
    /\ ~PendingCall("name") /\ name # userName
    /\ ProfileCallOf("name", name, Nothing, Nothing)
    /\ UNCHANGED <<serverProfile, profile, profileRead, fields, loggedOut>>

RequestChange ==
    /\ emailChange = Nothing /\ ~PendingCall("request")
    /\ ProfileCallOf("request", Nothing, Nothing, Nothing)
    /\ UNCHANGED <<serverProfile, profile, profileRead, fields, loggedOut>>

\* Offered once a minute while attempts remain.
ResendCode ==
    /\ emailChange # Nothing /\ ~PendingCall("resend")
    /\ ProfileCallOf("resend", Nothing, Nothing, Nothing)
    /\ UNCHANGED <<serverProfile, profile, profileRead, fields, loggedOut>>

TypeCode(k) ==
    /\ emailChange # Nothing /\ ~PendingCall("verify") /\ k <= mails /\ k # code
    /\ code' = k
    /\ UNCHANGED <<serverProfile, profile, profileRead, userName, name, emailChange, profileCalls, loggedOut>>

VerifyCode ==
    /\ emailChange # Nothing /\ code # Nothing /\ ~PendingCall("verify")
    /\ ProfileCallOf("verify", Nothing, emailChange, code)
    /\ UNCHANGED <<serverProfile, profile, profileRead, fields, loggedOut>>

CancelChange ==
    /\ emailChange # Nothing /\ ~PendingCall("verify")
    /\ emailChange' = Nothing /\ code' = Nothing
    /\ UNCHANGED <<serverProfile, profile, profileRead, userName, name, profileCalls, loggedOut>>

ChangePassword ==
    /\ ~PendingCall("password")
    /\ ProfileCallOf("password", Nothing, Nothing, Nothing)
    /\ UNCHANGED <<serverProfile, profile, profileRead, fields, loggedOut>>

-----------------------------------------------------------------------------
(* The server. *)

Answering(c, stage, result) ==
    profileCalls' = (profileCalls \ {c}) \union {[c EXCEPT !.stage = stage, !.result = result]}

\* RequestEmailChange replaces the open request; ResendEmailChange gives it a
\* new code.
MailServed(c) ==
    /\ c.stage = "sent" /\ c.op \in {"request", "resend"} /\ mails < LastMail
    /\ c.op = "resend" => mailRequest # Nothing
    /\ mails' = mails + 1
    /\ mailRequest' = [id |-> IF c.op = "request" THEN mails + 1 ELSE mailRequest.id, code |-> mails + 1]
    /\ Answering(c, "done", mailRequest'.id)
    /\ UNCHANGED <<savedName, profile, profileRead, fields, loggedOut>>

\* Another tab or device requests a change.  The environment.
OtherRequest ==
    /\ mails < LastMail
    /\ mails' = mails + 1 /\ mailRequest' = [id |-> mails + 1, code |-> mails + 1]
    /\ UNCHANGED <<savedName, profile, profileRead, fields, profileCalls, loggedOut>>

\* Mutant: the code alone decides.
AcceptsCode(c) == mailRequest # Nothing /\ mailRequest.code = c.code

\* CompleteEmailChange: the request named must be the open one, and the code
\* the last one mailed for it.
Accepts(c) == mailRequest # Nothing /\ mailRequest.id = c.id /\ mailRequest.code = c.code

VerifyServed(c) ==
    /\ c.stage = "sent" /\ c.op = "verify"
    /\ IF Accepts(c) THEN mailRequest' = Nothing /\ Answering(c, "done", Nothing)
       ELSE UNCHANGED mailRequest /\ Answering(c, "refused", Nothing)
    /\ UNCHANGED <<savedName, mails, profile, profileRead, fields, loggedOut>>

ProfileSaveServed(c) ==
    /\ c.stage = "sent" /\ c.op \in {"name", "password"}
    /\ savedName' = IF c.op = "name" THEN c.name ELSE savedName
    /\ Answering(c, "done", Nothing)
    /\ UNCHANGED <<mailRequest, mails, profile, profileRead, fields, loggedOut>>

\* Refused, or lost on the way there or back.
ProfileCallLost(c) ==
    /\ c.stage \in {"sent", "done"}
    /\ Answering(c, "refused", Nothing)
    /\ UNCHANGED <<serverProfile, profile, profileRead, fields, loggedOut>>

-----------------------------------------------------------------------------
(* The answers. *)

\* applyUser: the page, if it is still there, and the cached profile get the
\* name; that the profile changed runs its effect, which also brings back the
\* request of the last read.
NameSaved(c) ==
    /\ c.op = "name" /\ c.stage = "done"
    /\ profileCalls' = profileCalls \ {c}
    /\ profile' = IF profile = Nothing THEN Nothing ELSE [profile EXCEPT !.name = c.name]
    /\ LET shownName == IF c.live THEN c.name ELSE userName
           typedName == IF c.live THEN c.name ELSE name
       IN  IF profile' # profile
           THEN ProfileEffect(profile', shownName, typedName)
           ELSE userName' = shownName /\ name' = typedName /\ UNCHANGED emailChange
    /\ UNCHANGED <<serverProfile, profileRead, code, loggedOut>>

\* request and resend: the cached profile does not hear of it.
CodeMailed(c) ==
    /\ c.op \in {"request", "resend"} /\ c.stage = "done"
    /\ profileCalls' = profileCalls \ {c}
    /\ emailChange' = IF c.live THEN c.result ELSE emailChange
    /\ code' = IF c.live /\ c.op = "resend" THEN Nothing ELSE code
    /\ UNCHANGED <<serverProfile, profile, profileRead, userName, name, loggedOut>>

\* The address or the password has changed: window.location.assign('/login').
Reauthenticate(c) ==
    /\ c.op \in {"verify", "password"} /\ c.stage = "done"
    /\ profileCalls' = {} /\ loggedOut' = TRUE /\ profileRead' = Nothing
    /\ UNCHANGED <<serverProfile, profile, fields>>

\* A code was refused: the request is read again before the error is shown.
VerifyRefused(c) ==
    /\ c.op = "verify" /\ c.stage = "refused"
    /\ Answering(c, "rereading", RequestID)
    /\ UNCHANGED <<serverProfile, profile, profileRead, fields, loggedOut>>

RequestReread(c, arrives) ==
    /\ c.stage = "rereading"
    /\ profileCalls' = profileCalls \ {c}
    /\ emailChange' = IF arrives /\ c.live THEN c.result ELSE emailChange
    /\ UNCHANGED <<serverProfile, profile, profileRead, userName, name, code, loggedOut>>

ProfileRefused(c) ==
    /\ c.op # "verify" /\ c.stage = "refused"
    /\ profileCalls' = profileCalls \ {c}
    /\ UNCHANGED <<serverProfile, profile, profileRead, fields, loggedOut>>

ProfileNext ==
    \/ ProfileServed \/ ProfileReturned \/ ProfileUnread \/ ReadProfile \/ ReopenPage
    \/ \E n \in Names : TypeName(n)
    \/ \E k \in Mails : TypeCode(k)
    \/ SaveName \/ RequestChange \/ ResendCode \/ VerifyCode \/ CancelChange \/ ChangePassword
    \/ OtherRequest
    \/ \E c \in profileCalls :
          \/ MailServed(c) \/ VerifyServed(c) \/ ProfileSaveServed(c) \/ ProfileCallLost(c)
          \/ NameSaved(c) \/ CodeMailed(c) \/ Reauthenticate(c) \/ VerifyRefused(c) \/ ProfileRefused(c)
          \/ \E arrives \in BOOLEAN : RequestReread(c, arrives)

-----------------------------------------------------------------------------
(* Properties. *)

\* preserveNameDraft: a name that is being typed is lost neither to a profile
\* that is read again nor to a save begun on the page as it was before; only
\* typing, its own save and leaving the page change it.
NameDraftKept ==
    [][userName # Nothing /\ name # userName /\ name' # name
       => \/ \E n \in Names : TypeName(n)
          \/ \E c \in profileCalls : c.live /\ NameSaved(c)
          \/ ReopenPage]_profileVars

\* An address is only changed to the one the page showed with the code, however
\* requests made elsewhere, resent codes and rereads cross it.
VerifiedAddressWasShown ==
    [][\A c \in profileCalls :
          VerifyServed(c) /\ mailRequest # Nothing /\ mailRequest' = Nothing => c.id = mailRequest.id]_profileVars
=============================================================================
