--------------------------- MODULE AdminIdentity ---------------------------
(***************************************************************************)
(* The name and the icon of the installation: the settings page with its   *)
(* draft, the mark every page shows, and the server that keeps both.       *)
(* A draft holds the revision it was begun from and survives the reads     *)
(* that follow; a save is accepted for the revision the server is at.      *)
(***************************************************************************)
EXTENDS ClientBase

CONSTANTS
    SystemNames,
    LastIdentity      \* bound on the revisions

ASSUME IdentityConstants == LastIdentity \in Nat /\ SystemNames # {}

Icons == {"layers", "custom"}
IconActions == {"preserve", "replace", "default"}
Identity == [name : SystemNames, icon : Icons, rev : 0..LastIdentity]

(* "file" says whether a file is chosen; "from" is the identity the draft began with *)
IdentityDraft == [name : Maybe(SystemNames), action : IconActions, file : BOOLEAN, from : Identity,
          dirty : BOOLEAN, conflict : BOOLEAN]

VARIABLES
    identity,        \* the server's
    settingsShown,   \* the page's cached read; Nothing before the first
    markShown,       \* the public read behind the mark and the document's title
    identityReads,   \* reads in flight: of what, and the answer once the server gave it
    identityBroken,  \* the last read of the page failed
    identityDraft,   \* Nothing, or an IdentityDraft
    identitySave,    \* the save in flight
    identitySaved    \* the newest revision a save of this page has made

identityVars == <<identity, settingsShown, markShown, identityReads, identityBroken, identityDraft,
                  identitySave, identitySaved>>
cachedIdentity == <<settingsShown, markShown, identityReads, identityBroken>>

IdentitySave == [sent  : IdentityDraft, rev : 0..LastIdentity, stage : {"sent", "saved", "stale", "failed"}, saved : Maybe(Identity)]

IdentityTypeOK ==
    /\ identity \in Identity
    /\ settingsShown \in Maybe(Identity) /\ markShown \in Maybe(Identity)
    /\ \A r \in identityReads : r.of \in {"settings", "public"} /\ r.answer \in Maybe(Identity)
    /\ identityBroken \in BOOLEAN /\ identityDraft \in Maybe(IdentityDraft)
    /\ identitySave \in Maybe(IdentitySave)
    /\ identitySaved \in 0..LastIdentity

UnreadIdentity(of) == [of |-> of, answer |-> Nothing]

\* The page and the mark are mounted, nothing has been read.
IdentityInit(names) ==
    /\ identity \in [name : names, icon : {"layers"}, rev : {0}]
    /\ settingsShown = Nothing /\ markShown = Nothing
    /\ identityReads = {UnreadIdentity("settings"), UnreadIdentity("public")}
    /\ identityBroken = FALSE /\ identityDraft = Nothing
    /\ identitySave = Nothing /\ identitySaved = 0

-----------------------------------------------------------------------------
(* Reads. *)

\* The mark is read again when the window regains the focus, the page when the
\* browser is back online; a read under way is not repeated.
ReadIdentity(of) ==
    /\ ~\E r \in identityReads : r.of = of
    /\ identityReads' = identityReads \union {UnreadIdentity(of)}
    /\ UNCHANGED <<identity, settingsShown, markShown, identityBroken, identityDraft, identitySave,
                   identitySaved>>

IdentityServed(r) ==
    /\ r.answer = Nothing
    /\ identityReads' = (identityReads \ {r}) \union {[r EXCEPT !.answer = identity]}
    /\ UNCHANGED <<identity, settingsShown, markShown, identityBroken, identityDraft, identitySave,
                   identitySaved>>

\* A clean draft hides behind the read; a reload after a conflict replaces it.
IdentityReturned(r) ==
    /\ r.answer # Nothing
    /\ identityReads' = identityReads \ {r}
    /\ IF r.of = "settings"
       THEN /\ settingsShown' = r.answer /\ identityBroken' = FALSE /\ UNCHANGED markShown
       ELSE /\ markShown' = r.answer /\ UNCHANGED <<settingsShown, identityBroken>>
    /\ UNCHANGED <<identity, identityDraft, identitySave, identitySaved>>

IdentityUnread(r) ==
    /\ identityReads' = identityReads \ {r}
    /\ identityBroken' = (identityBroken \/ r.of = "settings")
    /\ UNCHANGED <<identity, settingsShown, markShown, identityDraft, identitySave, identitySaved>>

-----------------------------------------------------------------------------
(* The page. *)

\* fromSystemIdentity
fromSystemIdentity(i) ==
    [name |-> i.name, action |-> "preserve", file |-> FALSE, from |-> i, dirty |-> FALSE, conflict |-> FALSE]

\* The form exists once the page has something to show; an empty draft of a
\* failed first read cannot be edited.
IdentityFormShown == settingsShown # Nothing \/ identityDraft # Nothing

\* draft?.dirty ? draft : query.data ? fromSystemIdentity(query.data) : draft
currentIdentity ==
    IF identityDraft # Nothing /\ (identityDraft.dirty \/ settingsShown = Nothing) THEN identityDraft
    ELSE fromSystemIdentity(settingsShown)

IdentityEditable == IdentityFormShown /\ identitySave = Nothing /\ ~currentIdentity.conflict /\ ~identityBroken

\* update
UpdateDraft(patched) ==
    /\ IdentityEditable
    /\ identityDraft' = [patched EXCEPT !.dirty = TRUE, !.conflict = FALSE]
    /\ UNCHANGED <<identity, cachedIdentity, identitySave, identitySaved>>

TypeSystemName(n) == UpdateDraft([currentIdentity EXCEPT !.name = n])
SelectIcon == UpdateDraft([currentIdentity EXCEPT !.action = "replace", !.file = TRUE])
RestoreDefaultIcon == UpdateDraft([currentIdentity EXCEPT !.action = "default", !.file = FALSE])

\* Mutant: the revision is the one last read.
SentNewestRevision == settingsShown.rev

\* mutationFn: what is on the screen, with the revision it began from.
SentIdentityRevision == currentIdentity.from.rev

SubmitIdentity ==
    /\ IdentityEditable
    /\ currentIdentity.name # Nothing
    /\ currentIdentity.action = "replace" => currentIdentity.file
    /\ identitySave' = [sent |-> currentIdentity, rev |-> SentIdentityRevision, stage |-> "sent", saved |-> Nothing]
    /\ UNCHANGED <<identity, cachedIdentity, identityDraft, identitySaved>>

\* "Reload" of a conflict: the page is read again, and whatever read it then
\* has, also the old one of a refused request, becomes the draft.
ReloadConflict ==
    /\ IdentityFormShown /\ currentIdentity.conflict
    /\ \E refreshed \in {settingsShown, identity} \ {Nothing} :
         /\ settingsShown' = refreshed
         /\ identityDraft' = fromSystemIdentity(refreshed)
         /\ identityBroken' \in {b \in BOOLEAN : b \/ refreshed = identity}
    /\ identityReads' = {r \in identityReads : r.of # "settings"}
    /\ UNCHANGED <<identity, markShown, identitySave, identitySaved>>

IconAfter(d, kept) ==
    CASE d.action = "preserve" -> kept
      [] d.action = "replace" -> "custom"
      [] d.action = "default" -> "layers"

\* SaveSystemIdentity on the server: compare the revision and swap.
SaveIdentityServed ==
    /\ identitySave # Nothing /\ identitySave.stage = "sent"
    /\ LET d == identitySave.sent IN
       IF identitySave.rev # identity.rev
       THEN /\ identitySave' = [identitySave EXCEPT !.stage = "stale"]
            /\ UNCHANGED identity
       ELSE /\ identity.rev < LastIdentity
            /\ identity' = [name |-> d.name, icon |-> IconAfter(d, identity.icon), rev |-> identity.rev + 1]
            /\ identitySave' = [identitySave EXCEPT !.stage = "saved", !.saved = identity']
    /\ UNCHANGED <<cachedIdentity, identityDraft, identitySaved>>

\* Refused for another reason, or lost on the way there or back.
SaveIdentityLost ==
    /\ identitySave # Nothing /\ identitySave.stage \in {"sent", "saved"}
    /\ identitySave' = [identitySave EXCEPT !.stage = "failed", !.saved = Nothing]
    /\ UNCHANGED <<identity, cachedIdentity, identityDraft, identitySaved>>

\* Mutant: the reads under way are left to finish.
IdentityKeepsReads(saved) ==
    /\ identitySave.stage = "saved"
    /\ settingsShown' = saved /\ markShown' = saved
    /\ identityReads' = identityReads \union {UnreadIdentity("settings"), UnreadIdentity("public")}
    /\ identityDraft' = fromSystemIdentity(saved)
    /\ identitySave' = Nothing /\ identitySaved' = saved.rev
    /\ UNCHANGED <<identity, identityBroken>>

\* onSuccess: both caches are set and read again, which cancels their reads.
IdentitySaved(saved) ==
    /\ identitySave.stage = "saved"
    /\ settingsShown' = saved /\ markShown' = saved
    /\ identityReads' = {UnreadIdentity("settings"), UnreadIdentity("public")}
    /\ identityDraft' = fromSystemIdentity(saved)
    /\ identityBroken' = FALSE
    /\ identitySave' = Nothing /\ identitySaved' = saved.rev
    /\ UNCHANGED identity

\* onError: the draft, or what the page showed, is kept as an edit.
IdentitySaveFailed ==
    /\ identitySave # Nothing /\ identitySave.stage \in {"stale", "failed"}
    /\ LET latest == IF identityDraft # Nothing THEN identityDraft ELSE currentIdentity
       IN identityDraft' = [latest EXCEPT !.dirty = TRUE, !.conflict = (identitySave.stage = "stale")]
    /\ identitySave' = Nothing
    /\ UNCHANGED <<identity, cachedIdentity, identitySaved>>

\* Another administrator saves.
OtherIdentity(n) ==
    /\ identity.rev < LastIdentity
    /\ \E icon \in Icons : identity' = [name |-> n, icon |-> icon, rev |-> identity.rev + 1]
    /\ UNCHANGED <<cachedIdentity, identityDraft, identitySave, identitySaved>>

IdentityNext ==
    \/ \E of \in {"settings", "public"} : ReadIdentity(of)
    \/ \E r \in identityReads : IdentityServed(r) \/ IdentityReturned(r) \/ IdentityUnread(r)
    \/ \E n \in Maybe(SystemNames) : IdentityFormShown /\ TypeSystemName(n)
    \/ IdentityFormShown /\ SelectIcon
    \/ IdentityFormShown /\ RestoreDefaultIcon
    \/ IdentityFormShown /\ SubmitIdentity
    \/ ReloadConflict
    \/ SaveIdentityServed \/ SaveIdentityLost \/ IdentitySaveFailed
    \/ identitySave # Nothing /\ IdentitySaved(identitySave.saved)
    \/ \E n \in SystemNames : OtherIdentity(n)

-----------------------------------------------------------------------------
(* Properties. *)

\* What a save of the page replaces is the identity its draft was begun from:
\* no read that arrives while an edit is open moves the edit onto a newer one,
\* and an icon "kept" is the icon that was on the screen.
IdentityReplacedWasShown ==
    [][SaveIdentityServed /\ identity' # identity => identity = identitySave.sent.from]_identityVars

\* A page that has saved never again shows an older identity, in the form or
\* in the mark: no read begun before the save arrives after it.
IdentityReadsOwnSave ==
    identitySaved > 0 => settingsShown.rev >= identitySaved /\ markShown.rev >= identitySaved
=============================================================================
