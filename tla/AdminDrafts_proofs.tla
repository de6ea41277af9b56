------------------------- MODULE AdminDrafts_proofs -------------------------
(***************************************************************************)
(* Whatever the browser, the server and other administrators do in between: *)
(* an answer unlocks the form it answers, takes nothing but the work that    *)
(* was submitted, brings nothing back, and a save is applied only to the     *)
(* revision its author worked from.  The proofs rest on what the identifier  *)
(* of a submission stands for: one request, and the draft that was sent.     *)
(***************************************************************************)
EXTENDS AdminDrafts, TLAPS

\* A draft sends the revision its contents were loaded from.
GoodDraft(d) == d \in Draft /\ d.rev = d.base /\ d.base >= 1 /\ d.sub <= sequence

Numbered(m) == m.op = "save" /\ m.slot # "email"

GoodRequest(m) ==
    /\ m \in Request /\ GoodDraft(m.draft)
    /\ Numbered(m) => m.draft.sub >= 1
    /\ m.op = "discard" => m.slot = "retention"
    /\ m.outcome = "saved" /\ m.slot \in Cards => m.read >= 1

\* The browser and the server around the drafts.
Rest ==
    /\ slots \in SlotSets
    /\ session \in Accounts \union {Nothing} /\ shell \in Accounts \union {Nothing}
    /\ revision \in [AllSlots -> 0..MaxRevision] /\ \A s \in Cards : revision[s] >= 1
    /\ shown \in [AllSlots -> 0..MaxRevision]

Shape ==
    /\ Rest
    /\ owner \in Accounts \union {Nothing}
    /\ drafts \in [AllSlots -> Draft \union {Nothing}]
    /\ \A s \in AllSlots : drafts[s] # Nothing => GoodDraft(drafts[s])
    /\ \A m \in requests : GoodRequest(m)
    /\ sequence \in 0..MaxSubmissions

\* A submission has an identifier of its own.
OneEach == \A m, n \in requests : Numbered(m) /\ Numbered(n) /\ m.draft.sub = n.draft.sub => m = n

\* The draft an identifier is about is the one that was submitted: still locked, under
\* the same owner, by the same account.
Answers(m) == drafts[m.slot] # Nothing /\ drafts[m.slot].sub = m.draft.sub

Submitted ==
    \A m \in requests : m.op = "save" /\ Answers(m) =>
      /\ m.slot \notin Cards => drafts[m.slot].submitting /\ (m.owner # Nothing => owner = m.owner)
      /\ m.slot = "retention" /\ drafts[m.slot].submitting => drafts[m.slot].by = m.draft.by

DraftInv == Shape /\ OneEach /\ Submitted

-----------------------------------------------------------------------------
(* What most steps do: drafts start, are flagged or go; requests move on.   *)

Fresh(d) == d \in Draft /\ d.rev = d.base /\ d.base >= 1 /\ d.sub = 0 /\ ~d.submitting

Flagged(e, d) ==
    /\ d # Nothing /\ e \in Draft
    /\ e.rev = d.rev /\ e.base = d.base /\ e.sub = d.sub /\ e.submitting = d.submitting /\ e.by = d.by

\* The retention card looks at the account instead of the lock, and the e-mail page at nothing.
SlotMoves(s) ==
    \/ drafts'[s] = drafts[s] \/ drafts'[s] = Nothing
    \/ Fresh(drafts'[s]) \/ Flagged(drafts'[s], drafts[s])
    \/ s = "email" /\ GoodDraft(drafts'[s])
    \/ /\ s = "retention" /\ drafts[s] # Nothing /\ GoodDraft(drafts'[s])
       /\ drafts'[s].sub = drafts[s].sub /\ ~drafts'[s].submitting

OwnerMoves == owner' = owner \/ owner = Nothing \/ \A s \in AllSlots \ {"email"} : drafts'[s] = Nothing

Like(n, m) == n.op = m.op /\ n.slot = m.slot /\ n.owner = m.owner /\ n.draft = m.draft

\* Requests are added without a number, answered, given up by their editor, or settled.
RequestsMove ==
    \/ requests' = requests
    \/ \E r : GoodRequest(r) /\ ~Numbered(r) /\ requests' = requests \union {r}
    \/ \E m \in requests : requests' = requests \ {m}
    \/ \E m \in requests, n \in Request : Like(n, m) /\ GoodRequest(n) /\ requests' = (requests \ {m}) \union {n}
    \/ \E f \in [requests -> {"editor", "page", "gone"}] : requests' = {[m EXCEPT !.sender = f[m]] : m \in requests}

Quiet ==
    /\ sequence' = sequence
    /\ owner' \in Accounts \union {Nothing} /\ OwnerMoves
    /\ drafts' \in [AllSlots -> Draft \union {Nothing}] /\ \A s \in AllSlots : SlotMoves(s)
    /\ RequestsMove

\* Nothing but the sender of a request changes with its editor.
LEMMA Resent ==
  ASSUME NEW m, GoodRequest(m), NEW x \in {"editor", "page", "gone"}
  PROVE  LET n == [m EXCEPT !.sender = x]
         IN  GoodRequest(n) /\ Like(n, m) /\ n.outcome = m.outcome /\ n.read = m.read
  BY DEF GoodRequest, Request, Like, Numbered

\* Requests stay well formed and distinct, and are about what they were about.
LEMMA RequestsMoved ==
  ASSUME Shape, OneEach, RequestsMove, sequence' = sequence
  PROVE  /\ \A m \in requests' : GoodRequest(m)
         /\ \A m \in requests' : Numbered(m) => \E n \in requests : Like(m, n)
         /\ OneEach'
  <1>1. CASE requests' = requests
    BY <1>1 DEF Shape, OneEach, Like, Numbered
  <1>2. CASE \E r : GoodRequest(r) /\ ~Numbered(r) /\ requests' = requests \union {r}
    BY <1>2 DEF Shape, OneEach, Like, Numbered
  <1>3. CASE \E m \in requests : requests' = requests \ {m}
    BY <1>3 DEF Shape, OneEach, Like, Numbered
  <1>4. CASE \E m \in requests, n \in Request :
               Like(n, m) /\ GoodRequest(n) /\ requests' = (requests \ {m}) \union {n}
    BY <1>4 DEF Shape, OneEach, Like, Numbered
  <1>5. CASE \E f \in [requests -> {"editor", "page", "gone"}] :
               requests' = {[m EXCEPT !.sender = f[m]] : m \in requests}
    <2>1. PICK f \in [requests -> {"editor", "page", "gone"}] :
            requests' = {[m EXCEPT !.sender = f[m]] : m \in requests}
      BY <1>5
    <2> DEFINE g(m) == [m EXCEPT !.sender = f[m]]
    <2>2. \A m \in requests : GoodRequest(g(m)) /\ Like(g(m), m)
      BY Resent DEF Shape
    <2>3. requests' = {g(m) : m \in requests}
      BY <2>1
    <2> HIDE DEF g
    <2>4. \A m \in requests' : GoodRequest(m) /\ \E n \in requests : Like(m, n) /\ m = g(n)
      BY <2>2, <2>3
    <2>5. OneEach'
      <3> SUFFICES ASSUME NEW m \in requests', NEW n \in requests', Numbered(m), Numbered(n),
                          m.draft.sub = n.draft.sub
                   PROVE  m = n
        BY DEF OneEach, Numbered
      <3>1. PICK a \in requests : Like(m, a) /\ m = g(a)
        BY <2>4
      <3>2. PICK b \in requests : Like(n, b) /\ n = g(b)
        BY <2>4
      <3>3. a = b
        BY <3>1, <3>2 DEF OneEach, Like, Numbered
      <3> QED BY <3>1, <3>2, <3>3
    <2> QED BY <2>4, <2>5
  <1> QED BY <1>1, <1>2, <1>3, <1>4, <1>5 DEF RequestsMove

\* A quiet step keeps everything.
LEMMA QuietKeeps ==
  ASSUME DraftInv, Quiet, Rest'
  PROVE  DraftInv'
  <1>1. /\ \A m \in requests' : GoodRequest(m)
        /\ \A m \in requests' : Numbered(m) => \E n \in requests : Like(m, n)
        /\ OneEach'
    BY RequestsMoved DEF DraftInv, Quiet
  <1>2. \A s \in AllSlots : drafts'[s] # Nothing => GoodDraft(drafts'[s])
    <2>1. \A s \in AllSlots : drafts[s] # Nothing => GoodDraft(drafts[s])
      BY DEF DraftInv, Shape
    <2>2. \A s \in AllSlots : SlotMoves(s)
      BY DEF Quiet
    <2>3. sequence \in Nat
      BY DraftConstants DEF DraftInv, Shape
    <2> QED BY <2>1, <2>2, <2>3 DEF SlotMoves, Fresh, Flagged, GoodDraft, Draft
  <1>3. Shape'
    BY <1>1, <1>2 DEF DraftInv, Shape, Quiet, GoodDraft, GoodRequest, Numbered
  <1>4. Submitted'
    <2> SUFFICES ASSUME NEW m \in requests', m.op = "save", drafts'[m.slot] # Nothing,
                        drafts'[m.slot].sub = m.draft.sub
                 PROVE  /\ m.slot \notin Cards =>
                             drafts'[m.slot].submitting /\ (m.owner # Nothing => owner' = m.owner)
                        /\ m.slot = "retention" /\ drafts'[m.slot].submitting =>
                             drafts'[m.slot].by = m.draft.by
      BY DEF Submitted, Answers
    <2>1. CASE m.slot = "email"
      BY <2>1 DEF Cards
    <2>2. CASE m.slot # "email"
      <3>1. PICK n \in requests : Like(m, n)
        BY <1>1, <2>2 DEF Numbered
      <3>2. m.slot \in AllSlots /\ m.draft.sub >= 1
        BY <1>1, <2>2 DEF GoodRequest, Request, Numbered
      <3>3. SlotMoves(m.slot)
        BY <3>2 DEF Quiet
      <3>4. \/ drafts'[m.slot] = drafts[m.slot] \/ Flagged(drafts'[m.slot], drafts[m.slot])
            \/ /\ m.slot = "retention" /\ drafts[m.slot] # Nothing
               /\ drafts'[m.slot].sub = drafts[m.slot].sub /\ ~drafts'[m.slot].submitting
        BY <2>2, <3>2, <3>3 DEF SlotMoves, Fresh
      <3>5. Answers(n)
        BY <3>1, <3>4 DEF Answers, Like, Flagged
      <3>6. /\ m.slot \notin Cards => drafts[m.slot].submitting /\ (m.owner # Nothing => owner = m.owner)
            /\ m.slot = "retention" /\ drafts[m.slot].submitting => drafts[m.slot].by = m.draft.by
        BY <3>1, <3>5 DEF DraftInv, Submitted, Like
      <3>7. owner' = owner \/ owner = Nothing
        BY <2>2, <3>2 DEF Quiet, OwnerMoves
      <3> QED BY <3>4, <3>6, <3>7 DEF Flagged, Cards
    <2> QED BY <2>1, <2>2
  <1> QED BY <1>1, <1>3, <1>4 DEF DraftInv

-----------------------------------------------------------------------------
(* The quiet steps. *)

LEMMA StoreStays ==
  ASSUME Shape, UNCHANGED <<store, sequence>>, RequestsMove
  PROVE  Quiet
  BY DEF Shape, Quiet, OwnerMoves, SlotMoves, store

\* One draft changes.
LEMMA SlotChanges ==
  ASSUME Shape, NEW s \in AllSlots, NEW d, SetDraft(s, d), UNCHANGED <<owner, sequence>>, RequestsMove,
         \/ d = Nothing \/ Fresh(d) \/ Flagged(d, drafts[s]) \/ (s = "email" /\ GoodDraft(d))
         \/ /\ s = "retention" /\ drafts[s] # Nothing /\ GoodDraft(d)
            /\ d.sub = drafts[s].sub /\ ~d.submitting
  PROVE  Quiet
  <1>1. d \in Draft \union {Nothing}
    BY DEF Fresh, Flagged, GoodDraft
  <1>2. drafts' \in [AllSlots -> Draft \union {Nothing}] /\ drafts'[s] = d
        /\ \A t \in AllSlots \ {s} : drafts'[t] = drafts[t]
    BY <1>1 DEF SetDraft, Shape
  <1> QED BY <1>2 DEF Shape, Quiet, OwnerMoves, SlotMoves

\* The store is emptied.
LEMMA StoreCleared ==
  ASSUME Shape, drafts' = Empty, owner' \in Accounts \union {Nothing}, sequence' = sequence, RequestsMove
  PROVE  Quiet
  <1>1. drafts' \in [AllSlots -> Draft \union {Nothing}] /\ \A s \in AllSlots : drafts'[s] = Nothing
    BY DEF Empty
  <1> QED BY <1>1 DEF Quiet, OwnerMoves, SlotMoves

\* Leaving the settings forgets a typed password.
LEMMA PasswordGoes ==
  ASSUME Shape, drafts' = WithoutPassword, UNCHANGED <<owner, sequence>>, RequestsMove
  PROVE  Quiet
  <1>1. CASE drafts' = drafts
    BY <1>1, StoreStays DEF store
  <1>2. CASE drafts["email"] # Nothing /\ drafts' = [drafts EXCEPT !["email"].secret = FALSE]
    <2> DEFINE d == [drafts["email"] EXCEPT !.secret = FALSE]
    <2>1. "email" \in AllSlots
      BY DEF AllSlots, Cards
    <2>2. drafts["email"] \in Draft
      BY <1>2, <2>1 DEF Shape, GoodDraft
    <2>3. Flagged(d, drafts["email"])
      BY <1>2, <2>2 DEF Flagged, Draft
    <2>4. SetDraft("email", d)
      BY <1>2, <2>1 DEF SetDraft, Shape
    <2> QED BY <2>1, <2>3, <2>4, SlotChanges
  <1> QED BY <1>1, <1>2 DEF WithoutPassword

\* A page or a dialog that goes leaves its requests without a sender.
LEMMA Abandon ==
  ASSUME requests' = Abandoned
  PROVE  RequestsMove
  <1> DEFINE f == [m \in requests |-> "gone"]
  <1>1. f \in [requests -> {"editor", "page", "gone"}] /\ requests' = {[m EXCEPT !.sender = f[m]] : m \in requests}
    BY DEF Abandoned
  <1> HIDE DEF f
  <1> QED BY <1>1 DEF RequestsMove

\* What an editor starts from.
LEMMA InitialFresh ==
  ASSUME Shape, NEW s \in AllSlots, shown[s] > 0, shell # Nothing
  PROVE  Fresh(Initial(s))
  <1>1. shown[s] \in 0..MaxRevision /\ shell \in Accounts
    BY DEF Shape, Rest
  <1>2. Initial(s) \in Draft
    BY <1>1, DraftConstants DEF Initial, Draft
  <1> QED BY <1>1, <1>2 DEF Initial, Fresh

\* Flags change, what was submitted does not.
LEMMA FlagKeeps ==
  ASSUME Shape, NEW s \in AllSlots, drafts[s] # Nothing, NEW x \in BOOLEAN
  PROVE  Flagged([drafts[s] EXCEPT !.conflict = x], drafts[s])
  BY DEF Shape, GoodDraft, Flagged, Draft

\* A dialog that closes leaves its requests to its page.
LEMMA ClosedResends ==
  ASSUME Shape, CloseEditor
  PROVE  \E f \in [requests -> {"editor", "page", "gone"}] : requests' = {[m EXCEPT !.sender = f[m]] : m \in requests}
  <1> DEFINE f == [m \in requests |-> IF m.slot = "assignment" THEN m.sender ELSE Lesser(m.sender)]
  <1>1. \A m \in requests : m \in Request
    BY DEF Shape, GoodRequest
  <1>2. \A m \in requests :
          /\ m.sender \in {"editor", "page", "gone"} /\ Lesser(m.sender) \in {"editor", "page", "gone"}
          /\ [m EXCEPT !.sender = m.sender] = m
    BY <1>1 DEF Request, Lesser
  <1>3. f \in [requests -> {"editor", "page", "gone"}]
    BY <1>2
  <1> DEFINE g(m) == [m EXCEPT !.sender = f[m]]
             h(m) == IF m.slot = "assignment" THEN m ELSE [m EXCEPT !.sender = Lesser(@)]
  <1>4. \A m \in requests : g(m) = h(m)
    BY <1>2
  <1>5. requests' = {h(m) : m \in requests}
    BY DEF CloseEditor
  <1>6. requests' = {g(m) : m \in requests}
    <2> HIDE DEF g, h
    <2> QED BY <1>4, <1>5
  <1> HIDE DEF f
  <1> QED BY <1>3, <1>6

\* Sign-in, session changes, sign-out, navigation and reads.
LEMMA SessionQuiet ==
  ASSUME DraftInv,
         \/ \E a \in Accounts : LogIn(a)
         \/ \E a \in Accounts \union {Nothing} : SessionChanges(a)
         \/ LogoutAsked \/ (\E ok \in BOOLEAN : LogoutAnswered(ok)) \/ MonitorSignsOut \/ LeaveShell
         \/ (\E p \in {"roles", "users", "invitations", "settings"} : Navigate(p))
         \/ (\E s \in slots : ReadAnswered(s) \/ OpenEditor(s) \/ OtherEdit(s))
         \/ CloseEditor \/ OwnerEffect
  PROVE  Quiet /\ Rest'
  <1>0. Shape /\ Rest /\ slots \subseteq AllSlots
    BY DraftConstants DEF DraftInv, Shape, Rest
  <1>z. Unread \in [AllSlots -> 0..MaxRevision]
    BY DraftConstants DEF Unread
  <1>y. [s \in AllSlots |-> IF s \in Cards THEN 0 ELSE shown[s]] \in [AllSlots -> 0..MaxRevision]
    BY <1>0, DraftConstants DEF Rest
  <1>x. requests' = requests => RequestsMove
    BY DEF RequestsMove
  <1>1. CASE \E a \in Accounts : LogIn(a)
    BY <1>0, <1>1, <1>x, StoreStays DEF LogIn, Rest
  <1>2. CASE \E a \in Accounts \union {Nothing} : SessionChanges(a)
    BY <1>0, <1>2, <1>x, StoreStays DEF SessionChanges, Rest, browser
  <1>3. CASE LogoutAsked
    BY <1>0, <1>3, <1>x, StoreStays DEF LogoutAsked, Rest, server
  <1>4. CASE \E ok \in BOOLEAN : LogoutAnswered(ok)
    <2>1. Rest'
      BY <1>0, <1>4, <1>y DEF LogoutAnswered, ClearExpiredSession, Rest
    <2>2. UNCHANGED <<sequence, requests>> /\ (UNCHANGED store \/ (drafts' = Empty /\ owner' = Nothing))
      BY <1>4 DEF LogoutAnswered, ClearExpiredSession, ClearAll
    <2> QED BY <1>0, <1>x, <2>1, <2>2, StoreStays, StoreCleared
  <1>5. CASE MonitorSignsOut
    <2>1. Rest'
      BY <1>0, <1>5, <1>y DEF MonitorSignsOut, ClearExpiredSession, Rest, server
    <2>2. UNCHANGED <<sequence, requests>> /\ drafts' = Empty /\ owner' = Nothing
      BY <1>5 DEF MonitorSignsOut, ClearExpiredSession, ClearAll
    <2> QED BY <1>0, <1>x, <2>1, <2>2, StoreCleared
  <1>6. CASE LeaveShell
    <2>1. Rest'
      BY <1>0, <1>6, <1>z DEF LeaveShell, Rest, server
    <2> QED BY <1>0, <1>6, <2>1, PasswordGoes, Abandon DEF LeaveShell
  <1>7. CASE \E p \in {"roles", "users", "invitations", "settings"} : Navigate(p)
    <2>1. CASE session = Nothing
      <3>1. Rest'
        BY <1>0, <1>7, <1>y, <2>1 DEF Navigate, ClearExpiredSession, Rest, server
      <3>2. UNCHANGED <<sequence, requests>> /\ drafts' = Empty /\ owner' = Nothing
        BY <1>7, <2>1 DEF Navigate, ClearExpiredSession, ClearAll
      <3> QED BY <1>0, <1>x, <3>1, <3>2, StoreCleared
    <2>2. CASE session # Nothing
      <3>1. Rest'
        BY <1>0, <1>7, <1>z, <2>2 DEF Navigate, Rest, server
      <3> QED BY <1>0, <1>7, <2>2, <3>1, PasswordGoes, Abandon DEF Navigate
    <2> QED BY <2>1, <2>2
  <1>8. CASE \E s \in slots : ReadAnswered(s)
    <2>1. CASE session = Nothing
      <3>1. Rest'
        BY <1>0, <1>8, <1>y, <2>1 DEF ReadAnswered, ClearExpiredSession, Rest, server
      <3>2. UNCHANGED <<sequence, requests>> /\ drafts' = Empty /\ owner' = Nothing
        BY <1>8, <2>1 DEF ReadAnswered, ClearExpiredSession, ClearAll
      <3> QED BY <1>0, <1>x, <3>1, <3>2, StoreCleared
    <2>2. CASE session # Nothing
      <3>1. Rest'
        BY <1>0, <1>8, <2>2 DEF ReadAnswered, Rest, server
      <3> QED BY <1>0, <1>8, <1>x, <2>2, <3>1, StoreStays DEF ReadAnswered
    <2> QED BY <2>1, <2>2
  <1>9. CASE \E s \in slots : OpenEditor(s)
    BY <1>0, <1>9, <1>x, StoreStays DEF OpenEditor, Rest, server
  <1>10. CASE \E s \in slots : OtherEdit(s)
    <2>1. PICK s \in slots : OtherEdit(s)
      BY <1>10
    <2>2. Rest'
      BY <1>0, <2>1, DraftConstants DEF OtherEdit, Rest, browser
    <2> QED BY <1>0, <1>x, <2>1, <2>2, StoreStays DEF OtherEdit
  <1>11. CASE CloseEditor
    <2>7. RequestsMove
      BY <1>0, <1>11, ClosedResends DEF RequestsMove
    <2>8. UNCHANGED <<store, sequence>>
      BY <1>11 DEF CloseEditor
    <2>9. Rest'
      BY <1>0, <1>11 DEF CloseEditor, Rest, server
    <2> QED BY <1>0, <2>7, <2>8, <2>9, StoreStays
  <1>12. CASE OwnerEffect
    <2>1. Rest'
      BY <1>0, <1>12, <1>z DEF OwnerEffect, Rest, server
    <2>2. UNCHANGED <<sequence, requests>> /\ owner' = shell /\ shell \in Accounts
      BY <1>0, <1>12 DEF OwnerEffect, SetOwner, Rest
    <2>3. CASE owner \in {Nothing, shell}
      <3>1. drafts' = drafts
        BY <1>12, <2>3 DEF OwnerEffect, SetOwner
      <3> QED BY <1>0, <1>x, <2>1, <2>2, <2>3, <3>1 DEF Shape, Quiet, OwnerMoves, SlotMoves
    <2>4. CASE owner \notin {Nothing, shell}
      <3>1. drafts' = Empty
        BY <1>12, <2>4 DEF OwnerEffect, SetOwner
      <3> QED BY <1>0, <1>x, <2>1, <2>2, <3>1, StoreCleared
    <2> QED BY <2>3, <2>4
  <1> QED BY <1>1, <1>2, <1>3, <1>4, <1>5, <1>6, <1>7, <1>8, <1>9, <1>10, <1>11, <1>12

\* The effects of the editors, and typing.
LEMMA EditorQuiet ==
  ASSUME DraftInv,
         \/ (\E s \in slots : RoleEffect(s) \/ Edit(s) \/ Reset(s))
         \/ AssignmentEffect \/ InvitationEffect \/ EmailEffect \/ RetentionEffect
  PROVE  Quiet /\ Rest'
  <1>0. Shape /\ Rest /\ slots \subseteq AllSlots
    BY DraftConstants DEF DraftInv, Shape, Rest
  <1>1. UNCHANGED <<slots, server, owner, browser, requests, sequence>>
    BY DEF RoleEffect, Edit, Reset, AssignmentEffect, InvitationEffect, EmailEffect, RetentionEffect
  <1>2. Rest' /\ RequestsMove /\ UNCHANGED <<owner, sequence>>
    BY <1>0, <1>1 DEF Rest, server, browser, RequestsMove
  <1>3. {"assignment", "invitation", "email", "retention"} \subseteq AllSlots
    BY DEF AllSlots, Cards
  <1>4. ASSUME NEW s \in AllSlots, NEW d, SetDraft(s, d),
               \/ d = Nothing \/ Fresh(d) \/ Flagged(d, drafts[s]) \/ (s = "email" /\ GoodDraft(d))
        PROVE  Quiet
    BY <1>0, <1>2, <1>4, SlotChanges
  <1>5. ASSUME NEW s \in AllSlots, Mounted(s) \/ (shell # Nothing /\ shown[s] > 0), SetDraft(s, Initial(s))
        PROVE  Quiet
    BY <1>0, <1>4, <1>5, InitialFresh DEF Mounted
  <1>6. ASSUME NEW s \in AllSlots, drafts[s] # Nothing, SetDraft(s, [drafts[s] EXCEPT !.conflict = TRUE])
        PROVE  Quiet
    BY <1>0, <1>4, <1>6, FlagKeeps
  <1>7. CASE \E s \in slots : RoleEffect(s)
    BY <1>0, <1>2, <1>5, <1>6, <1>7 DEF RoleEffect
  <1>8. CASE \E s \in slots : Edit(s)
    <2>1. PICK s \in slots : Edit(s)
      BY <1>8
    <2> DEFINE d == [drafts[s] EXCEPT !.by = shell, !.conflict = FALSE, !.secret = (s = "email"),
                         !.sub = IF s = "retention" THEN 0 ELSE @]
    <2>2. SetDraft(s, d) /\ s \in {"email", "retention"} /\ drafts[s] # Nothing /\ shell \in Accounts
          /\ (s = "retention" => ~drafts[s].submitting)
      BY <1>0, <2>1 DEF Edit, Unlocked, Mounted, Cards, Rest
    <2>3. drafts[s] \in Draft /\ GoodDraft(drafts[s])
      BY <1>0, <2>2 DEF Shape, GoodDraft
    <2>4. d \in Draft /\ d.rev = drafts[s].rev /\ d.base = drafts[s].base /\ d.submitting = drafts[s].submitting
          /\ d.sub = IF s = "retention" THEN 0 ELSE drafts[s].sub
      <3>1. ASSUME NEW e \in Draft, NEW x \in BOOLEAN, NEW k \in 0..MaxSubmissions
            PROVE  LET f == [e EXCEPT !.by = shell, !.conflict = FALSE, !.secret = x, !.sub = k]
                   IN  /\ f \in Draft /\ f.rev = e.rev /\ f.base = e.base
                       /\ f.submitting = e.submitting /\ f.sub = k
        BY <2>2, <3>1 DEF Draft
      <3>2. 0 \in 0..MaxSubmissions /\ drafts[s].sub \in 0..MaxSubmissions /\ (s = "email") \in BOOLEAN
        BY <2>3, DraftConstants DEF Draft
      <3>3. PICK x \in BOOLEAN : x = (s = "email")
        BY <3>2
      <3>4. PICK k \in 0..MaxSubmissions : k = IF s = "retention" THEN 0 ELSE drafts[s].sub
        BY <3>2
      <3>5. d = [drafts[s] EXCEPT !.by = shell, !.conflict = FALSE, !.secret = x, !.sub = k]
        BY <3>3, <3>4, Zenon
      <3> DEFINE f == [drafts[s] EXCEPT !.by = shell, !.conflict = FALSE, !.secret = x, !.sub = k]
      <3>6. /\ f \in Draft /\ f.rev = drafts[s].rev /\ f.base = drafts[s].base
            /\ f.submitting = drafts[s].submitting /\ f.sub = k
        <4>1. drafts[s] \in Draft
          BY <2>3
        <4> QED BY <3>1, <4>1
      <3> HIDE DEF d, f
      <3>7. d = f
        BY <3>5 DEF f
      <3> QED BY <3>4, <3>6, <3>7
    <2> HIDE DEF d
    <2>5. s \in AllSlots
      BY <1>0
    <2>6. CASE s = "retention"
      <3>1. Fresh(d)
        BY <2>2, <2>3, <2>4, <2>6 DEF Fresh, GoodDraft
      <3> QED BY <1>2, <1>4, <2>2, <2>5, <3>1
    <2>7. CASE s = "email"
      <3>1. GoodDraft(d)
        BY <2>3, <2>4, <2>7 DEF GoodDraft
      <3> QED BY <1>2, <1>4, <2>2, <2>5, <2>7, <3>1
    <2> QED BY <2>2, <2>6, <2>7
  <1>9. CASE \E s \in slots : Reset(s)
    BY <1>0, <1>2, <1>5, <1>9 DEF Reset
  <1>10. CASE AssignmentEffect
    BY <1>2, <1>3, <1>5, <1>6, <1>10 DEF AssignmentEffect
  <1>11. CASE InvitationEffect
    BY <1>2, <1>3, <1>5, <1>11 DEF InvitationEffect
  <1>12. CASE EmailEffect
    BY <1>2, <1>3, <1>5, <1>12 DEF EmailEffect
  <1>13. CASE RetentionEffect
    BY <1>2, <1>3, <1>4, <1>5, <1>13 DEF RetentionEffect
  <1> QED BY <1>7, <1>8, <1>9, <1>10, <1>11, <1>12, <1>13

\* The API takes a request, or its answer is lost; a role is deleted.
LEMMA ServerQuiet ==
  ASSUME DraftInv,
         \/ (\E m \in requests : Serve(m) \/ LoseAnswer(m))
         \/ (\E s \in slots : DeleteRole(s))
  PROVE  Quiet /\ Rest'
  <1>0. Shape /\ Rest /\ slots \subseteq AllSlots
    BY DraftConstants DEF DraftInv, Shape, Rest
  <1>1. CASE \E s \in slots : DeleteRole(s)
    <2>1. PICK s \in slots : DeleteRole(s)
      BY <1>1
    <2>2. SetDraft(s, Nothing) /\ UNCHANGED <<owner, sequence>> /\ s \in AllSlots /\ RequestsMove
      BY <1>0, <2>1 DEF DeleteRole, RequestsMove
    <2>3. Rest'
      BY <1>0, <2>1, DraftConstants DEF DeleteRole, Rest, browser, Cards
    <2> QED BY <1>0, <2>2, <2>3, SlotChanges
  <1>2. CASE \E m \in requests : LoseAnswer(m)
    <2>1. PICK m \in requests : LoseAnswer(m)
      BY <1>2
    <2> DEFINE n == [m EXCEPT !.outcome = "failed", !.read = 0]
    <2>2. GoodRequest(m) /\ requests' = (requests \ {m}) \union {n} /\ UNCHANGED <<slots, server, store, browser, sequence>>
      BY <1>0, <2>1 DEF LoseAnswer, Shape
    <2>3. n \in Request /\ Like(n, m) /\ GoodRequest(n)
      <3>1. m \in Request /\ 0 \in 0..MaxRevision
        BY <2>2, DraftConstants DEF GoodRequest
      <3>2. n \in Request /\ Like(n, m) /\ n.outcome = "failed"
        BY <3>1 DEF Request, Like
      <3> QED BY <2>2, <3>2 DEF GoodRequest, Like, Numbered
    <2> HIDE DEF n
    <2>4. RequestsMove
      BY <2>2, <2>3 DEF RequestsMove
    <2>5. Rest'
      BY <1>0, <2>2 DEF Rest, server, browser
    <2> QED BY <1>0, <2>2, <2>4, <2>5, StoreStays
  <1>3. CASE \E m \in requests : Serve(m)
    <2>1. PICK m \in requests : Serve(m)
      BY <1>3
    <2>2. GoodRequest(m) /\ m.slot \in AllSlots /\ UNCHANGED <<slots, session, store, browser, sequence>>
      BY <1>0, <2>1 DEF Serve, Shape, GoodRequest, Request
    <2>3. revision[m.slot] \in 0..MaxRevision /\ (m.slot \in Cards => revision[m.slot] >= 1)
      BY <1>0, <2>2 DEF Rest
    <2>4. Rest' /\ (m.op = "save" /\ revision' # revision => revision'[m.slot] = revision[m.slot] + 1)
          /\ (m.slot \in Cards => revision'[m.slot] \in 1..MaxRevision)
      <3>1. CASE revision' = revision
        BY <1>0, <2>2, <2>3, <3>1, DraftConstants DEF Rest, browser
      <3>2. CASE revision' # revision
        <4>1. revision' = [revision EXCEPT ![m.slot] = @ + 1] /\ revision[m.slot] < MaxRevision
          BY <2>1, <3>2 DEF Serve
        <4>2. revision' \in [AllSlots -> 0..MaxRevision] /\ revision'[m.slot] = revision[m.slot] + 1
              /\ \A s \in AllSlots : revision'[s] >= revision[s]
          BY <1>0, <2>2, <2>3, <4>1, DraftConstants DEF Rest
        <4> QED BY <1>0, <2>2, <2>3, <4>2, DraftConstants DEF Rest, browser, Cards, AllSlots
      <3> QED BY <3>1, <3>2
    <2>5. PICK o \in {"saved", "stale", "denied", "failed"}, x \in 0..MaxRevision :
            /\ requests' = (requests \ {m}) \union {[m EXCEPT !.outcome = o, !.read = x]}
            /\ o = "saved" /\ m.slot \in Cards => x >= 1
      <3>0. m.read \in 0..MaxRevision /\ \A o : [m EXCEPT !.outcome = o] = [m EXCEPT !.outcome = o, !.read = m.read]
        BY <2>2 DEF GoodRequest, Request
      <3>1. CASE \E o \in {"stale", "denied", "failed"} : Settle(m, o)
        <4>1. PICK o \in {"stale", "denied", "failed"} : requests' = (requests \ {m}) \union {[m EXCEPT !.outcome = o]}
          BY <3>1 DEF Settle
        <4>2. requests' = (requests \ {m}) \union {[m EXCEPT !.outcome = o, !.read = m.read]}
          BY <3>0, <4>1
        <4> QED BY <3>0, <4>2
      <3>2. CASE /\ m.op = "save"
                 /\ requests' = (requests \ {m}) \union
                      {[m EXCEPT !.outcome = "saved", !.read = IF m.slot \in Cards THEN revision'[m.slot] ELSE 0]}
        <4>1. PICK y \in 0..MaxRevision : y = IF m.slot \in Cards THEN revision'[m.slot] ELSE 0
          BY <2>4, DraftConstants
        <4>2. requests' = (requests \ {m}) \union {[m EXCEPT !.outcome = "saved", !.read = y]}
          BY <3>2, <4>1
        <4>3. m.slot \in Cards => y >= 1
          BY <2>4, <4>1
        <4> QED BY <4>2, <4>3
      <3>3. CASE /\ m.op = "discard"
                 /\ requests' = (requests \ {m}) \union {[m EXCEPT !.outcome = "saved", !.read = revision[m.slot]]}
        BY <2>3, <3>3
      <3> QED BY <2>1, <3>1, <3>2, <3>3 DEF Serve
    <2> DEFINE n == [m EXCEPT !.outcome = o, !.read = x]
    <2>6. n \in Request /\ Like(n, m) /\ GoodRequest(n)
      BY <2>2, <2>5 DEF GoodRequest, Request, Like, Numbered
    <2> HIDE DEF n
    <2>7. RequestsMove
      BY <2>5, <2>6 DEF RequestsMove, n
    <2> QED BY <1>0, <2>2, <2>4, <2>7, StoreStays
  <1> QED BY <1>1, <1>2, <1>3

\* What an editor submits.
LEMMA SentGood ==
  ASSUME Shape, NEW op \in {"save", "discard"}, NEW s \in AllSlots, NEW d, GoodDraft(d),
         op = "discard" => s = "retention"
  PROVE  LET r == NewRequest(op, s, d)
         IN  /\ r \in Request
             /\ r.op = op /\ r.slot = s /\ r.owner = owner /\ r.draft = d /\ r.outcome = "pending"
             /\ Numbered(r) => op = "save" /\ s # "email"
             /\ ~Numbered(r) => GoodRequest(r)
  <1> DEFINE r == NewRequest(op, s, d)
  <1>1. r.op = op /\ r.slot = s /\ r.owner = owner /\ r.draft = d /\ r.outcome = "pending"
        /\ r.sender = "editor" /\ r.read = 0
    BY DEF NewRequest
  <1>2. r \in Request
    BY DraftConstants DEF NewRequest, Request, Shape, GoodDraft
  <1> HIDE DEF r
  <1>3. /\ Numbered(r) => op = "save" /\ s # "email"
        /\ ~Numbered(r) => GoodRequest(r)
    BY <1>1, <1>2 DEF Numbered, GoodRequest
  <1> QED BY <1>1, <1>2, <1>3 DEF r

\* Without an identifier: the e-mail settings, and the reading of a conflict.
LEMMA UnnumberedQuiet ==
  ASSUME DraftInv, SubmitEmail \/ DiscardConflict
  PROVE  Quiet /\ Rest'
  <1>0. Shape /\ Rest /\ slots \subseteq AllSlots /\ {"email", "retention"} \subseteq AllSlots
    BY DraftConstants DEF DraftInv, Shape, Rest, AllSlots, Cards
  <1>1. CASE SubmitEmail
    <2> DEFINE d == [drafts["email"] EXCEPT !.submitting = TRUE]
               r == NewRequest("save", "email", d)
    <2>1. drafts["email"] # Nothing /\ GoodDraft(drafts["email"])
      BY <1>0, <1>1 DEF SubmitEmail, CanSubmit, Unlocked, Shape
    <2>2. GoodDraft(d)
      BY <2>1 DEF GoodDraft, Draft
    <2>3. SetDraft("email", d) /\ requests' = requests \union {r}
          /\ UNCHANGED <<slots, server, owner, browser, sequence>>
      BY <1>1 DEF SubmitEmail
    <2> HIDE DEF d
    <2>4. GoodRequest(r) /\ ~Numbered(r)
      BY <1>0, <2>2, SentGood
    <2> HIDE DEF r
    <2>5. RequestsMove
      BY <2>3, <2>4 DEF RequestsMove
    <2>6. Rest'
      BY <1>0, <2>3 DEF Rest, server, browser
    <2> QED BY <1>0, <2>2, <2>3, <2>5, <2>6, SlotChanges
  <1>2. CASE DiscardConflict
    <2> DEFINE r == NewRequest("discard", "retention", drafts["retention"])
    <2>1. GoodDraft(drafts["retention"])
      BY <1>0, <1>2 DEF DiscardConflict, Shape
    <2>2. requests' = requests \union {r} /\ UNCHANGED <<slots, server, store, browser, sequence>>
      BY <1>2 DEF DiscardConflict
    <2>3. GoodRequest(r) /\ ~Numbered(r)
      BY <1>0, <2>1, SentGood
    <2> HIDE DEF r
    <2>4. RequestsMove
      BY <2>2, <2>3 DEF RequestsMove
    <2>5. Rest'
      BY <1>0, <2>2 DEF Rest, server, browser
    <2> QED BY <1>0, <2>2, <2>4, <2>5, StoreStays
  <1> QED BY <1>1, <1>2

-----------------------------------------------------------------------------
(* A submission: a new identifier, in the draft and in the request.         *)

\* A good draft once n identifiers have been given.
GoodBy(d, n) == d \in Draft /\ d.rev = d.base /\ d.base >= 1 /\ d.sub <= n

LEMMA NumberGiven ==
  ASSUME DraftInv, NEW s \in AllSlots, NEW d, NEW sent \in {TRUE, FALSE},
         s \in Cards => sent /\ s # "email",
         GoodBy(d, sequence'), d.sub = sequence', sent => d.submitting,
         sequence < MaxSubmissions, sequence' = sequence + 1,
         SetDraft(s, d), UNCHANGED <<slots, server, owner, browser>>,
         requests' = IF sent THEN requests \union {NewRequest("save", s, d)} ELSE requests
  PROVE  DraftInv'
  <1>0. Shape /\ Rest /\ sequence \in 0..MaxSubmissions
    BY DEF DraftInv, Shape
  <1>1. Rest' /\ owner' = owner
    BY <1>0 DEF Rest, server, browser
  <1>2. sequence' \in 0..MaxSubmissions /\ sequence \in Nat /\ sequence' >= 1
    BY <1>0, DraftConstants
  <1>3. drafts' \in [AllSlots -> Draft \union {Nothing}] /\ drafts'[s] = d
        /\ \A t \in AllSlots \ {s} : drafts'[t] = drafts[t]
    BY <1>0 DEF SetDraft, Shape, GoodBy
  <1>4. ASSUME NEW e, GoodDraft(e)
        PROVE  GoodBy(e, sequence') /\ e.sub # sequence'
    BY <1>2, <1>4 DEF GoodDraft, GoodBy, Draft
  <1>5. \A t \in AllSlots : drafts'[t] # Nothing => GoodBy(drafts'[t], sequence')
    BY <1>0, <1>3, <1>4 DEF Shape
  <1>6. \A m \in requests : m \in Request /\ GoodRequest(m)' /\ m.draft.sub # sequence'
    <2> SUFFICES ASSUME NEW m \in requests
                 PROVE  m \in Request /\ GoodRequest(m)' /\ m.draft.sub # sequence'
      OBVIOUS
    <2>1. GoodRequest(m)
      BY <1>0 DEF Shape
    <2>2. GoodBy(m.draft, sequence') /\ m.draft.sub # sequence'
      BY <1>4, <2>1 DEF GoodRequest
    <2> QED BY <2>1, <2>2 DEF GoodRequest, GoodDraft, GoodBy, Numbered
  <1>r. PICK r : r = NewRequest("save", s, d)
    OBVIOUS
  <1>7. /\ r.op = "save" /\ r.slot = s /\ r.owner = owner /\ r.draft = d /\ r.outcome = "pending"
        /\ r \in Request
    <2>1. d \in Draft
      BY DEF GoodBy
    <2> QED BY <1>0, <1>r, <2>1, DraftConstants DEF NewRequest, Request, Shape
  <1>8. requests' = requests \/ (sent /\ requests' = requests \union {r})
    BY <1>r
  <1>9. s # "email" => GoodRequest(r)'
    BY <1>2, <1>7 DEF GoodRequest, GoodDraft, GoodBy, Numbered
  <1>10. sent => s # "email"
    BY DEF Cards
  <1>11. Shape'
    <2>1. \A m : m \in requests' => m \in requests \/ (sent /\ m = r)
      BY <1>8
    <2>2. ASSUME NEW m, m \in requests'
          PROVE  GoodRequest(m)'
      BY <1>6, <1>9, <1>10, <2>1, <2>2
    <2>3. (\A m \in requests : GoodRequest(m))'
      BY <2>2
    <2>4. (\A t \in AllSlots : drafts[t] # Nothing => GoodDraft(drafts[t]))'
      BY <1>5 DEF GoodDraft, GoodBy
    <2> QED BY <1>0, <1>1, <1>2, <1>3, <2>3, <2>4 DEF Shape
  <1>12. OneEach'
    BY <1>0, <1>6, <1>7, <1>8 DEF DraftInv, OneEach, Numbered
  <1>13. Submitted'
    <2> SUFFICES ASSUME NEW m \in requests', m.op = "save", drafts'[m.slot] # Nothing,
                        drafts'[m.slot].sub = m.draft.sub
                 PROVE  /\ m.slot \notin Cards =>
                             drafts'[m.slot].submitting /\ (m.owner # Nothing => owner' = m.owner)
                        /\ m.slot = "retention" /\ drafts'[m.slot].submitting =>
                             drafts'[m.slot].by = m.draft.by
      BY DEF Submitted, Answers
    <2>1. CASE m \in requests
      <3>1. m.slot \in AllSlots /\ m.slot # s
        BY <1>3, <1>6, <2>1 DEF Request
      <3>2. Answers(m)
        BY <1>3, <3>1 DEF Answers
      <3> QED BY <1>1, <1>3, <2>1, <3>1, <3>2 DEF DraftInv, Submitted
    <2>2. CASE sent /\ m = r
      BY <1>1, <1>3, <1>7, <2>2
    <2> QED BY <1>8, <2>1, <2>2
  <1> QED BY <1>11, <1>12, <1>13 DEF DraftInv

\* The submissions of the forms, and the ones their validation stops.
LEMMA NumberedSubmission ==
  ASSUME DraftInv,
         \/ (\E s \in slots : SubmitRole(s) \/ SubmitInvalid(s))
         \/ SubmitAssignment \/ SubmitInvitation \/ SubmitRetention
  PROVE  DraftInv'
  <1>0. Shape /\ slots \subseteq AllSlots /\ sequence \in 0..MaxSubmissions
    BY DraftConstants DEF DraftInv, Shape, Rest
  <1>1. {"assignment", "invitation", "retention"} \subseteq AllSlots /\ "retention" \in Cards
        /\ RoleSlots \intersect Cards = {} /\ "assignment" \notin Cards /\ "invitation" \notin Cards
    BY DEF AllSlots, Cards, RoleSlots
  <1>2. ASSUME NEW s \in AllSlots, CanSubmit(s), sequence' = sequence + 1
        PROVE  LET d == [drafts[s] EXCEPT !.sub = sequence', !.submitting = TRUE]
                   e == [drafts[s] EXCEPT !.sub = sequence']
               IN  /\ sequence < MaxSubmissions
                   /\ GoodBy(d, sequence') /\ d.sub = sequence' /\ d.submitting
                   /\ GoodBy(e, sequence') /\ e.sub = sequence'
                   /\ [d EXCEPT !.rev = SentRevision(s)] = d
    <2>1. GoodDraft(drafts[s]) /\ drafts[s] \in Draft /\ sequence < MaxSubmissions
      BY <1>0, <1>2 DEF CanSubmit, Unlocked, Shape, GoodDraft
    <2>2. sequence' \in 0..MaxSubmissions /\ sequence' >= 1
      BY <1>0, <1>2, <2>1, DraftConstants
    <2> DEFINE d == [drafts[s] EXCEPT !.sub = sequence', !.submitting = TRUE]
               e == [drafts[s] EXCEPT !.sub = sequence']
    <2>3. d \in Draft /\ d.sub = sequence' /\ d.submitting /\ d.rev = drafts[s].rev /\ d.base = drafts[s].base
      BY <2>1, <2>2 DEF Draft
    <2>4. e \in Draft /\ e.sub = sequence' /\ e.rev = drafts[s].rev /\ e.base = drafts[s].base
      BY <2>1, <2>2 DEF Draft
    <2>5. [d EXCEPT !.rev = SentRevision(s)] = d
      BY <2>1 DEF SentRevision, Draft
    <2> HIDE DEF d, e
    <2>6. GoodBy(d, sequence') /\ GoodBy(e, sequence')
      BY <2>1, <2>2, <2>3, <2>4 DEF GoodDraft, GoodBy
    <2> QED BY <2>1, <2>3, <2>4, <2>5, <2>6 DEF d, e
  <1>3. ASSUME NEW s \in AllSlots, CanSubmit(s), sequence' = sequence + 1, s # "email",
               NEW d, d = [drafts[s] EXCEPT !.sub = sequence', !.submitting = TRUE],
               SetDraft(s, d), requests' = requests \union {NewRequest("save", s, d)},
               UNCHANGED <<slots, server, owner, browser>>
        PROVE  DraftInv'
    <2>1. /\ sequence < MaxSubmissions /\ GoodBy(d, sequence') /\ d.sub = sequence' /\ d.submitting
      BY <1>2, <1>3
    <2>2. requests' = IF TRUE THEN requests \union {NewRequest("save", s, d)} ELSE requests
      BY <1>3
    <2> QED BY <1>3, <2>1, <2>2, NumberGiven
  <1>4. CASE \E s \in slots : SubmitRole(s)
    <2>1. PICK s \in slots : SubmitRole(s)
      BY <1>4
    <2> DEFINE d == [drafts[s] EXCEPT !.sub = sequence', !.submitting = TRUE]
    <2>2. /\ s \in AllSlots /\ s # "email" /\ CanSubmit(s) /\ sequence' = sequence + 1
          /\ SetDraft(s, d) /\ requests' = requests \union {NewRequest("save", s, [d EXCEPT !.rev = SentRevision(s)])}
          /\ UNCHANGED <<slots, server, owner, browser>>
      BY <1>0, <2>1 DEF SubmitRole, RoleSlots
    <2>3. [d EXCEPT !.rev = SentRevision(s)] = d
      BY <1>2, <2>2
    <2> QED BY <1>3, <2>2, <2>3
  <1>5. CASE \E s \in slots : SubmitInvalid(s)
    <2>1. PICK s \in slots : SubmitInvalid(s)
      BY <1>5
    <2> DEFINE e == [drafts[s] EXCEPT !.sub = sequence']
    <2>2. /\ s \in AllSlots /\ s \notin Cards /\ CanSubmit(s) /\ sequence' = sequence + 1
          /\ SetDraft(s, e) /\ UNCHANGED <<slots, server, owner, browser>>
          /\ requests' = IF FALSE THEN requests \union {NewRequest("save", s, e)} ELSE requests
      BY <1>0, <2>1 DEF SubmitInvalid
    <2>3. sequence < MaxSubmissions /\ GoodBy(e, sequence') /\ e.sub = sequence'
      BY <1>2, <2>2
    <2> QED BY <2>2, <2>3, NumberGiven
  <1>6. CASE SubmitAssignment
    BY <1>1, <1>3, <1>6 DEF SubmitAssignment
  <1>7. CASE SubmitInvitation
    BY <1>1, <1>3, <1>7 DEF SubmitInvitation
  <1>8. CASE SubmitRetention
    BY <1>1, <1>3, <1>8 DEF SubmitRetention
  <1> QED BY <1>4, <1>5, <1>6, <1>7, <1>8

-----------------------------------------------------------------------------
(* An answer.                                                               *)

\* A failure a role, assignment or invitation editor recognises as its own.
Unlocking(m) ==
    m.op = "save" /\ m.slot \notin Cards /\ m.outcome \notin {"saved", "denied"} /\ Current(m)

\* Which callback an answer reaches.
LEMMA Callback ==
  ASSUME NEW m, Answered(m)
  PROVE  /\ m.op = "discard" => DiscardAnswered(m)
         /\ m.op # "discard" => m.op = "save"
         /\ m.op # "discard" /\ m.slot = "email" => EmailAnswered(m)
         /\ m.op # "discard" /\ m.slot = "retention" => RetentionAnswered(m)
         /\ m.op # "discard" /\ m.slot \notin Cards /\ m.outcome = "saved" => EditorSaved(m)
         /\ m.op # "discard" /\ m.slot \notin Cards /\ m.outcome # "saved" => EditorFailed(m)
  BY DEF Answered, Cards

LEMMA AnsweredRest ==
  ASSUME DraftInv, NEW m \in requests, Answered(m)
  PROVE  /\ Rest' /\ requests' = requests \ {m} /\ sequence' = sequence
         /\ GoodRequest(m) /\ GoodDraft(m.draft)
         /\ m.op = "save" \/ (m.op = "discard" /\ m.slot = "retention")
         /\ m.slot \in AllSlots /\ m.outcome \in {"saved", "stale", "denied", "failed"}
         /\ m.read \in 0..MaxRevision
  <1>1. Shape /\ Rest
    BY DEF DraftInv, Shape
  <1>2. /\ GoodRequest(m) /\ GoodDraft(m.draft)
        /\ m.op = "save" \/ (m.op = "discard" /\ m.slot = "retention")
        /\ m.slot \in AllSlots /\ m.outcome \in {"saved", "stale", "denied", "failed"}
        /\ m.read \in 0..MaxRevision
    BY <1>1 DEF Shape, GoodRequest, Request, Answered
  <1>3. /\ requests' = requests \ {m} /\ UNCHANGED <<slots, server, shell, sequence>>
    BY DEF Answered
  <1>4. [s \in AllSlots |-> IF s \in Cards THEN 0 ELSE shown[s]] \in [AllSlots -> 0..MaxRevision]
    BY <1>1, DraftConstants DEF Rest
  <1>5. shown' \in [AllSlots -> 0..MaxRevision]
    <2>1. CASE UNCHANGED shown
      BY <1>1, <2>1 DEF Rest
    <2>2. CASE shown' = [s \in AllSlots |-> IF s \in Cards THEN 0 ELSE shown[s]]
      BY <1>4, <2>2
    <2>3. CASE \E s \in AllSlots, x \in 0..MaxRevision : shown' = [shown EXCEPT ![s] = x]
      BY <1>1, <2>3 DEF Rest
    <2>4. "email" \in AllSlots /\ "retention" \in AllSlots
      BY DEF AllSlots, Cards
    <2>5. CASE m.op = "discard"
      BY <1>2, <2>1, <2>2, <2>3, <2>4, <2>5, Callback DEF DiscardAnswered, ClearExpiredSession
    <2>6. CASE m.op # "discard" /\ m.slot = "email"
      <3>1. EmailAnswered(m)
        BY <2>6, Callback
      <3>2. CASE m.outcome = "saved"
        <4>1. PICK x \in 0..MaxRevision : shown' = [shown EXCEPT !["email"] = x]
          BY <1>2, <3>1, <3>2, DraftConstants DEF EmailAnswered
        <4> QED BY <2>3, <2>4, <4>1
      <3>3. CASE m.outcome # "saved"
        BY <2>1, <2>2, <3>1, <3>3 DEF EmailAnswered
      <3> QED BY <3>2, <3>3
    <2>7. CASE m.op # "discard" /\ m.slot = "retention"
      BY <2>1, <2>2, <2>7, Callback DEF RetentionAnswered, ClearExpiredSession
    <2>8. CASE m.op # "discard" /\ m.slot \notin Cards
      BY <2>1, <2>2, <2>8, Callback DEF EditorSaved, EditorFailed, ClearExpiredSession, Cards
    <2> QED BY <2>5, <2>6, <2>7, <2>8 DEF Cards
  <1> QED BY <1>1, <1>2, <1>3, <1>5 DEF Rest, server

LEMMA AnswerQuiet ==
  ASSUME DraftInv, NEW m \in requests, Answered(m), ~Unlocking(m)
  PROVE  Quiet
  <1>0. Shape
    BY DEF DraftInv
  <1>1. /\ requests' = requests \ {m} /\ sequence' = sequence
        /\ GoodRequest(m) /\ GoodDraft(m.draft)
        /\ m.op = "save" \/ (m.op = "discard" /\ m.slot = "retention")
        /\ m.slot \in AllSlots /\ m.outcome \in {"saved", "stale", "denied", "failed"}
        /\ m.read \in 0..MaxRevision
    BY AnsweredRest
  <1>2. RequestsMove
    BY <1>1 DEF RequestsMove
  <1>3. "email" \in AllSlots /\ "retention" \in AllSlots
    BY DEF AllSlots, Cards
  <1>4. ASSUME ClearAll
        PROVE  Quiet
    BY <1>0, <1>1, <1>2, <1>4, StoreCleared DEF ClearAll
  <1>5. ASSUME UNCHANGED store
        PROVE  Quiet
    BY <1>0, <1>1, <1>2, <1>5, StoreStays
  \* The retention card takes what the server holds.
  <1>6. ASSUME m.outcome = "saved", m.slot = "retention", drafts["retention"] # Nothing, UNCHANGED owner,
               SetDraft("retention", [drafts["retention"] EXCEPT !.rev = m.read, !.base = m.read,
                                        !.sub = 0, !.submitting = FALSE, !.conflict = FALSE])
        PROVE  Quiet
    <2> DEFINE d == [drafts["retention"] EXCEPT !.rev = m.read, !.base = m.read,
                       !.sub = 0, !.submitting = FALSE, !.conflict = FALSE]
    <2>1. drafts["retention"] \in Draft
      BY <1>0, <1>3, <1>6 DEF Shape, GoodDraft
    <2>2. m.read >= 1 /\ m.read \in 0..MaxRevision /\ 0 \in 0..MaxSubmissions
      BY <1>1, <1>6, DraftConstants DEF GoodRequest, Cards
    <2>3. Fresh(d)
      BY <2>1, <2>2 DEF Fresh, Draft
    <2> HIDE DEF d
    <2>4. SetDraft("retention", d)
      BY <1>6 DEF d
    <2> QED BY <1>0, <1>1, <1>2, <1>3, <1>6, <2>3, <2>4, SlotChanges
  <1>7. CASE m.op = "discard"
    <2>1. DiscardAnswered(m) /\ m.slot = "retention"
      BY <1>1, <1>7, Callback
    <2> QED BY <1>4, <1>5, <1>6, <2>1 DEF DiscardAnswered, ClearExpiredSession, CurrentRetention, store
  <1>8. CASE m.op = "save" /\ m.slot = "retention"
    <2>1. RetentionAnswered(m)
      BY <1>8, Callback
    <2>2. CASE m.outcome = "denied" \/ ~CurrentRetention(m) \/ m.outcome = "saved"
      BY <1>4, <1>5, <1>6, <1>8, <2>1, <2>2 DEF RetentionAnswered, ClearExpiredSession, CurrentRetention, store
    <2>3. CASE m.outcome \notin {"denied", "saved"} /\ CurrentRetention(m)
      <3> DEFINE x == (m.outcome = "stale")
                 d == [drafts["retention"] EXCEPT !.submitting = FALSE, !.conflict = x]
      <3>1. SetDraft("retention", d) /\ owner' = owner /\ drafts["retention"] # Nothing
        BY <2>1, <2>3 DEF RetentionAnswered, CurrentRetention
      <3>2. GoodDraft(drafts["retention"]) /\ x \in BOOLEAN
        BY <1>0, <1>3, <3>1 DEF Shape
      <3> HIDE DEF x
      <3>3. GoodDraft(d) /\ d.sub = drafts["retention"].sub /\ ~d.submitting
        BY <3>2 DEF GoodDraft, Draft
      <3> HIDE DEF d
      <3> QED BY <1>0, <1>1, <1>2, <1>3, <3>1, <3>3, SlotChanges
    <2> QED BY <2>2, <2>3
  <1>9. CASE m.op = "save" /\ m.slot = "email"
    <2>1. EmailAnswered(m)
      BY <1>9, Callback
    <2>2. ASSUME NEW e, GoodDraft(e), NEW x \in BOOLEAN
          PROVE  GoodDraft([e EXCEPT !.submitting = FALSE, !.conflict = x])
      BY <2>2 DEF GoodDraft, Draft
    <2>3. CASE m.outcome = "saved"
      <3> DEFINE d == [m.draft EXCEPT !.rev = m.read, !.base = m.read, !.submitting = FALSE,
                         !.conflict = FALSE, !.secret = FALSE]
      <3>1. SetDraft("email", d) /\ owner' = owner
        BY <2>1, <2>3 DEF EmailAnswered
      <3>2. m.read >= 1 /\ m.read \in 0..MaxRevision
        BY <1>1, <1>9, <2>3 DEF GoodRequest, Cards
      <3>3. GoodDraft(d)
        BY <1>1, <3>2 DEF GoodDraft, Draft
      <3> HIDE DEF d
      <3> QED BY <1>0, <1>1, <1>2, <1>3, <3>1, <3>3, SlotChanges
    <2>4. CASE m.outcome = "denied"
      <3> DEFINE x == (m.outcome = "stale")
                 d == [m.draft EXCEPT !.submitting = FALSE, !.conflict = x]
      <3>1. x \in BOOLEAN
        OBVIOUS
      <3>2. drafts' = [Empty EXCEPT !["email"] = d] /\ owner' = Nothing
        BY <2>1, <2>4 DEF EmailAnswered
      <3> HIDE DEF x
      <3>3. GoodDraft(d)
        BY <1>1, <2>2, <3>1
      <3> HIDE DEF d
      <3>4. drafts' \in [AllSlots -> Draft \union {Nothing}] /\ drafts'["email"] = d
            /\ \A s \in AllSlots \ {"email"} : drafts'[s] = Nothing
        BY <1>3, <3>2, <3>3 DEF Empty, GoodDraft
      <3> QED BY <1>1, <1>2, <3>2, <3>3, <3>4 DEF Quiet, OwnerMoves, SlotMoves
    <2>5. CASE m.outcome \notin {"saved", "denied"}
      <3> DEFINE x == (m.outcome = "stale")
                 e == IF drafts["email"] = Nothing THEN m.draft ELSE drafts["email"]
                 d == [e EXCEPT !.submitting = FALSE, !.conflict = x]
      <3>1. x \in BOOLEAN
        OBVIOUS
      <3>2. SetDraft("email", d) /\ owner' = owner
        BY <2>1, <2>5 DEF EmailAnswered, SetDraft
      <3>3. GoodDraft(e)
        BY <1>0, <1>1, <1>3 DEF Shape
      <3> HIDE DEF x, e
      <3>4. GoodDraft(d)
        BY <2>2, <3>1, <3>3
      <3> HIDE DEF d
      <3> QED BY <1>0, <1>1, <1>2, <1>3, <3>2, <3>4, SlotChanges
    <2> QED BY <1>1, <2>3, <2>4, <2>5
  <1>10. CASE m.op = "save" /\ m.slot \notin Cards
    <2>1. CASE m.outcome = "saved" /\ Current(m)
      <3>1. SetDraft(m.slot, Nothing) /\ owner' = owner
        BY <1>10, <2>1, Callback DEF EditorSaved, SetDraft, Cards
      <3> QED BY <1>0, <1>1, <1>2, <3>1, SlotChanges
    <2>2. CASE m.outcome = "denied"
      BY <1>4, <1>10, <2>2, Callback DEF EditorFailed, ClearExpiredSession, Cards
    <2>3. CASE m.outcome # "denied" /\ ~Current(m)
      BY <1>5, <1>10, <2>3, Callback DEF EditorSaved, EditorFailed, Cards, store
    <2> QED BY <1>10, <2>1, <2>2, <2>3 DEF Unlocking
  <1> QED BY <1>1, <1>7, <1>8, <1>9, <1>10 DEF Cards

\* The failure of a submission its editor still waits for: the draft is unlocked, and no
\* other request answers it.
LEMMA FormUnlocked ==
  ASSUME DraftInv, NEW m \in requests, Answered(m), Unlocking(m)
  PROVE  DraftInv'
  <1>0. Shape
    BY DEF DraftInv
  <1>1. /\ Rest' /\ requests' = requests \ {m} /\ sequence' = sequence
        /\ m.op = "save" /\ m.slot \in AllSlots
    BY AnsweredRest DEF Unlocking
  <1> DEFINE x == drafts[m.slot].conflict \/ (m.outcome = "stale" /\ m.slot # "invitation")
             d == [drafts[m.slot] EXCEPT !.submitting = FALSE, !.conflict = x]
  <1>2. /\ SetDraft(m.slot, d) /\ owner' = owner
        /\ drafts[m.slot] # Nothing /\ drafts[m.slot].sub = m.draft.sub
    BY Callback DEF Unlocking, EditorFailed, Current, Cards
  <1>3. GoodDraft(drafts[m.slot]) /\ drafts[m.slot].conflict \in BOOLEAN
    BY <1>0, <1>1, <1>2 DEF Shape, GoodDraft, Draft
  <1>4. x \in BOOLEAN
    BY <1>3, Zenon
  <1> HIDE DEF x
  <1>5. GoodDraft(d) /\ d.sub = drafts[m.slot].sub
    BY <1>3, <1>4 DEF GoodDraft, Draft
  <1> HIDE DEF d
  <1>6. drafts' \in [AllSlots -> Draft \union {Nothing}] /\ drafts'[m.slot] = d
        /\ \A t \in AllSlots \ {m.slot} : drafts'[t] = drafts[t]
    BY <1>0, <1>1, <1>2, <1>5 DEF SetDraft, Shape, GoodDraft
  <1>7. Shape'
    <2>1. \A t \in AllSlots : drafts'[t] # Nothing => GoodDraft(drafts'[t])
      BY <1>0, <1>5, <1>6 DEF Shape
    <2>2. \A n \in requests' : GoodRequest(n)
      BY <1>0, <1>1 DEF Shape
    <2> QED BY <1>0, <1>1, <1>2, <1>6, <2>1, <2>2 DEF Shape, GoodDraft, GoodRequest, Numbered
  <1>8. OneEach'
    BY <1>1 DEF DraftInv, OneEach, Numbered
  <1>9. Submitted'
    <2> SUFFICES ASSUME NEW n \in requests', n.op = "save", drafts'[n.slot] # Nothing,
                        drafts'[n.slot].sub = n.draft.sub
                 PROVE  /\ n.slot \notin Cards =>
                             drafts'[n.slot].submitting /\ (n.owner # Nothing => owner' = n.owner)
                        /\ n.slot = "retention" /\ drafts'[n.slot].submitting =>
                             drafts'[n.slot].by = n.draft.by
      BY DEF Submitted, Answers
    <2>1. n \in requests /\ n # m /\ n.slot \in AllSlots
      BY <1>0, <1>1 DEF Shape, GoodRequest, Request
    <2>2. n.slot # m.slot
      <3> SUFFICES ASSUME n.slot = m.slot
                   PROVE  FALSE
        OBVIOUS
      <3>1. Numbered(n) /\ Numbered(m)
        BY <1>1 DEF Numbered, Unlocking, Cards
      <3>2. n.draft.sub = m.draft.sub
        BY <1>2, <1>5, <1>6
      <3> QED BY <2>1, <3>1, <3>2 DEF DraftInv, OneEach
    <2>3. drafts'[n.slot] = drafts[n.slot] /\ Answers(n)
      BY <1>6, <2>1, <2>2 DEF Answers
    <2> QED BY <1>2, <2>1, <2>3 DEF DraftInv, Submitted
  <1> QED BY <1>7, <1>8, <1>9 DEF DraftInv

-----------------------------------------------------------------------------
(* The invariant, and what answers do under it.                             *)

LEMMA DraftStart ==
  ASSUME Init
  PROVE  DraftInv
  <1>1. 0 \in 0..MaxRevision /\ 1 \in 0..MaxRevision /\ 0 \in 0..MaxSubmissions
    BY DraftConstants
  <1>2. Rest
    BY <1>1 DEF Init, Rest, Unread, Cards, AllSlots
  <1>3. drafts \in [AllSlots -> Draft \union {Nothing}] /\ \A s \in AllSlots : drafts[s] = Nothing
    BY DEF Init, Empty
  <1> QED BY <1>1, <1>2, <1>3 DEF Init, DraftInv, Shape, OneEach, Submitted

LEMMA DraftStep ==
  ASSUME DraftInv, [Next]_vars
  PROVE  DraftInv'
  <1>1. CASE UNCHANGED vars
    <2>1. /\ UNCHANGED <<slots, session, shell, revision, shown, owner, drafts, requests, sequence>>
      BY <1>1 DEF vars, server, store, browser
    <2> QED BY <2>1 DEF DraftInv, Shape, Rest, OneEach, Submitted, Answers, GoodRequest, GoodDraft
  <1>2. CASE Next
    <2>1. CASE \/ \E a \in Accounts : LogIn(a)
               \/ \E a \in Accounts \union {Nothing} : SessionChanges(a)
               \/ LogoutAsked \/ (\E ok \in BOOLEAN : LogoutAnswered(ok)) \/ MonitorSignsOut \/ LeaveShell
               \/ (\E p \in {"roles", "users", "invitations", "settings"} : Navigate(p))
               \/ (\E s \in slots : ReadAnswered(s) \/ OpenEditor(s) \/ OtherEdit(s))
               \/ CloseEditor \/ OwnerEffect
      <3>1. Quiet /\ Rest'
        BY <2>1, SessionQuiet
      <3> QED BY <3>1, QuietKeeps
    <2>2. CASE \/ (\E s \in slots : RoleEffect(s) \/ Edit(s) \/ Reset(s))
               \/ AssignmentEffect \/ InvitationEffect \/ EmailEffect \/ RetentionEffect
      <3>1. Quiet /\ Rest'
        BY <2>2, EditorQuiet
      <3> QED BY <3>1, QuietKeeps
    <2>3. CASE \/ (\E m \in requests : Serve(m) \/ LoseAnswer(m))
               \/ (\E s \in slots : DeleteRole(s))
      <3>1. Quiet /\ Rest'
        BY <2>3, ServerQuiet
      <3> QED BY <3>1, QuietKeeps
    <2>4. CASE SubmitEmail \/ DiscardConflict
      <3>1. Quiet /\ Rest'
        BY <2>4, UnnumberedQuiet
      <3> QED BY <3>1, QuietKeeps
    <2>5. CASE \/ (\E s \in slots : SubmitRole(s) \/ SubmitInvalid(s))
               \/ SubmitAssignment \/ SubmitInvitation \/ SubmitRetention
      BY <2>5, NumberedSubmission
    <2>6. CASE \E m \in requests : Answered(m)
      <3>1. PICK m \in requests : Answered(m)
        BY <2>6
      <3>2. CASE Unlocking(m)
        BY <3>1, <3>2, FormUnlocked
      <3>3. CASE ~Unlocking(m)
        <4>1. Quiet /\ Rest'
          BY <3>1, <3>3, AnswerQuiet, AnsweredRest
        <4> QED BY <4>1, QuietKeeps
      <3> QED BY <3>2, <3>3
    <2> QED BY <1>2, <2>1, <2>2, <2>3, <2>4, <2>5, <2>6 DEF Next, Submit, Effects
  <1> QED BY <1>1, <1>2

LEMMA DraftsInOrder == Spec => []DraftInv
  <1>1. Init => DraftInv
    BY DraftStart
  <1>2. DraftInv /\ [Next]_vars => DraftInv'
    BY DraftStep
  <1> QED BY <1>1, <1>2, PTL DEF Spec

\* The answer to a submission made by somebody leaves no form locked by it: the draft the
\* answer does not reach is one that another submission, or another account, has taken over.
THEOREM AnswersUnlock == Spec => AnswerUnlocks
  <1> DEFINE Locked(m) == /\ drafts'[m.slot] # Nothing /\ drafts'[m.slot].submitting
                          /\ drafts'[m.slot].sub = m.draft.sub
  <1>1. ASSUME DraftInv, NEW m \in requests, Answered(m), m.op = "save", m.owner # Nothing, Locked(m)
        PROVE  FALSE
    <2>1. Shape /\ GoodRequest(m) /\ GoodDraft(m.draft) /\ m.slot \in AllSlots
      BY <1>1, AnsweredRest DEF DraftInv
    <2>2. \A d \in Draft : \A x : ~[d EXCEPT !.submitting = FALSE, !.conflict = x].submitting
      BY DEF Draft
    <2>3. \A s \in AllSlots : Empty[s] = Nothing
      BY DEF Empty
    <2>4. "email" \in AllSlots /\ "retention" \in AllSlots
      BY DEF AllSlots, Cards
    <2>5. \A s \in AllSlots : drafts[s] # Nothing => drafts[s] \in Draft
      BY <2>1 DEF Shape, GoodDraft
    <2>6. CASE m.slot = "retention"
      <3>1. RetentionAnswered(m)
        BY <1>1, <2>6, Callback
      <3>2. m.outcome # "denied"
        BY <1>1, <2>3, <2>6, <2>4, <3>1 DEF RetentionAnswered, ClearExpiredSession, ClearAll
      <3>3. ~CurrentRetention(m)
        <4> SUFFICES ASSUME CurrentRetention(m)
                     PROVE  ~drafts'["retention"].submitting
          BY <1>1, <2>6
        <4>1. drafts \in [AllSlots -> Draft \union {Nothing}] /\ drafts["retention"] \in Draft
          BY <2>1, <2>4, <2>5 DEF Shape, CurrentRetention
        <4>2. CASE m.outcome = "saved"
          BY <2>4, <3>1, <3>2, <4>1, <4>2 DEF RetentionAnswered, SetDraft, Draft
        <4>3. CASE m.outcome # "saved"
          <5> DEFINE x == (m.outcome = "stale")
          <5>1. drafts' = [drafts EXCEPT !["retention"] =
                             [drafts["retention"] EXCEPT !.submitting = FALSE, !.conflict = x]]
            BY <3>1, <3>2, <4>3 DEF RetentionAnswered, SetDraft
          <5> HIDE DEF x
          <5> QED BY <2>2, <2>4, <4>1, <5>1
        <4> QED BY <4>2, <4>3
      <3>4. UNCHANGED drafts
        BY <3>1, <3>2, <3>3 DEF RetentionAnswered
      <3> QED BY <1>1, <2>6, <3>3, <3>4 DEF DraftInv, Submitted, Answers, CurrentRetention
    <2>7. CASE m.slot = "email"
      <3>1. EmailAnswered(m)
        BY <1>1, <2>7, Callback
      <3>2. ~drafts'["email"].submitting
        <4>1. drafts \in [AllSlots -> Draft \union {Nothing}] /\ m.draft \in Draft
          BY <2>1 DEF Shape, GoodDraft
        <4>2. CASE m.outcome = "saved"
          BY <2>4, <3>1, <4>1, <4>2 DEF EmailAnswered, SetDraft, Draft
        <4>3. CASE m.outcome # "saved"
          <5> DEFINE e == IF m.outcome = "denied" \/ drafts["email"] = Nothing THEN m.draft ELSE drafts["email"]
                     b == IF m.outcome = "denied" THEN Empty ELSE drafts
                     x == (m.outcome = "stale")
          <5>1. e \in Draft /\ "email" \in DOMAIN b
            BY <2>4, <2>5, <4>1 DEF Empty
          <5>2. drafts' = [b EXCEPT !["email"] = [e EXCEPT !.submitting = FALSE, !.conflict = x]]
            BY <3>1, <4>3 DEF EmailAnswered
          <5> HIDE DEF e, b, x
          <5> QED BY <2>2, <5>1, <5>2
        <4> QED BY <4>2, <4>3
      <3> QED BY <1>1, <2>7, <3>2
    <2>8. CASE m.slot \notin Cards
      <3>1. CASE m.outcome = "denied"
        BY <1>1, <2>1, <2>3, <2>8, <3>1, Callback DEF EditorFailed, ClearExpiredSession, ClearAll
      <3>2. CASE m.outcome # "denied" /\ Current(m)
        <4>1. drafts \in [AllSlots -> Draft \union {Nothing}] /\ drafts[m.slot] \in Draft
          BY <2>1, <2>5, <3>2 DEF Shape, Current
        <4>2. CASE m.outcome = "saved"
          BY <1>1, <2>1, <2>8, <3>2, <4>1, <4>2, Callback DEF EditorSaved
        <4>3. CASE m.outcome # "saved"
          <5> DEFINE x == drafts[m.slot].conflict \/ (m.outcome = "stale" /\ m.slot # "invitation")
          <5>1. drafts' = [drafts EXCEPT ![m.slot] = [drafts[m.slot] EXCEPT !.submitting = FALSE, !.conflict = x]]
            BY <1>1, <2>8, <3>2, <4>3, Callback DEF EditorFailed, SetDraft
          <5> HIDE DEF x
          <5> QED BY <1>1, <2>1, <2>2, <4>1, <5>1
        <4> QED BY <4>2, <4>3
      <3>3. CASE m.outcome # "denied" /\ ~Current(m)
        <4>1. UNCHANGED drafts
          BY <1>1, <2>8, <3>3, Callback DEF EditorSaved, EditorFailed, store
        <4>2. Answers(m)
          BY <1>1, <4>1 DEF Answers
        <4>3. owner = m.owner
          BY <1>1, <2>8, <4>2 DEF DraftInv, Submitted
        <4> QED BY <3>3, <4>2, <4>3 DEF Answers, Current
      <3> QED BY <3>1, <3>2, <3>3
    <2> QED BY <2>6, <2>7, <2>8 DEF Cards
  <1>2. DraftInv => [\A m \in requests : Answered(m) /\ m.op = "save" /\ m.owner # Nothing =>
                        ~ /\ drafts'[m.slot] # Nothing
                          /\ drafts'[m.slot].submitting
                          /\ drafts'[m.slot].sub = m.draft.sub]_vars
    BY <1>1
  <1> QED BY <1>2, DraftsInOrder, PTL DEF AnswerUnlocks

\* What an answer that is not a sign-out leaves of the drafts with an identifier, and of the dialog.
LEMMA AnswerTakes ==
  ASSUME DraftInv, NEW m \in requests, Answered(m), m.outcome # "denied"
  PROVE  /\ \A s \in Guarded : drafts'[s] = drafts[s] \/ (s = m.slot /\ drafts[s] # Nothing /\ drafts'[s] # Nothing)
                                \/ (s = m.slot /\ m.op = "save" /\ m.slot \notin Cards /\ Current(m))
         /\ open' = open \/ (open = m.slot /\ m.op = "save" /\ m.slot \notin Cards /\ Current(m))
  <1>1. Shape /\ m.slot \in AllSlots /\ (m.op = "save" \/ (m.op = "discard" /\ m.slot = "retention"))
    BY AnsweredRest DEF DraftInv
  <1>2. drafts \in [AllSlots -> Draft \union {Nothing}]
        /\ \A s \in AllSlots : drafts[s] # Nothing => drafts[s] \in Draft /\ GoodDraft(drafts[s])
    BY <1>1 DEF Shape, GoodDraft
  <1>3. Guarded \subseteq AllSlots /\ "email" \notin Guarded /\ "retention" \in AllSlots /\ "email" \in AllSlots
    BY DEF Guarded, AllSlots, Cards
  <1>4. ASSUME NEW d, SetDraft(m.slot, d), drafts[m.slot] # Nothing, d \in Draft
        PROVE  \A s \in Guarded : drafts'[s] = drafts[s] \/ (s = m.slot /\ drafts[s] # Nothing /\ drafts'[s] # Nothing)
    BY <1>1, <1>2, <1>3, <1>4, NothingIsNoDraft DEF SetDraft
  <1>5. CASE m.op = "discard"
    <2>1. DiscardAnswered(m) /\ m.slot = "retention"
      BY <1>1, <1>5, Callback
    <2>2. CASE drafts' = drafts
      BY <2>1, <2>2 DEF DiscardAnswered
    <2>3. CASE drafts' # drafts
      <3> DEFINE d == [drafts["retention"] EXCEPT !.rev = m.read, !.base = m.read,
                                  !.sub = 0, !.submitting = FALSE, !.conflict = FALSE]
      <3>1. SetDraft("retention", d) /\ drafts["retention"] # Nothing
        BY <2>1, <2>3 DEF DiscardAnswered, CurrentRetention
      <3>2. d \in Draft
        <4>1. drafts["retention"] \in Draft /\ m.read \in 0..MaxRevision /\ 0 \in 0..MaxSubmissions
          BY <1>2, <1>3, <3>1, AnsweredRest, DraftConstants
        <4> QED BY <4>1 DEF Draft
      <3> HIDE DEF d
      <3> QED BY <1>4, <2>1, <3>1, <3>2 DEF DiscardAnswered
    <2> QED BY <2>2, <2>3
  <1>6. CASE m.op = "save" /\ m.slot = "email"
    <2>1. EmailAnswered(m)
      BY <1>6, Callback
    <2>2. \A s \in AllSlots \ {"email"} : drafts'[s] = drafts[s]
      BY <1>2, <1>3, <2>1 DEF EmailAnswered, SetDraft
    <2> QED BY <1>3, <2>1, <2>2 DEF EmailAnswered
  <1>7. CASE m.op = "save" /\ m.slot = "retention"
    <2>1. RetentionAnswered(m)
      BY <1>7, Callback
    <2>2. CASE drafts' = drafts
      BY <2>1, <2>2 DEF RetentionAnswered
    <2>3. CASE drafts' # drafts /\ m.outcome = "saved"
      <3> DEFINE d == [drafts["retention"] EXCEPT !.rev = m.read, !.base = m.read, !.sub = 0,
                                 !.submitting = FALSE, !.conflict = FALSE]
      <3>1. SetDraft("retention", d) /\ drafts["retention"] # Nothing
        BY <2>1, <2>3 DEF RetentionAnswered, CurrentRetention
      <3>2. d \in Draft
        <4>1. drafts["retention"] \in Draft /\ m.read \in 0..MaxRevision /\ 0 \in 0..MaxSubmissions
          BY <1>2, <1>3, <3>1, AnsweredRest, DraftConstants
        <4> QED BY <4>1 DEF Draft
      <3> HIDE DEF d
      <3> QED BY <1>4, <1>7, <2>1, <3>1, <3>2 DEF RetentionAnswered
    <2>4. CASE drafts' # drafts /\ m.outcome # "saved"
      <3> DEFINE x == (m.outcome = "stale")
                 d == [drafts["retention"] EXCEPT !.submitting = FALSE, !.conflict = x]
      <3>1. SetDraft("retention", d) /\ drafts["retention"] # Nothing
        BY <2>1, <2>4 DEF RetentionAnswered, CurrentRetention
      <3>2. x \in BOOLEAN
        OBVIOUS
      <3> HIDE DEF x
      <3>3. d \in Draft
        BY <1>2, <1>3, <3>1, <3>2 DEF Draft
      <3> HIDE DEF d
      <3> QED BY <1>4, <1>7, <2>1, <3>1, <3>3 DEF RetentionAnswered
    <2> QED BY <2>2, <2>3, <2>4
  <1>8. CASE m.op = "save" /\ m.slot \notin Cards /\ ~Current(m)
    BY <1>8, Callback DEF EditorSaved, EditorFailed, store
  <1>9. CASE m.op = "save" /\ m.slot \notin Cards /\ Current(m)
    <2>1. \A s \in Guarded : drafts'[s] = drafts[s] \/ s = m.slot
      BY <1>2, <1>3, <1>9, Callback DEF EditorSaved, EditorFailed, SetDraft
    <2>2. open' = open \/ open = m.slot
      BY <1>9, Callback DEF EditorSaved, EditorFailed, DoneCloses
    <2> QED BY <1>9, <2>1, <2>2
  <1> QED BY <1>1, <1>5, <1>6, <1>7, <1>8, <1>9 DEF Cards

\* An answer closes or empties only the editor that still waits for it, with the submission
\* it answers in it; what was opened, reset or written since stays.
THEOREM NewerWorkStays == Spec => NewerWorkSurvives
  <1>1. ASSUME DraftInv, NEW m \in requests, Answered(m), m.outcome # "denied"
        PROVE  /\ open' # open => open = m.slot /\ drafts[m.slot] # Nothing /\ drafts[m.slot].submitting
               /\ \A s \in Guarded : drafts[s] # Nothing /\ drafts'[s] = Nothing =>
                     s = m.slot /\ drafts[s].submitting /\ drafts[s].sub = m.draft.sub
    <2>1. m.op = "save" /\ m.slot \notin Cards /\ Current(m) =>
             drafts[m.slot] # Nothing /\ drafts[m.slot].submitting /\ drafts[m.slot].sub = m.draft.sub
      BY <1>1 DEF DraftInv, Submitted, Answers, Current
    <2> QED BY <1>1, <2>1, AnswerTakes
  <1>2. DraftInv => [\A m \in requests : Answered(m) /\ m.outcome # "denied" =>
          /\ open' # open => open = m.slot /\ drafts[m.slot] # Nothing
                             /\ drafts[m.slot].submitting
          /\ \A s \in Guarded : drafts[s] # Nothing /\ drafts'[s] = Nothing =>
                s = m.slot /\ drafts[s].submitting /\ drafts[s].sub = m.draft.sub]_vars
    BY <1>1
  <1> QED BY <1>2, DraftsInOrder, PTL DEF NewerWorkSurvives

\* An answer never brings back a draft that was dropped while it was on its way: the ones it
\* writes are there, and one that ends the session drops the others as well.
THEOREM NothingRevived == Spec => NoRevival
  <1>1. ASSUME DraftInv, NEW m \in requests, Answered(m), NEW s \in Guarded, drafts[s] = Nothing
        PROVE  drafts'[s] = Nothing
    <2>1. CASE m.outcome # "denied"
      BY <1>1, <2>1, AnswerTakes DEF Current
    <2>2. CASE m.outcome = "denied"
      <3>1. /\ s \in AllSlots /\ s # "email" /\ "email" \in AllSlots
            /\ m.op = "save" \/ (m.op = "discard" /\ m.slot = "retention")
        BY <1>1, AnsweredRest DEF Guarded, AllSlots, Cards
      <3>2. Empty \in [AllSlots -> {Nothing}]
        BY DEF Empty
      <3>3. CASE m.op = "save" /\ m.slot = "email"
        <4>1. EmailAnswered(m)
          BY <1>1, <3>3, Callback
        <4> QED BY <2>2, <3>1, <3>2, <4>1 DEF EmailAnswered
      <3>4. CASE ~(m.op = "save" /\ m.slot = "email")
        <4>1. drafts' = Empty
          BY <1>1, <2>2, <3>1, <3>4, Callback
             DEF DiscardAnswered, RetentionAnswered, EditorFailed, ClearExpiredSession, ClearAll, Cards
        <4> QED BY <3>1, <3>2, <4>1
      <3> QED BY <3>3, <3>4
    <2> QED BY <2>1, <2>2
  <1>2. DraftInv => [\A m \in requests : Answered(m) =>
                        \A s \in Guarded : drafts[s] = Nothing => drafts'[s] = Nothing]_vars
    BY <1>1
  <1> QED BY <1>2, DraftsInOrder, PTL DEF NoRevival

-----------------------------------------------------------------------------
(* Compare and swap: every step of the interface, the server and the        *)
(* others is a step of the register, or changes nothing it sees.            *)

SaveOf(m) == [resource |-> m.slot, base |-> m.draft.base, by |-> m.draft.by, sub |-> m.draft.sub]

Counts(m, outcome) == m.op = "save" /\ m.slot \in Versioned /\ m.outcome = outcome

SavesIn(R, outcome) == {SaveOf(m) : m \in {n \in R : Counts(n, outcome)}}

LEMMA SavesAre ==
  ASSUME NEW outcome
  PROVE  Saves(outcome) = SavesIn(requests, outcome) /\ Saves(outcome)' = SavesIn(requests', outcome)
  BY DEF Saves, SavesIn, SaveOf, Counts

LEMMA SaveAdded ==
  ASSUME NEW R, NEW r, NEW outcome
  PROVE  SavesIn(R \union {r}, outcome) =
           IF Counts(r, outcome) THEN SavesIn(R, outcome) \union {SaveOf(r)} ELSE SavesIn(R, outcome)
  BY DEF SavesIn

\* Another save that looks the same may remain.
LEMMA SaveDropped ==
  ASSUME NEW R, NEW r \in R, NEW outcome
  PROVE  IF Counts(r, outcome)
         THEN SavesIn(R \ {r}, outcome) \in {SavesIn(R, outcome), SavesIn(R, outcome) \ {SaveOf(r)}}
         ELSE SavesIn(R \ {r}, outcome) = SavesIn(R, outcome)
  BY DEF SavesIn

\* Requests that only change their sender are the same saves.
LEMMA SavesResent ==
  ASSUME NEW R, NEW f \in [R -> {"editor", "page", "gone"}], \A m \in R : GoodRequest(m), NEW outcome
  PROVE  SavesIn({[m EXCEPT !.sender = f[m]] : m \in R}, outcome) = SavesIn(R, outcome)
  <1> DEFINE g(m) == [m EXCEPT !.sender = f[m]]
  <1>1. \A m \in R : SaveOf(g(m)) = SaveOf(m) /\ (Counts(g(m), outcome) <=> Counts(m, outcome))
    BY DEF GoodRequest, Request, SaveOf, Counts
  <1> HIDE DEF g
  <1>2. SavesIn({g(m) : m \in R}, outcome) = SavesIn(R, outcome)
    BY <1>1 DEF SavesIn
  <1> QED BY <1>2 DEF g

\* What the register sees.
Same == /\ [s \in Versioned |-> revision'[s]] = [s \in Versioned |-> revision[s]]
        /\ Saves("pending")' = Saves("pending") /\ Saves("saved")' = Saves("saved")

LEMMA SameStutters ==
  ASSUME Same
  PROVE  UNCHANGED Registers!registerVars
  BY DEF Same, Registers!registerVars

\* Requests that are settled, lost, answered or given up, while no revision moves.
LEMMA SettledRefines ==
  ASSUME Shape, UNCHANGED revision,
         \/ requests' = requests
         \/ \E m \in requests : m.outcome # "pending" /\ requests' = requests \ {m}
         \/ \E m \in requests : \E n : /\ Like(n, m) /\ requests' = (requests \ {m}) \union {n}
                                       /\ n.outcome \notin {"pending", m.outcome}
                                       /\ n.outcome = "saved" => m.op # "save"
         \/ \E f \in [requests -> {"editor", "page", "gone"}] : requests' = {[m EXCEPT !.sender = f[m]] : m \in requests}
  PROVE  Registers!CompareAndSwap \/ UNCHANGED Registers!registerVars
  <1>1. \A o : Saves(o) = SavesIn(requests, o) /\ Saves(o)' = SavesIn(requests', o)
    BY SavesAre
  <1>2. ASSUME NEW m \in requests, Counts(m, "pending"),
               Saves("pending")' \in {Saves("pending"), Saves("pending") \ {SaveOf(m)}},
               Saves("saved")' = Saves("saved")
        PROVE  Registers!CompareAndSwap \/ UNCHANGED Registers!registerVars
    <2>1. SaveOf(m) \in Saves("pending")
      BY <1>1, <1>2 DEF SavesIn
    <2>2. CASE Saves("pending")' = Saves("pending") \ {SaveOf(m)}
      <3>1. Registers!Refuse(SaveOf(m))
        BY <1>2, <2>2 DEF Registers!Refuse
      <3> QED BY <2>1, <3>1 DEF Registers!CompareAndSwap
    <2>3. CASE Saves("pending")' = Saves("pending")
      BY <1>2, <2>3, SameStutters DEF Same
    <2> QED BY <1>2, <2>2, <2>3
  <1>3. ASSUME NEW m \in requests, Counts(m, "saved"),
               Saves("saved")' \in {Saves("saved"), Saves("saved") \ {SaveOf(m)}},
               Saves("pending")' = Saves("pending")
        PROVE  Registers!CompareAndSwap \/ UNCHANGED Registers!registerVars
    <2>1. SaveOf(m) \in Saves("saved")
      BY <1>1, <1>3 DEF SavesIn
    <2>2. CASE Saves("saved")' = Saves("saved") \ {SaveOf(m)}
      <3>1. Registers!Answer(SaveOf(m))
        BY <1>3, <2>2 DEF Registers!Answer
      <3> QED BY <2>1, <3>1 DEF Registers!CompareAndSwap
    <2>3. CASE Saves("saved")' = Saves("saved")
      BY <1>3, <2>3, SameStutters DEF Same
    <2> QED BY <1>3, <2>2, <2>3
  <1>4. CASE requests' = requests
    <2>1. Same
      BY <1>1, <1>4 DEF Same
    <2> QED BY <2>1, SameStutters
  <1>5. CASE \E f \in [requests -> {"editor", "page", "gone"}] :
               requests' = {[m EXCEPT !.sender = f[m]] : m \in requests}
    <2>1. \A o : SavesIn(requests', o) = SavesIn(requests, o)
      BY <1>5, SavesResent DEF Shape
    <2>2. Same
      BY <1>1, <2>1 DEF Same
    <2> QED BY <2>2, SameStutters
  <1>6. CASE \E m \in requests : m.outcome # "pending" /\ requests' = requests \ {m}
    <2>1. PICK m \in requests : m.outcome # "pending" /\ requests' = requests \ {m}
      BY <1>6
    <2>2. ~Counts(m, "pending")
      BY <2>1 DEF Counts
    <2>3. Saves("pending")' = Saves("pending")
      BY <1>1, <2>1, <2>2, SaveDropped
    <2>4. IF Counts(m, "saved") THEN Saves("saved")' \in {Saves("saved"), Saves("saved") \ {SaveOf(m)}}
                                ELSE Saves("saved")' = Saves("saved")
      BY <1>1, <2>1, SaveDropped
    <2> QED BY <1>3, <2>3, <2>4, SameStutters DEF Same
  <1>7. CASE \E m \in requests : \E n : /\ Like(n, m) /\ requests' = (requests \ {m}) \union {n}
                                        /\ n.outcome \notin {"pending", m.outcome}
                                        /\ n.outcome = "saved" => m.op # "save"
    <2>0. PICK m \in requests : \E n : /\ Like(n, m) /\ requests' = (requests \ {m}) \union {n}
                                       /\ n.outcome \notin {"pending", m.outcome}
                                       /\ n.outcome = "saved" => m.op # "save"
      BY <1>7
    <2>1. PICK n : /\ Like(n, m) /\ requests' = (requests \ {m}) \union {n}
                   /\ n.outcome \notin {"pending", m.outcome}
                   /\ n.outcome = "saved" => m.op # "save"
      BY <2>0
    <2>2. ~Counts(n, "pending") /\ ~Counts(n, "saved")
      BY <2>1 DEF Counts, Like
    <2>3. SavesIn(requests', "pending") = SavesIn(requests \ {m}, "pending")
          /\ SavesIn(requests', "saved") = SavesIn(requests \ {m}, "saved")
      BY <2>1, <2>2, SaveAdded
    <2>4. /\ IF Counts(m, "pending")
             THEN Saves("pending")' \in {Saves("pending"), Saves("pending") \ {SaveOf(m)}}
             ELSE Saves("pending")' = Saves("pending")
          /\ IF Counts(m, "saved")
             THEN Saves("saved")' \in {Saves("saved"), Saves("saved") \ {SaveOf(m)}}
             ELSE Saves("saved")' = Saves("saved")
      BY <1>1, <2>3, SaveDropped
    <2>5. CASE Counts(m, "pending")
      <3>1. ~Counts(m, "saved")
        BY <2>5 DEF Counts
      <3> QED BY <1>2, <2>4, <2>5, <3>1
    <2>6. CASE Counts(m, "saved")
      <3>1. ~Counts(m, "pending")
        BY <2>6 DEF Counts
      <3> QED BY <1>3, <2>4, <2>6, <3>1
    <2>7. CASE ~Counts(m, "pending") /\ ~Counts(m, "saved")
      BY <2>4, <2>7, SameStutters DEF Same
    <2> QED BY <2>5, <2>6, <2>7
  <1> QED BY <1>4, <1>5, <1>6, <1>7

\* A submission is a save on its way, unless its resource has no revision or the like is on its way.
LEMMA SubmittedRefines ==
  ASSUME UNCHANGED revision, NEW r, r.outcome = "pending", r.draft.base >= 1,
         requests' = requests \union {r}
  PROVE  Registers!CompareAndSwap \/ UNCHANGED Registers!registerVars
  <1>1. \A o : Saves(o) = SavesIn(requests, o) /\ Saves(o)' = SavesIn(requests', o)
    BY SavesAre
  <1>2. Saves("saved")' = Saves("saved")
    <2>1. ~Counts(r, "saved")
      BY DEF Counts
    <2> QED BY <1>1, <2>1, SaveAdded
  <1>3. CASE ~Counts(r, "pending")
    BY <1>1, <1>2, <1>3, SaveAdded, SameStutters DEF Same
  <1>4. CASE Counts(r, "pending")
    <2>1. Saves("pending")' = Saves("pending") \union {SaveOf(r)}
      BY <1>1, <1>4, SaveAdded
    <2>2. CASE SaveOf(r) \in Saves("pending")
      <3>1. Saves("pending")' = Saves("pending")
        BY <2>1, <2>2
      <3> QED BY <1>2, <3>1, SameStutters DEF Same
    <2>3. CASE SaveOf(r) \notin Saves("pending")
      <3>1. SaveOf(r) \in Saves("pending")' \ Saves("pending")
        BY <2>1, <2>3
      <3>2. SaveOf(r).resource \in Versioned /\ SaveOf(r).base >= 1
        BY <1>4 DEF Counts, SaveOf
      <3>3. Registers!Send
        BY <1>2, <2>1, <3>1, <3>2 DEF Registers!Send
      <3> QED BY <3>3 DEF Registers!CompareAndSwap
    <2> QED BY <2>2, <2>3
  <1> QED BY <1>3, <1>4

\* A save is applied where the register still holds what its author worked from.
LEMMA ServeRefines ==
  ASSUME Shape, NEW m \in requests, Serve(m)
  PROVE  Registers!CompareAndSwap \/ UNCHANGED Registers!registerVars
  <1>1. GoodRequest(m) /\ m.outcome = "pending" /\ m.slot \in AllSlots /\ m.op \in {"save", "discard"}
    BY DEF Shape, Serve, GoodRequest, Request
  <1>2. ASSUME UNCHANGED revision, NEW n, Like(n, m), requests' = (requests \ {m}) \union {n},
               n.outcome \notin {"pending", m.outcome}, n.outcome = "saved" => m.op # "save"
        PROVE  Registers!CompareAndSwap \/ UNCHANGED Registers!registerVars
    BY <1>2, SettledRefines
  <1>3. CASE UNCHANGED revision /\ \E o \in {"stale", "denied", "failed"} : Settle(m, o)
    <2>1. PICK o \in {"stale", "denied", "failed"} : Settle(m, o)
      BY <1>3
    <2> DEFINE n == [m EXCEPT !.outcome = o]
    <2>2. Like(n, m) /\ n.outcome = o
      BY <1>1 DEF Like, GoodRequest, Request
    <2>3. requests' = (requests \ {m}) \union {n}
      BY <2>1 DEF Settle
    <2> HIDE DEF n
    <2> QED BY <1>1, <1>2, <1>3, <2>2, <2>3
  <1>4. CASE /\ m.op = "discard" /\ UNCHANGED revision
             /\ requests' = (requests \ {m}) \union {[m EXCEPT !.outcome = "saved", !.read = revision[m.slot]]}
    <2> DEFINE n == [m EXCEPT !.outcome = "saved", !.read = revision[m.slot]]
    <2>1. Like(n, m) /\ n.outcome = "saved"
      BY <1>1 DEF Like, GoodRequest, Request
    <2>2. requests' = (requests \ {m}) \union {n}
      BY <1>4
    <2> HIDE DEF n
    <2> QED BY <1>1, <1>2, <1>4, <2>1, <2>2
  <1>5. CASE /\ m.op = "save" /\ m.draft.rev = revision[m.slot]
             /\ revision' = IF m.slot \in Versioned
                            THEN [revision EXCEPT ![m.slot] = @ + 1] ELSE revision
             /\ requests' = (requests \ {m}) \union
                  {[m EXCEPT !.outcome = "saved", !.read = IF m.slot \in Cards THEN revision'[m.slot] ELSE 0]}
    <2> DEFINE n == [m EXCEPT !.outcome = "saved", !.read = IF m.slot \in Cards THEN revision'[m.slot] ELSE 0]
    <2>1. n.op = "save" /\ n.slot = m.slot /\ n.draft = m.draft /\ n.outcome = "saved"
      BY <1>1, <1>5 DEF GoodRequest, Request
    <2>2. requests' = (requests \ {m}) \union {n}
      BY <1>5
    <2> HIDE DEF n
    <2>3. \A o : Saves(o) = SavesIn(requests, o) /\ Saves(o)' = SavesIn(requests', o)
      BY SavesAre
    <2>4. ~Counts(n, "pending") /\ ~Counts(m, "saved")
      BY <1>1, <2>1 DEF Counts
    <2>5. Saves("pending")' = SavesIn(requests \ {m}, "pending")
      BY <2>2, <2>3, <2>4, SaveAdded
    <2>6. SavesIn(requests \ {m}, "saved") = Saves("saved")
      BY <2>3, <2>4, SaveDropped
    <2>7. CASE m.slot \notin Versioned
      <3>1. ~Counts(n, "saved") /\ ~Counts(m, "pending")
        BY <2>1, <2>7 DEF Counts
      <3>2. Saves("saved")' = Saves("saved")
        BY <2>2, <2>3, <2>6, <3>1, SaveAdded
      <3>3. Saves("pending")' = Saves("pending")
        BY <2>3, <2>5, <3>1, SaveDropped
      <3> QED BY <1>5, <2>7, <3>2, <3>3, SameStutters DEF Same
    <2>8. CASE m.slot \in Versioned
      <3> DEFINE t == SaveOf(m)
      <3>1. Counts(m, "pending") /\ Counts(n, "saved") /\ SaveOf(n) = t
        BY <1>1, <1>5, <2>1, <2>8 DEF Counts, SaveOf
      <3>2. Saves("saved")' = Saves("saved") \union {t}
        <4>1. SavesIn((requests \ {m}) \union {n}, "saved") = SavesIn(requests \ {m}, "saved") \union {SaveOf(n)}
          BY <3>1, SaveAdded
        <4> QED BY <2>2, <2>3, <2>6, <3>1, <4>1
      <3>3. Saves("pending")' \in {Saves("pending"), Saves("pending") \ {t}}
        BY <2>3, <2>5, <3>1, SaveDropped
      <3>4. t \in Saves("pending")
        BY <2>3, <3>1 DEF SavesIn
      <3>5. t.resource = m.slot /\ t.base = revision[m.slot]
        BY <1>1, <1>5 DEF SaveOf, GoodRequest, GoodDraft
      <3> HIDE DEF t
      <3>6. [s \in Versioned |-> revision'[s]] = [[s \in Versioned |-> revision[s]] EXCEPT ![t.resource] = @ + 1]
        <4>1. revision \in [AllSlots -> 0..MaxRevision] /\ revision' = [revision EXCEPT ![m.slot] = @ + 1]
          BY <1>5, <2>8 DEF Shape, Rest
        <4>2. Versioned \subseteq AllSlots
          BY DEF Versioned
        <4> QED BY <2>8, <3>5, <4>1, <4>2
      <3>7. Registers!Accept(t)
        BY <2>8, <3>2, <3>3, <3>5, <3>6 DEF Registers!Accept
      <3> QED BY <3>4, <3>7 DEF Registers!CompareAndSwap
    <2> QED BY <2>7, <2>8
  <1> QED BY <1>3, <1>4, <1>5 DEF Serve

\* Others change a resource, or a role goes.
LEMMA ElsewhereRefines ==
  ASSUME Shape, (\E s \in slots : OtherEdit(s)) \/ (\E s \in slots : DeleteRole(s))
  PROVE  Registers!CompareAndSwap \/ UNCHANGED Registers!registerVars
  <1>1. PICK s \in slots : OtherEdit(s) \/ DeleteRole(s)
    OBVIOUS
  <1>2. s \in Versioned /\ Versioned \subseteq AllSlots /\ revision[s] > 0
        /\ \E n \in {0, revision[s] + 1} : revision' = [revision EXCEPT ![s] = n]
    BY <1>1, DraftConstants DEF OtherEdit, DeleteRole, Versioned, AllSlots, RoleSlots, Cards
  <1>3. requests' = requests
    BY <1>1 DEF OtherEdit, DeleteRole
  <1>4. Saves("pending")' = Saves("pending") /\ Saves("saved")' = Saves("saved")
    BY <1>3, SavesAre
  <1>5. PICK n \in {0, revision[s] + 1} : revision' = [revision EXCEPT ![s] = n]
    BY <1>2
  <1>6. [r \in Versioned |-> revision'[r]] = [[r \in Versioned |-> revision[r]] EXCEPT ![s] = n]
    BY <1>2, <1>5 DEF Shape, Rest
  <1>7. Registers!Elsewhere(s)
    BY <1>2, <1>4, <1>5, <1>6 DEF Registers!Elsewhere
  <1> QED BY <1>2, <1>7 DEF Registers!CompareAndSwap

\* Everything the editors send.
LEMMA SubmissionRefines ==
  ASSUME Shape,
         \/ (\E s \in slots : SubmitRole(s))
         \/ SubmitAssignment \/ SubmitInvitation \/ SubmitRetention \/ SubmitEmail \/ DiscardConflict
  PROVE  Registers!CompareAndSwap \/ UNCHANGED Registers!registerVars
  <1>0. /\ slots \subseteq AllSlots /\ {"assignment", "invitation", "retention", "email"} \subseteq AllSlots
        /\ \A s \in AllSlots : drafts[s] # Nothing => GoodDraft(drafts[s])
    BY DraftConstants DEF Shape, Rest, AllSlots, Cards
  <1>1. ASSUME NEW s \in AllSlots, CanSubmit(s)
        PROVE  GoodDraft(drafts[s])
    BY <1>0, <1>1 DEF CanSubmit, Unlocked
  <1>2. ASSUME NEW op, NEW s, NEW d, d.base >= 1, requests' = requests \union {NewRequest(op, s, d)},
               UNCHANGED revision
        PROVE  Registers!CompareAndSwap \/ UNCHANGED Registers!registerVars
    <2>1. NewRequest(op, s, d).outcome = "pending" /\ NewRequest(op, s, d).draft = d
      BY DEF NewRequest
    <2> QED BY <1>2, <2>1, SubmittedRefines
  <1>3. ASSUME NEW s \in AllSlots, CanSubmit(s), NEW k, NEW v
        PROVE  /\ [drafts[s] EXCEPT !.sub = k, !.submitting = TRUE].base >= 1
               /\ [[drafts[s] EXCEPT !.sub = k, !.submitting = TRUE] EXCEPT !.rev = v].base >= 1
               /\ [drafts[s] EXCEPT !.submitting = TRUE].base >= 1
    <2>1. GoodDraft(drafts[s])
      BY <1>1, <1>3
    <2> QED BY <2>1 DEF GoodDraft, Draft
  <1>4. CASE \E s \in slots : SubmitRole(s)
    <2>1. PICK s \in slots : SubmitRole(s)
      BY <1>4
    <2> DEFINE d == [[drafts[s] EXCEPT !.sub = sequence', !.submitting = TRUE] EXCEPT !.rev = SentRevision(s)]
    <2>2. requests' = requests \union {NewRequest("save", s, d)} /\ UNCHANGED revision /\ CanSubmit(s)
      BY <2>1 DEF SubmitRole, server
    <2>3. d.base >= 1
      BY <1>0, <1>3, <2>2
    <2> HIDE DEF d
    <2> QED BY <1>2, <2>2, <2>3
  <1>5. CASE SubmitAssignment \/ SubmitInvitation \/ SubmitRetention
    <2>1. PICK s \in {"assignment", "invitation", "retention"} :
            /\ CanSubmit(s) /\ UNCHANGED revision
            /\ requests' = requests \union {NewRequest("save", s, [drafts[s] EXCEPT !.sub = sequence', !.submitting = TRUE])}
      BY <1>5 DEF SubmitAssignment, SubmitInvitation, SubmitRetention, server
    <2> DEFINE d == [drafts[s] EXCEPT !.sub = sequence', !.submitting = TRUE]
    <2>2. d.base >= 1
      BY <1>0, <1>3, <2>1
    <2>3. requests' = requests \union {NewRequest("save", s, d)}
      BY <2>1
    <2> HIDE DEF d
    <2> QED BY <1>2, <2>1, <2>2, <2>3
  <1>6. CASE SubmitEmail
    <2> DEFINE d == [drafts["email"] EXCEPT !.submitting = TRUE]
    <2>1. requests' = requests \union {NewRequest("save", "email", d)} /\ UNCHANGED revision /\ CanSubmit("email")
      BY <1>6 DEF SubmitEmail, server
    <2>2. d.base >= 1
      BY <1>0, <1>3, <2>1
    <2> HIDE DEF d
    <2> QED BY <1>2, <2>1, <2>2
  <1>7. CASE DiscardConflict
    <2>1. requests' = requests \union {NewRequest("discard", "retention", drafts["retention"])} /\ UNCHANGED revision
          /\ GoodDraft(drafts["retention"])
      BY <1>0, <1>7 DEF DiscardConflict, server
    <2> QED BY <1>2, <2>1 DEF GoodDraft
  <1> QED BY <1>4, <1>5, <1>6, <1>7

\* All of the interface implements compare-and-swap: no save is applied to a revision its
\* author did not work from, so nothing somebody else wrote in between is lost.
THEOREM SavesAreSwaps == Spec => SavesCompareAndSwap
  <1>1. Init => Registers!Register
    <2> SUFFICES ASSUME Init
                 PROVE  Registers!Register
      OBVIOUS
    <2>1. requests = {} /\ Versioned \subseteq AllSlots /\ revision = [s \in AllSlots |-> 1]
      BY DEF Init, Versioned
    <2>2. Saves("pending") = {} /\ Saves("saved") = {}
      BY <2>1 DEF Saves
    <2>3. [s \in Versioned |-> revision[s]] = [s \in Versioned |-> 1]
      BY <2>1
    <2> QED BY <2>2, <2>3 DEF Registers!Register
  <1>2. DraftInv /\ [Next]_vars => [Registers!CompareAndSwap]_(Registers!registerVars)
    <2> SUFFICES ASSUME DraftInv, [Next]_vars
                 PROVE  Registers!CompareAndSwap \/ UNCHANGED Registers!registerVars
      OBVIOUS
    <2>0. Shape
      BY DEF DraftInv
    <2>1. CASE UNCHANGED vars
      <3>1. UNCHANGED <<revision, requests>>
        BY <2>1 DEF vars, server
      <3> QED BY <2>0, <3>1, SettledRefines
    <2>2. CASE \/ \E a \in Accounts : LogIn(a)
               \/ \E a \in Accounts \union {Nothing} : SessionChanges(a)
               \/ LogoutAsked \/ (\E ok \in BOOLEAN : LogoutAnswered(ok)) \/ MonitorSignsOut
               \/ (\E s \in slots : ReadAnswered(s) \/ OpenEditor(s)) \/ OwnerEffect
               \/ (\E s \in slots : RoleEffect(s) \/ Edit(s) \/ Reset(s) \/ SubmitInvalid(s))
               \/ AssignmentEffect \/ InvitationEffect \/ EmailEffect \/ RetentionEffect
      <3>1. UNCHANGED <<revision, requests>>
        BY <2>2 DEF LogIn, SessionChanges, LogoutAsked, LogoutAnswered, MonitorSignsOut, ReadAnswered,
                    OpenEditor, OwnerEffect, RoleEffect, Edit, Reset, SubmitInvalid, AssignmentEffect,
                    InvitationEffect, EmailEffect, RetentionEffect, server
      <3> QED BY <2>0, <3>1, SettledRefines
    <2>3. CASE LeaveShell \/ (\E p \in {"roles", "users", "invitations", "settings"} : Navigate(p)) \/ CloseEditor
      <3>1. UNCHANGED revision
        BY <2>3 DEF LeaveShell, Navigate, CloseEditor, server
      <3>2. requests' = requests \/ requests' = Abandoned \/ CloseEditor
        BY <2>3 DEF LeaveShell, Navigate
      <3>3. CASE requests' = requests
        BY <2>0, <3>1, <3>3, SettledRefines
      <3>4. CASE requests' = Abandoned
        <4> DEFINE f == [m \in requests |-> "gone"]
        <4>1. f \in [requests -> {"editor", "page", "gone"}]
              /\ requests' = {[m EXCEPT !.sender = f[m]] : m \in requests}
          BY <3>4 DEF Abandoned
        <4> HIDE DEF f
        <4> QED BY <2>0, <3>1, <4>1, SettledRefines
      <3>5. CASE CloseEditor
        BY <2>0, <3>1, <3>5, ClosedResends, SettledRefines
      <3> QED BY <3>2, <3>3, <3>4, <3>5
    <2>4. CASE \E m \in requests : Serve(m)
      BY <2>0, <2>4, ServeRefines
    <2>5. CASE \E m \in requests : LoseAnswer(m)
      <3>1. PICK m \in requests : LoseAnswer(m)
        BY <2>5
      <3> DEFINE n == [m EXCEPT !.outcome = "failed", !.read = 0]
      <3>2. m \in Request /\ m.outcome = "saved" /\ requests' = (requests \ {m}) \union {n} /\ UNCHANGED revision
        BY <2>0, <3>1 DEF LoseAnswer, Shape, GoodRequest, server
      <3>3. Like(n, m) /\ n.outcome = "failed"
        BY <3>2 DEF Like, Request
      <3> HIDE DEF n
      <3> QED BY <2>0, <3>2, <3>3, SettledRefines
    <2>6. CASE \E m \in requests : Answered(m)
      <3>1. PICK m \in requests : Answered(m)
        BY <2>6
      <3>2. m.outcome # "pending" /\ requests' = requests \ {m} /\ UNCHANGED revision
        BY <3>1 DEF Answered, server
      <3> QED BY <2>0, <3>2, SettledRefines
    <2>7. CASE \/ (\E s \in slots : SubmitRole(s))
               \/ SubmitAssignment \/ SubmitInvitation \/ SubmitRetention \/ SubmitEmail \/ DiscardConflict
      BY <2>0, <2>7, SubmissionRefines
    <2>8. CASE (\E s \in slots : OtherEdit(s)) \/ (\E s \in slots : DeleteRole(s))
      BY <2>0, <2>8, ElsewhereRefines
    <2> QED BY <2>1, <2>2, <2>3, <2>4, <2>5, <2>6, <2>7, <2>8 DEF Next, Submit, Effects
  <1> QED BY <1>1, <1>2, DraftsInOrder, PTL DEF Spec, SavesCompareAndSwap, Registers!RegisterSpec
=============================================================================
