----------------------------- MODULE AdminAvatar -----------------------------
(***************************************************************************)
(* The avatar editor of the personal settings page: a file is chosen,      *)
(* inspected while other files may be chosen, shown, zoomed and moved in a *)
(* square frame, drawn onto a canvas and saved.                            *)
(*                                                                         *)
(* Lengths are scaled to stay whole: a zoom of 1 is ZoomUnit, a pan counts *)
(* in 1/(2 * ZoomUnit * least side of the picture) of a pixel.             *)
(***************************************************************************)
EXTENDS ClientBase

CONSTANTS
    Sizes,      \* widths and heights of pictures
    FrameSide,  \* avatarPreviewSide
    ZoomUnit,
    Zooms,      \* positions of the zoom slider
    Drags,      \* where the pointer drags the picture to, in pixels
    LastChoice  \* bound on the files chosen

ASSUME AvatarConstants ==
    /\ Sizes \subseteq Nat \X Nat /\ FrameSide \in Nat /\ Drags \subseteq Int /\ LastChoice \in Nat
    /\ Zooms \subseteq Nat /\ ZoomUnit \in Zooms /\ \A z \in Zooms : z >= ZoomUnit

VARIABLES
    verdicts,    \* what inspecting each file chosen says; their order is the selectionSequence
    inspecting,  \* files being inspected
    draft,       \* the file in the frame
    size,        \* its size, once loaded
    zoom,
    pan,
    avatarCall,  \* the save or removal under way
    avatar,      \* server: the file saved last
    avatarError

avatarVars == <<verdicts, inspecting, draft, size, zoom, pan, avatarCall, avatar, avatarError>>
crop == <<size, zoom, pan>>

Choices == 1..LastChoice

AvatarTypeOK ==
    /\ verdicts \in Seq({"good", "bad"}) /\ inspecting \subseteq Choices
    /\ draft \in Maybe(Choices) /\ size \in Maybe(Sizes) /\ zoom \in Zooms
    /\ pan \in Int \X Int
    /\ avatarCall \in Maybe([file : Maybe(Choices), stage : {"drawing", "sent", "done", "failed"}])
    /\ avatar \in Maybe(Choices) /\ avatarError \in BOOLEAN

AvatarInit ==
    /\ verdicts = <<>> /\ inspecting = {} /\ draft = Nothing
    /\ size = Nothing /\ zoom = ZoomUnit /\ pan = <<0, 0>>
    /\ avatarCall = Nothing /\ avatar = Nothing /\ avatarError = FALSE

-----------------------------------------------------------------------------
(* The transform from the frame to the picture, for axis 1 or 2. *)

LeastSide(s) == IF s[1] < s[2] THEN s[1] ELSE s[2]
MaxPan(s, z, axis) == FrameSide * (s[axis] * z - ZoomUnit * LeastSide(s))
Within(lo, v, hi) == IF v < lo THEN lo ELSE IF v > hi THEN hi ELSE v

\* clampAvatarPan
clampAvatarPan(p, s, z, axis) == Within(-MaxPan(s, z, axis), p, MaxPan(s, z, axis))

\* avatarCropTransform: what the frame shows and the canvas draws, in
\* 1/(2 * zoom * FrameSide) of a pixel of the picture.
avatarCropTransform(s, z, p) ==
    [panned |-> [axis \in 1..2 |-> clampAvatarPan(p[axis], s, z, axis)],
     left |-> [axis \in 1..2 |-> MaxPan(s, z, axis) - clampAvatarPan(p[axis], s, z, axis)],
     side |-> 2 * FrameSide * ZoomUnit * LeastSide(s),
     whole |-> [axis \in 1..2 |-> 2 * FrameSide * z * s[axis]]]

-----------------------------------------------------------------------------
Disabled == avatarCall # Nothing /\ avatarCall.stage # "drawing"

\* choose: a file that is too large is refused at once, but is chosen all the same.
Choose(verdict) ==
    /\ ~Disabled /\ Len(verdicts) < LastChoice
    /\ \E large \in {l \in BOOLEAN : l => verdict = "bad"} :
          /\ inspecting' = IF large THEN inspecting ELSE inspecting \union {Len(verdicts) + 1}
          /\ avatarError' = (avatarError \/ large)
    /\ verdicts' = Append(verdicts, verdict)
    /\ UNCHANGED <<draft, crop, avatarCall, avatar>>

\* Mutant: the file inspected last is the one shown.
InspectedAlways(f) ==
    IF verdicts[f] = "bad" THEN avatarError' = TRUE /\ UNCHANGED <<draft, crop>>
    ELSE draft' = f /\ size' = Nothing /\ zoom' = ZoomUnit /\ pan' = <<0, 0>> /\ avatarError' = FALSE

\* "if (selection !== selectionSequence.current) return"
Inspected(f) ==
    IF f # Len(verdicts) THEN UNCHANGED <<draft, crop, avatarError>>
    ELSE IF verdicts[f] = "bad" THEN avatarError' = TRUE /\ UNCHANGED <<draft, crop>>
    ELSE draft' = f /\ size' = Nothing /\ zoom' = ZoomUnit /\ pan' = <<0, 0>> /\ avatarError' = FALSE

InspectionEnds(f) ==
    /\ inspecting' = inspecting \ {f}
    /\ Inspected(f)
    /\ UNCHANGED <<verdicts, avatarCall, avatar>>

\* onLoad of the picture in the frame.
PictureLoads(s) ==
    /\ draft # Nothing /\ size = Nothing
    /\ size' = s
    /\ UNCHANGED <<verdicts, inspecting, draft, zoom, pan, avatarCall, avatar, avatarError>>

\* Mutant: zooming leaves the pan where it was.
ZoomedOnly(z) == zoom' = z /\ UNCHANGED pan

\* The slider: the pan is clamped to what the new zoom allows.
Zoomed(z) ==
    /\ zoom' = z
    /\ pan' = [axis \in 1..2 |-> clampAvatarPan(pan[axis], size, z, axis)]

SetZoom(z) ==
    /\ draft # Nothing /\ size # Nothing /\ ~Disabled /\ z # zoom
    /\ Zoomed(z)
    /\ UNCHANGED <<verdicts, inspecting, draft, size, avatarCall, avatar, avatarError>>

\* onPointerMove
Drag(x, y) ==
    /\ draft # Nothing /\ size # Nothing
    /\ pan' = [axis \in 1..2 |-> clampAvatarPan(<<x, y>>[axis] * 2 * ZoomUnit * LeastSide(size), size, zoom, axis)]
    /\ UNCHANGED <<verdicts, inspecting, draft, size, zoom, avatarCall, avatar, avatarError>>

Emptied == draft' = Nothing /\ size' = Nothing /\ zoom' = ZoomUnit /\ pan' = <<0, 0>> /\ avatarError' = FALSE

Cancel ==
    /\ draft # Nothing /\ ~Disabled
    /\ Emptied
    /\ UNCHANGED <<verdicts, inspecting, avatarCall, avatar>>

\* save: the picture is loaded and drawn before anything is disabled.
SaveAvatar ==
    /\ draft # Nothing /\ size # Nothing /\ avatarCall = Nothing
    /\ avatarCall' = [file |-> draft, stage |-> "drawing"]
    /\ UNCHANGED <<verdicts, inspecting, draft, crop, avatar, avatarError>>

Drawn ==
    /\ avatarCall # Nothing /\ avatarCall.stage = "drawing"
    /\ \/ avatarCall' = [avatarCall EXCEPT !.stage = "sent"] /\ UNCHANGED avatarError
       \/ avatarCall' = Nothing /\ avatarError' = TRUE
    /\ UNCHANGED <<verdicts, inspecting, draft, crop, avatar>>

RemoveAvatar ==
    /\ avatar # Nothing /\ draft = Nothing /\ avatarCall = Nothing
    /\ avatarCall' = [file |-> Nothing, stage |-> "sent"]
    /\ UNCHANGED <<verdicts, inspecting, draft, crop, avatar, avatarError>>

AvatarServed ==
    /\ avatarCall # Nothing /\ avatarCall.stage = "sent"
    /\ avatar' = avatarCall.file
    /\ avatarCall' = [avatarCall EXCEPT !.stage = "done"]
    /\ UNCHANGED <<verdicts, inspecting, draft, crop, avatarError>>

AvatarLost ==
    /\ avatarCall # Nothing /\ avatarCall.stage \in {"sent", "done"}
    /\ avatarCall' = [avatarCall EXCEPT !.stage = "failed"]
    /\ UNCHANGED <<verdicts, inspecting, draft, crop, avatar, avatarError>>

\* A saved file empties the frame, whatever is in it by then; after a failure
\* the crop is kept.  A removal changes neither.
AvatarAnswered ==
    /\ avatarCall # Nothing /\ avatarCall.stage \in {"done", "failed"}
    /\ avatarCall' = Nothing
    /\ IF avatarCall.file = Nothing THEN UNCHANGED <<draft, crop, avatarError>>
       ELSE IF avatarCall.stage = "done" THEN Emptied
       ELSE avatarError' = TRUE /\ UNCHANGED <<draft, crop>>
    /\ UNCHANGED <<verdicts, inspecting, avatar>>

AvatarNext ==
    \/ \E verdict \in {"good", "bad"} : Choose(verdict)
    \/ \E f \in inspecting : InspectionEnds(f)
    \/ \E s \in Sizes : PictureLoads(s)
    \/ \E z \in Zooms : SetZoom(z)
    \/ \E x, y \in Drags : Drag(x, y)
    \/ Cancel \/ SaveAvatar \/ Drawn \/ RemoveAvatar \/ AvatarServed \/ AvatarLost \/ AvatarAnswered

-----------------------------------------------------------------------------
(* Properties. *)

\* However long the inspections take and in whatever order they end, a file chosen
\* last that is good is the one in the frame once its own is over: it is neither
\* passed over nor replaced by one chosen before it.
NewestPictureWins ==
    LET newest == Len(verdicts)
    IN  draft # Nothing /\ newest \notin inspecting /\ verdicts[newest] = "good" => draft = newest

\* "The preview and the exported PNG use this same source-space transform": at
\* every zoom and wherever the picture was dragged, the square drawn lies in the
\* picture and the pan kept is the pan seen, so that dragging on starts from
\* what is on screen.
CropIsWhatIsSeen ==
    size # Nothing =>
        LET t == avatarCropTransform(size, zoom, pan)
        IN  /\ \A axis \in 1..2 : 0 <= t.left[axis] /\ t.left[axis] + t.side <= t.whole[axis]
            /\ \A axis \in 1..2 : t.panned[axis] = pan[axis]
=============================================================================
