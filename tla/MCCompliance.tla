--------------------------- MODULE MCCompliance ---------------------------
(***************************************************************************)
(* TLC instances of Compliance.                                            *)
(***************************************************************************)
EXTENDS Compliance

CONSTANTS good, bad, sealed

SomeTexts      == {good, bad, sealed}
SealedTexts    == {sealed}
GoodPattern    == {{good}}
Everywhere     == {Switches}
EverywhereOrNo == {Switches, {}}
=============================================================================
