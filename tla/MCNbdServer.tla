---------------------------- MODULE MCNbdServer -----------------------------
(* NbdServer for TLC: a drive has a layout or none.                        *)
EXTENDS NbdServer

TheViews == {{}, {"layout"}}
=============================================================================
