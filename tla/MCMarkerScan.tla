---------------------------- MODULE MCMarkerScan ----------------------------
(* A marker of two bytes, so that a chunk can end inside it.               *)
EXTENDS MarkerScan

CONSTANTS m, n, newline

MCSymbols == {m, n, newline}

MCMarker == <<m, n>>
=============================================================================
