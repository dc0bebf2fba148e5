----------------------------- MODULE MCEntryModes -----------------------------
(* Small instances of EntryModes for TLC: an entity with an embedded object *)
(* (built twice, as i and j) that has a field, and a field of its own.      *)
EXTENDS EntryModes, TLC

CONSTANTS e, i, j, f, g, h

MCNode      == {e, i, j, f, g, h}
MCContainer == {e, i, j}
MCParent    == i :> e @@ j :> e @@ h :> e @@ f :> i @@ g :> j
MCName      == e :> "entity" @@ i :> "inner" @@ j :> "inner" @@ h :> "own"
                 @@ f :> "field" @@ g :> "field"
MCPlanMode  == e :> "UNSPECIFIED" @@ i :> "UNSPECIFIED" @@ j :> "UNSPECIFIED"
                 @@ h :> "DISABLED" @@ f :> "VIEW" @@ g :> "VIEW"

MCUserModes == {"UNSPECIFIED", "DISABLED", "HIDDEN"}
MCReactsTo  == {"mode", "added", "removed"}
=============================================================================
