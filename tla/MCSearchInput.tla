---------------------------- MODULE MCSearchInput ----------------------------
(* Small instances of SearchInput for TLC: descriptions of which one is     *)
(* within another and two are equal, and texts that match none, one,        *)
(* several and exactly one or two.                                          *)
EXTENDS SearchInput, TLC

CONSTANTS i1, i2, i3, i4

MCItem   == {i1, i2, i3, i4}
MCText   == {"", "AN", "an", "ann", "joe", "x"}
MCLabel  == i1 :> "an" @@ i2 :> "ann" @@ i3 :> "joe" @@ i4 :> "ann"
MCWithin == "" :> MCItem @@ "AN" :> {i1, i2, i4} @@ "an" :> {i1, i2, i4}
              @@ "ann" :> {i2, i4} @@ "joe" :> {i3} @@ "x" :> {}
MCLists  == <<{<<i1, i2, i4>>, <<i3, i1>>, <<i2, i3>>}, {<<i2>>}>>
=============================================================================
