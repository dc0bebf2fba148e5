---------------------------- MODULE MCFieldLabels ----------------------------
(* Small instances of FieldLabels for TLC: two amounts and a date on a page *)
(* image, and a percentage, to which no field applies.                      *)
EXTENDS FieldLabels, TLC

CONSTANTS amount1, amount2, date, percent, dividend, credit, other, declared

MCSegment   == {amount1, amount2, date, percent}
MCField     == {dividend, credit, other, declared}
MCDocFields == <<declared, dividend, credit, other>>
MCApplies   == amount1 :> {dividend, credit, other} @@ amount2 :> {dividend, credit, other}
                 @@ date :> {declared} @@ percent :> {}
=============================================================================
