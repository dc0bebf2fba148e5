----------------------------- MODULE MCFormPage ------------------------------
(* Small instances of FormPage for TLC: the form of EntityModel.html, its    *)
(* actions, and items in places 2 and 10.                                    *)
EXTENDS FormPage, TLC

CONSTANTS START_ADD, CONFIRM_ADD, idle, adding, added, name, amount, good, better, bad

MCAction      == {START_ADD, CONFIRM_ADD}
MCActions     == <<START_ADD, CONFIRM_ADD>>
MCState       == {idle, adding, added}
MCTransitions == {[from |-> idle, action |-> START_ADD, to |-> adding],
                  [from |-> adding, action |-> CONFIRM_ADD, to |-> added]}
MCAdvances    == {<<added, idle>>}
MCItem        == {name, amount}
MCOrder       == name :> <<2>> @@ amount :> <<1, 0>>
MCText        == {good, better, bad}
=============================================================================
