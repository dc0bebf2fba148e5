---------------------------- MODULE MCFormDefaults ----------------------------
(* A field a, fields b and c whose common default is a's value, and a field  *)
(* d whose default depends on a and b.                                       *)
EXTENDS FormDefaults

MCItem      == {"a", "b", "c", "d"}
MCValue     == {"", "1", "2"}
MCValid     == {"1", "2"}
MCSource    == {"", "1", "2", "x"}
MCText      == [v \in MCValue |-> v]
MCParse     == [s \in MCSource |-> IF s \in MCValid THEN s ELSE "bad"]
MCProvider  == {"forBC", "forD"}
MCAppliesTo == [p \in MCProvider |-> IF p = "forBC" THEN {"b", "c"} ELSE {"d"}]
MCDependsOn == [p \in MCProvider |-> IF p = "forBC" THEN {"a"} ELSE {"a", "b"}]
MCDefaultOf == [p \in MCProvider |-> [f \in [MCItem -> MCValue] |->
                  IF p = "forBC" THEN f["a"] ELSE IF f["a"] = f["b"] THEN "1" ELSE "2"]]
MCNew       == [i \in MCItem |-> IF i = "a" THEN "1" ELSE ""]

(* Instances with and without a value of their own for a, b and d: b equal   *)
(* to its default and not, d too.                                            *)
MCSettable  == {[i \in MCItem |-> IF i = "a" THEN v ELSE IF i = "c" THEN "" ELSE w] :
                  v \in {"", "1"}, w \in {"", "1"}}

(* Instances of which each field has a valid value.                          *)
MCAssigned  == [MCItem -> MCValid]
=============================================================================
