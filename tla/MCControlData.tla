---------------------------- MODULE MCControlData ----------------------------
EXTENDS ControlData

MCKey      == {"k"}
MCModel    == {"m", "n"}
MCAccount  == {"a"}
MCRoute    == {"r", "s"}
MCFallback == {"f"}
MCExisting == {"m", "n"}

MCReferences ==
  [row \in Row |-> IF row \in MCRoute THEN {"m", "a"}
                   ELSE IF row \in MCFallback THEN {"m", "n"} ELSE {}]

(* Both routes are of priority 0. *)
MCSlot ==
  [row \in Row |-> IF row \in MCRoute THEN <<"route", "m", 0>>
                   ELSE IF row \in MCFallback THEN <<"fallback", "m", 0>> ELSE <<row>>]
=============================================================================
