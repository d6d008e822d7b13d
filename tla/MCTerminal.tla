----------------------------- MODULE MCTerminal -----------------------------
(* A keyboard with one letter; some characters come from the serial port.  *)
EXTENDS Terminal, FiniteSets

MCKeys == {"ctl", "shiftl", "shiftr", "caps", "d", "enter", "bksp"}
MCSerial == {"^C", "TAB"}

(* Two different modifiers at once add no character that one has not.      *)
OneModifier == Cardinality(shift) <= 1
=============================================================================
