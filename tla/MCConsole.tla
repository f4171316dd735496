----------------------------- MODULE MCConsole ------------------------------
(***************************************************************************)
(* A ring of three characters, a screen of two rows of three, tab stops    *)
(* every two columns, and lines of up to two characters, taken into a      *)
(* buffer for both or for one of them.                                     *)
(***************************************************************************)
EXTENDS Console

MCKeys == {[plain |-> "k", shifted |-> "tab"], [plain |-> "j", shifted |-> "x"]}
MCPrinted == {"x", "nl", "cr", "bs", "tab"}
=============================================================================
