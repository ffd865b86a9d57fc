--------------------------- MODULE MCAdminConsole ---------------------------
(* Small instances of the operator console for TLC.                        *)
EXTENDS AdminConsole

MCBatches == {[won |-> 0, lost |-> 2, unresolved |-> 1]}
=============================================================================
