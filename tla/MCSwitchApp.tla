---------------------------- MODULE MCSwitchApp -----------------------------
(* Two operations and one reload in a launch; lists of none and of one title. *)
EXTENDS SwitchApp

=============================================================================
