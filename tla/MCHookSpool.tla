---------------------------- MODULE MCHookSpool ----------------------------
(* HookSpool for TLC: the values are in the .cfg files.                    *)
EXTENDS HookSpool
=============================================================================
