------------------------------- MODULE MCVault ------------------------------
(* Small instances of SettingsVault.                                       *)
EXTENDS SettingsVault

CONSTANTS api, setup, a1, a2, s1

(* Two requests of the API and one run of the setup script.                *)
ApiAndSetup == [th \in Threads |-> IF th = s1 THEN setup ELSE api]
=============================================================================
