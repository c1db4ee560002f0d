------------------------------ MODULE MCLogSetup ------------------------------
(***************************************************************************)
(* Two handlers; a LogConfig sets Level to nothing, a known or an unknown  *)
(* name, ManifestSigstoreLogLevel to nothing or a known name, and Format   *)
(* to nothing or json.                                                     *)
(***************************************************************************)
EXTENDS LogSetup

MCLogConfigs == [Level: {"", "debug", "verbose"},
                 ManifestSigstoreLogLevel: {"", "warn"},
                 Format: {"", "json"}]
=============================================================================
