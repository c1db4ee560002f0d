------------------------------ MODULE MCKeySecret ------------------------------
(***************************************************************************)
(* Two handlers loading one key Secret that holds up to two keys, each in  *)
(* one of two versions, the Secret rotated at any time.                    *)
(***************************************************************************)
EXTENDS KeySecret

MCKeyNames == {"cosign.pub", "backup.pub"}
MCKeyData == {"k1", "k2"}

=============================================================================
