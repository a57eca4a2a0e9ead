----------------------------- MODULE MCGsnResolution -----------------------------
(***************************************************************************)
(* Every text of up to seven characters over two letters, the separators   *)
(* and the terminator: long enough for a url with all its components.      *)
(***************************************************************************)
EXTENDS GsnResolution

MCLetters == {"a", "b"}

================================================================================
