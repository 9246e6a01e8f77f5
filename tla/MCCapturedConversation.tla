----------------------- MODULE MCCapturedConversation -----------------------
(***************************************************************************)
(* A DataTransferSize of 42: a first chunk carries 26 bytes and the others *)
(* 30.  An answer of 42 bytes is the last that needs no chunk, and one of  *)
(* 57 leaves a single byte for its third.  A portion of 40 makes a         *)
(* CERTIFICATE of 48, in two chunks.  spdm_dump has no room for slot 1's   *)
(* chain.                                                                  *)
(***************************************************************************)
EXTENDS CapturedConversation

MCChainBytes == [s \in {0, 1} |-> IF s = 0 THEN 50 ELSE 70]
=============================================================================
