---------------------------- MODULE MCAiBackend ----------------------------
(* AiBackend for TLC: small numbers of queries, resets and messages, and a  *)
(* stream so short that it fills up.                                        *)
EXTENDS AiBackend

=============================================================================
