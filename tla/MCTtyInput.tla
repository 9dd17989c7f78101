----------------------------- MODULE MCTtyInput -----------------------------
(* TtyInput for TLC: two keys of every kind, one of them as long as a paste, *)
(* or three of one byte, which are enough for a sequence that is begun in two *)
(* keystrokes and swallows the third.  Delete is left out: a paste begins    *)
(* with a parameter too.                                                    *)
EXTENDS TtyInput

MCKeys == DOMAIN Sent \ {"Delete"}
MCMaxBytes == <<11, 11, 3>>
=============================================================================
