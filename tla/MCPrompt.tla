------------------------------ MODULE MCPrompt ------------------------------
(* Prompt for TLC: short lines, a history with one entry of each mode; what *)
(* Enter makes of two braces is the smallest text of three lines.          *)
EXTENDS Prompt

MCEntries == {[mode |-> "Normal", lines |-> <<1, 2>>],
              [mode |-> "Shell", lines |-> <<2>>],
              [mode |-> "Ai", lines |-> <<1>>]}

MCPastes == {<<1>>, <<0, 2>>}

MCMaxLine == <<3, 2, 1>>

=============================================================================
