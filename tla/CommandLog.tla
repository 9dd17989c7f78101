----------------------------- MODULE CommandLog -----------------------------
(***************************************************************************)
(* The part of lib/history.ml that follows a command from its submission   *)
(* to its end: the rows of the commands table, their status, and the       *)
(* outputs filed under them.  Every operation is a synchronous SQLite      *)
(* statement on the UI thread.  The row of a command is named by the       *)
(* command's number, that of a question to the AI by the question, and an  *)
(* output by the command that printed it.                                  *)
(***************************************************************************)
EXTENDS Integers

CONSTANTS MaxCmd,  \* commands for R that are ever submitted
          Query    \* questions to the AI that are ever asked

VARIABLES active_command_id,         \* the row outputs are filed under, or 0
          active_command_had_error,
          status,                    \* commands.status of every row
          outputs,                   \* pairs <<row, command that printed it>>
          asked                      \* observer: how many commands had been
                                     \* submitted when a question was asked

logVars == <<active_command_id, active_command_had_error, status, outputs,
             asked>>

NoRow == 0
CommandRow == 1..MaxCmd
Row == CommandRow \cup Query

LogTypeOK ==
  /\ active_command_id \in Row \cup {NoRow}
  /\ active_command_had_error \in BOOLEAN
  /\ status \in [Row -> {"absent", "running", "done", "error", "interrupted"}]
  /\ outputs \subseteq Row \X (-MaxCmd..MaxCmd)
  /\ asked \in [Query -> 0..MaxCmd]

LogInit ==
  /\ active_command_id = NoRow
  /\ active_command_had_error = FALSE
  /\ status = [r \in Row |-> "absent"]
  /\ outputs = {}
  /\ asked = [q \in Query |-> 0]

(* The table after finish_active: an error seen on the way wins. *)
Finished(s) ==
  IF active_command_id = NoRow
  THEN status
  ELSE [status EXCEPT ![active_command_id] =
          IF active_command_had_error THEN "error" ELSE s]

finish_active(s) ==
  /\ status' = Finished(s)
  /\ active_command_id' = NoRow
  /\ active_command_had_error' =
       (active_command_id = NoRow /\ active_command_had_error)
  /\ UNCHANGED <<outputs, asked>>

(* What is submitted, to R or to the AI, ends the row before it, whether R *)
(* has finished with that or not.  n commands have been submitted before.  *)
add_to_history(row, n) ==
  /\ status' = [Finished("interrupted") EXCEPT ![row] = "running"]
  /\ active_command_id' = row
  /\ active_command_had_error' = FALSE
  /\ asked' = IF row \in Query THEN [asked EXCEPT ![row] = n] ELSE asked
  /\ UNCHANGED outputs

(* The last command that had been submitted when the row was opened. *)
Newest(row) == IF row \in Query THEN asked[row] ELSE row

(* record_response of a response that has output. *)
record_output(cmds, isError) ==
  /\ outputs' = IF active_command_id = NoRow
                THEN outputs
                ELSE outputs \cup ({active_command_id} \X cmds)
  /\ active_command_had_error' = (active_command_had_error \/ isError)
  /\ UNCHANGED <<active_command_id, status, asked>>

=============================================================================
