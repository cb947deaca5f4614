------------------------------- MODULE Flags -------------------------------
(***************************************************************************)
(* Flag sets and the three ways a STORE changes them (pymap/flags.py).     *)
(***************************************************************************)

CONSTANT Flag   \* the permanent flags of the mailboxes, e.g. {"Seen", "Deleted"}

\* \Recent is a flag of a session, never of a message: PermanentFlags and
\* SessionFlags both take it out of their defined flags.
Recent == "Recent"

ASSUME FlagAssumption == Recent \notin Flag /\ {"Seen", "Deleted"} \subseteq Flag

FlagOp == {"REPLACE", "ADD", "DELETE"}

\* FlagOp.apply
Apply(op, flagSet, operand) ==
    CASE op = "ADD"     -> flagSet \cup operand
      [] op = "DELETE"  -> flagSet \ operand
      [] op = "REPLACE" -> operand

=============================================================================
