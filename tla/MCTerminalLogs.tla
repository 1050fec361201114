--------------------------- MODULE MCTerminalLogs ---------------------------
(***************************************************************************)
(* Instance of TerminalLogs: a device with two kinds of sessions and one   *)
(* with a single kind.  What sessions do after the last command has ended  *)
(* is not followed.                                                        *)
(***************************************************************************)
EXTENDS TerminalLogs, TLC

CONSTANTS R1, R2

Sessions == {<<R1, "production">>, <<R1, "discovery">>, <<R2, "production">>}

UntilTheLastPrompt == ~(op.at = "idle" /\ commands = MaxCommands)
=============================================================================
