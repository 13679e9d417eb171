----------------------------- MODULE MCBleSession -----------------------------
(* BleSession for TLC: the poll carries PollCommands commands, as             *)
(* POLL_REQUEST_SEQUENCE does, every other task one.                          *)
EXTENDS BleSession

CONSTANTS poll, PollCommands

MCNumCommands == [t \in Tasks |-> IF t = poll THEN PollCommands ELSE 1]
MCForeign == Tasks \ {poll}
===============================================================================
