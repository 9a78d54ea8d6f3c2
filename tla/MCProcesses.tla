---------------------------- MODULE MCProcesses ----------------------------
(* Small instances of the process table for TLC.                           *)
EXTENDS Processes

(* Success and failure; -1 is what a fatal page fault leaves too.          *)
MCCodes == {0, -1}
=============================================================================
