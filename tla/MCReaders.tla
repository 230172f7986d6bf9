----------------------------- MODULE MCReaders -------------------------------
(* Small instances of Readers for TLC: those of Reconciliation, looked at.      *)
EXTENDS Readers, MCReconciliation
=============================================================================
