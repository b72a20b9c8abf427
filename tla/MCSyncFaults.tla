---------------------------- MODULE MCSyncFaults -----------------------------
(* The Sync Service under every fault, next to the check of its decoder.   *)
EXTENDS MCSyncService, DecoderChecks
=============================================================================
