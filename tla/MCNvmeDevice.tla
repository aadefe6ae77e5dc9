---------------------------- MODULE MCNvmeDevice -----------------------------
(* Small adapters for TLC.                                                  *)
EXTENDS NvmeDevice

\* The firmware leaves the controller off, or on and ready.
OffOrReady == {<<FALSE, FALSE>>, <<TRUE, TRUE>>}
=============================================================================
