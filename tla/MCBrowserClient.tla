-------------------------- MODULE MCBrowserClient --------------------------
(***************************************************************************)
(* Instances of BrowserClient for TLC.                                     *)
(***************************************************************************)
EXTENDS BrowserClient

CONSTANTS a, r
=============================================================================
