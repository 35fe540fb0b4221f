---------------------------- MODULE MCApiClient ----------------------------
(***************************************************************************)
(* ApiClient for TLC, with headers a configuration file cannot write.      *)
(***************************************************************************)
EXTENDS ApiClient

\* None or no number, negative, below the clamp, far above it.
Headers == {NoHeader, -5, 30, 999999}
=============================================================================
