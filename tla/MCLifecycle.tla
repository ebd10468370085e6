---------------------------- MODULE MCLifecycle ----------------------------
(***************************************************************************)
(* Three channels and a registry of two slots, so that it can be full.     *)
(* Two threads that share the registry are in MCAsioBridge.                *)
(***************************************************************************)
EXTENDS Lifecycle

CONSTANTS h1, h2, h3, t1

Channels == {h1, h2, h3}
OneThread == {t1}
=============================================================================
