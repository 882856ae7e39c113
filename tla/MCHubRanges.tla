---------------------------- MODULE MCHubRanges ----------------------------
(* Every way to publish and prune up to eight positions. *)
EXTENDS HubRanges
=============================================================================
