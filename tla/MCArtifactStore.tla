---------------------------- MODULE MCArtifactStore ----------------------------
(* Instance of ArtifactStore for TLC: contents, types and objects are       *)
(* interchangeable, and all properties are safety properties.               *)
EXTENDS ArtifactStore, TLC

Interchangeable == Permutations(Stores) \cup Permutations(Hashes) \cup Permutations(Types)
=============================================================================
