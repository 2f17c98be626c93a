------------------------------- MODULE Scenes -------------------------------
(***************************************************************************)
(* What the components that share no state have in common when they are     *)
(* put side by side: the scene, which says which of them takes steps, and   *)
(* variables v1, v2, ... that are those of whichever component it is. Each  *)
(* INSTANCE reads them by its own names; where a component has fewer, the   *)
(* others stay 0.                                                           *)
(***************************************************************************)
EXTENDS Naturals, FiniteSets

CONSTANT None

VARIABLES scene, v1, v2, v3, v4, v5, v6, v7, v8, v9, v10, v11, v12, v13, v14, v15, v16

slots == <<v1, v2, v3, v4, v5, v6, v7, v8, v9, v10, v11, v12, v13, v14, v15, v16>>
=============================================================================
