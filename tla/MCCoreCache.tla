------------------------------ MODULE MCCoreCache ------------------------------
(* Constants of CoreCache for TLC. *)
EXTENDS CoreCache, TLC

CONSTANTS home, homeLink, proj, projLink

(* A symbolic link, or a path with dots, to each of two roots.               *)
MCCanon == home :> home @@ homeLink :> home @@ proj :> proj @@ projLink :> proj
=============================================================================
