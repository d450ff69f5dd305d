----------------------------- MODULE MCScreenIO ------------------------------
(* A small instance of ScreenIO for TLC.                                   *)
EXTENDS ScreenIO
=============================================================================
