----------------------------- MODULE MCExtract -----------------------------
(* Two policy texts, two validation errors, --max-repair from -1 to 2.      *)
EXTENDS Extract
MCRepairs == -1..2
=============================================================================
