------------------------------ MODULE MCCdBios ------------------------------
(* Instance of CdBios for TLC: files and stages of one or two sectors. *)
EXTENDS CdBios

MCLength == {1, 2}
==============================================================================
