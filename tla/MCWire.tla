------------------------------- MODULE MCWire -------------------------------
(***************************************************************************)
(* Wire for TLC: bytes of five values, so that the length of the          *)
(* inventory takes the mark and two bytes; integers below 256.             *)
(***************************************************************************)
EXTENDS Wire

MCInventory == <<1, 2>>
MCQueue == <<List("getdata", <<1>>)>>
=============================================================================
