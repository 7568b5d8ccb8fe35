----------------------------- MODULE MCWardenStore -----------------------------
(* Two names that differ in case only, and a third one. *)
EXTENDS WardenStore

CONSTANTS anna, Anna, bert, phone, laptop

MCName == {anna, Anna, bert}
MCLower == [n \in MCName |-> IF n = Anna THEN anna ELSE n]
MCDevice == {phone, laptop}
MCDeviceSets == {{phone, laptop}}
===============================================================================
