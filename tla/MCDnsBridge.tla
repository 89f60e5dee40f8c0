----------------------------- MODULE MCDnsBridge -----------------------------
(* Instances of DnsBridge for TLC: c1 and c2 have the same name, one after *)
(* the other, and c3 competes for the addresses.                           *)
EXTENDS DnsBridge

CONSTANTS c1, c2, c3, pg, web, a1, a2

MCContainers == {c1, c2, c3}
MCNames == {pg, web}
MCNameOf == [c \in MCContainers |-> IF c = c3 THEN web ELSE pg]
MCAddresses == {a1, a2}
=============================================================================
