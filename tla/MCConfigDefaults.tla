--------------------------- MODULE MCConfigDefaults ---------------------------
(* Three keys and three fields, with distinct keys or with the first key    *)
(* declared twice: then a field may need a key that no field declares.      *)
EXTENDS ConfigDefaults

MCThreeFields == {<<"x", "y", "z">>}
MCAnyFields   == MCThreeFields \cup {<<"x", "y", "x">>}
MCAnyDefault  == Defaults
MCSetDefault  == {"none", "set"}
MCEmpty       == {Empty}
===============================================================================
