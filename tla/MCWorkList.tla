----------------------------- MODULE MCWorkList -----------------------------
(* Two inserting threads, two different strings and the empty one.         *)
EXTENDS WorkList
CONSTANTS lt1, lt2, s1, s2, empty
MCProducers == {lt1, lt2}
MCItems == {s1, s2, empty}

=============================================================================
