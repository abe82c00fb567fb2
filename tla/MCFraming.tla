----------------------------- MODULE MCFraming -----------------------------
(* Messages for the runs of Framing: one from our own encoder, data that   *)
(* it refuses, and the ways a foreign message can be wrong.             *)
EXTENDS Framing

MCDataLengths == {0, 2, 4079}

Frame(len, marker, type, body) ==
    [len |-> len, marker |-> marker, type |-> type, body |-> body]

MCForeign == {
    Frame(19, FALSE, TRUE, "good"), Frame(19, TRUE, FALSE, "good"),
    Frame(18, TRUE, TRUE, "good"), Frame(4097, TRUE, TRUE, "good"),
    Frame(19, TRUE, TRUE, "panics")}
=============================================================================
