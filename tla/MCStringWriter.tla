--------------------------- MODULE MCStringWriter ---------------------------
(***************************************************************************)
(* Instances of StringWriter with vectors of two bytes: strings of up to   *)
(* seven bytes cross up to three blocks and leave a tail of zero or one    *)
(* byte; every byte value occurs alone and in a string that is scanned in  *)
(* blocks.  The capacities end at every place of a short string's text.    *)
(***************************************************************************)
EXTENDS StringWriterProperties

Over(bytes, n) == UNION {[1 .. k -> bytes] : k \in 0 .. n}

MCValues ==
  Over({97, 10, 1}, 5)
    \cup {[k \in 1 .. 7 |-> IF k = j THEN 34 ELSE 97] : j \in 0 .. 7}
    \cup {<<byte>> : byte \in Byte} \cup {<<97, byte, 92, 97, byte>> : byte \in Byte}

MCCaps == 0 .. 12 \cup {100}
=============================================================================
