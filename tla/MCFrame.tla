------------------------------- MODULE MCFrame -------------------------------
(***************************************************************************)
(* Frame for TLC: a timer of four values with prescalers of 1, 2 and 3, in *)
(* modes that run, stop, go on after the end, wrap around or do not.       *)
(***************************************************************************)
EXTENDS Frame

MCDivisor == [p \in 0..3 |-> IF p = 0 THEN 1 ELSE IF p = 1 THEN 3 ELSE 2]

Mode(on, scale) ==
  [b \in DOMAIN Quiet |-> IF b = "prescale" THEN scale ELSE b \in on]

MCModes ==
  {Mode({"run"}, 0), Mode({"run", "expire"}, 0), Mode({"run", "expire"}, 1),
   Mode({"run", "expire", "oneshot"}, 1), Mode({"run", "expire", "wrap", "oneshot"}, 1),
   Mode({"run", "expire", "oneshot"}, 2), Mode({"run", "wrap", "expire"}, 2),
   Mode({"run", "stop", "expire"}, 0), Mode({"expire", "expiry"}, 1)}
=============================================================================
