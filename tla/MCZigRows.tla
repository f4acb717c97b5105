----------------------------- MODULE MCZigRows ------------------------------
(***************************************************************************)
(* Arrays of arrays of floats, read by the Zig backend's visitor.          *)
(***************************************************************************)
EXTENDS ZigCodec, WireCases

FloatRowSchemas == {FloatRows}

\* At a field boundary the message holds what the fields so far mean: a number
\* where only arrays of numbers are declared is skipped (visitor.go 336-345: "a
\* bare scalar at this id (afill == 0) falls through and is skipped").
StraysAreSkipped == verdict = "fine" /\ ~ Pending => obj = Meaning(wire).val

=============================================================================
