---- MODULE MCDecodeHandoff ----
(***************************************************************************)
(* A table of codes: one that a fast pass finds and only a full pass       *)
(* reads, one that no fast pass even finds, and a part of an animation     *)
(* that needs the second window of the fast pass; a plain one for the runs *)
(* that end in a counterexample.                                           *)
(***************************************************************************)
EXTENDS DecodeHandoff

Code(f, r, p) == [finds |-> f \cup r, reads |-> r, part |-> p]
MCPlain == Code({}, {<<"FAST", 8>>}, FALSE)
MCDense == Code({<<"FAST", 8>>, <<"FAST", 3>>}, {<<"ESC", 3>>}, FALSE)
MCTiny == Code({}, {<<"ESC", 8>>}, FALSE)
MCPart == Code({}, {<<"FAST", 3>>}, TRUE)

MCCodes == {MCDense, MCTiny, MCPart}
MCFewCodes == {MCPlain, MCPart}
====
