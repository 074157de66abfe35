---------------------------- MODULE MCResponseScan ----------------------------
(***************************************************************************)
(* Every body of up to seven symbols in chunks of one or two, which cut a  *)
(* CR LF pair, a line and an event at every place.  An event or a line     *)
(* holds two symbols, so that the third overflows and a later event of the *)
(* same body still counts.                                                 *)
(***************************************************************************)
EXTENDS ResponseScan

CONSTANTS start, delta

\* message_start sets both fields, message_delta the output only.
TwoReports ==
    [r \in {start, delta} |->
        IF r = start THEN [cache |-> 1, output |-> 1] ELSE [cache |-> Unset, output |-> 2]]
=============================================================================
