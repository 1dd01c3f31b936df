------------------------------- MODULE MCWire -------------------------------
(***************************************************************************)
(* An instance of Wire: an empty and a short message, the message a server *)
(* sends for a request it does not know, an error whose message ends with  *)
(* a dot and one whose texts have none.  With Buf = 4 the short one is two *)
(* buffers long.                                                           *)
(***************************************************************************)
EXTENDS Wire

MCRaised ==
  { [number |-> 13, symbol |-> <<70>>, msg |-> <<97, Dot>>, extra |-> <<120>>],
    [number |-> 2, symbol |-> <<78>>, msg |-> <<98>>, extra |-> <<121, 122>>] }
MCPayloads ==
  { [type |-> 111, body |-> << >>], [type |-> 110, body |-> <<49, Blank, 120>>], NoMessage }
    \cup { [type |-> Error, body |-> SerializeError(e)] : e \in MCRaised }

\* What the digits of a length are read back as.
ASSUME DecimalIsRead ==
  \A n \in 0..120 : Number(Decimal(n)) = [thrown |-> FALSE, value |-> n]
=============================================================================
