--------------------------- MODULE MCTraceConfig ---------------------------
(***************************************************************************)
(* TraceSetup for TLC, with a table of three slots.                        *)
(***************************************************************************)
EXTENDS TraceSetup

\* Lists empty, too long, with a duplicate, out of order, too low for the sentinels, and
\* as high as the script's own.  Octal and decimal reading agree on all of them.
PlainInputs == {<<>>, <<1000000004, 1000000000, 1000000002>>, <<1000000002, 1000000000>>,
            <<1000000000>>, <<7, 2, 1>>, <<2>>, <<3, 1000000000>>, <<1, 2>>,
            <<64, 64>>, <<64, 32, 16, 7>>}

\* Single PCs, a multiple of four as in a table of trap vectors.
VectorInputs == {<<4 * i>> : i \in 0 .. 15}

\* Addresses as in the script's usage, with a dot too many, an octet with leading
\* zeros that is and one that is not octal, one too large, one beyond ShellMax, and
\* bad MAC addresses.
Mac == <<0, 10, 53, 21, 35, 86>>
Addresses ==
  {[mac |-> Mac, ip |-> ip] :
     ip \in {<<<<1, 9, 2>>, <<1, 6, 8>>, <<0>>, <<1, 1, 1>>>>,
             <<<<1, 0>>, <<0, 1, 7>>, <<0, 0>>, <<0, 8>>, Empty>>,
             <<<<1, 0>>, <<0>>, <<0>>, <<2, 5, 6>>>>,
             <<<<1, 0>>, <<0>>, <<0>>, <<1, 0, 0, 0>>>>}}
  \cup {[mac |-> <<0, 10, 53, 21, 35, Bad>>, ip |-> <<<<1>>, <<1>>, <<1>>, <<1>>>>]}
NoAddresses == {[mac |-> Mac, ip |-> <<Empty>>]}
=============================================================================
