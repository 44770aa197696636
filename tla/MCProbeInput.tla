---------------------------- MODULE MCProbeInput ----------------------------
(***************************************************************************)
(* Inputs shorter than, as long as and longer than the probe buffer; a     *)
(* registry whose probes change their mind with every byte they are shown, *)
(* one with an extension table only, one with both and an empty one.       *)
(***************************************************************************)
EXTENDS ProbeInput, Sequences

\* A probe that is sure of short inputs only and one that needs two bytes.
Eager == [n \in Inputs |-> IF n = 0 THEN 100 ELSE IF n = 1 THEN 10 ELSE 0]
Patient == [n \in Inputs |-> IF n < 2 THEN 0 ELSE IF n = 2 THEN 50 ELSE 100]

MCExtensions == {"mkv", "MKV", "ogg"}
MCLower == [e \in MCExtensions |-> IF e = "MKV" THEN "mkv" ELSE e]

NoClaims == [e \in MCExtensions |-> <<>>]
Claims == [NoClaims EXCEPT !["mkv"] =
             << [container |-> "matroska", priority |-> 100, order |-> 0] >>]
BothProbes == << [name |-> "raw", probe |-> Eager, priority |-> 100],
                 [name |-> "matroska", probe |-> Patient, priority |-> 100] >>

MCRegistries ==
  [demuxers : {<<>>}, extensions : {NoClaims, Claims}, probes : {<<>>, BothProbes}]
=============================================================================
