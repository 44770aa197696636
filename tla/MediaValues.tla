---------------------------- MODULE MediaValues ----------------------------
(***************************************************************************)
(* The crate's values side by side: fractions and time bases (Rescale),    *)
(* pixel formats and channel layouts (Formats), wire forms and names       *)
(* (WireFormats), options and capabilities (CodecSetup).  A client makes   *)
(* one call on one of the first three, or sets up an encoder.              *)
(***************************************************************************)
EXTENDS Rescale, Sequences

CONSTANTS UsizeMax, U16Max, Sides, Texts, Numbered
Tables == INSTANCE Formats

CONSTANTS Base, WordBytes, Layers, Blobs, MaxBytes, WellKnown, Words
Wire == INSTANCE WireFormats

CONSTANTS MaxCalls, Keys, Raws, U32, I32, F32, Schema, Defaults, Objects, Rates, BlobKinds, Unset
VARIABLES entries, stated, caps, calls
Setup == INSTANCE CodecSetup

\* A byte holds the range byte, the unspecified code point and one that no
\* text contains.
ASSUME MediaAssumption ==
  /\ UsizeMax \in Nat
  /\ Sides \subseteq Nat
  /\ DOMAIN Numbered \subseteq Texts
  /\ Base \in Nat /\ Base > 3
  /\ WordBytes \in Nat \ {0}

\* A field is declared once, and the struct has the fields declared; what is
\* written is a text, and so is a JSON number or string; a JSON object has a key
\* once.
ASSUME SetupAssumption ==
  /\ MaxCalls \in Nat
  /\ \A f \in {U32, I32, F32} : DOMAIN f \subseteq Raws
  /\ \A i, j \in DOMAIN Schema : Schema[i].name = Schema[j].name => i = j
  /\ Defaults = [key \in {Schema[i].name : i \in DOMAIN Schema} |-> Defaults[key]]
  /\ Unset \notin Raws \union {"true", "false"}
  /\ \A d \in Objects : d[1] = "object" =>
       LET members == d[2]
       IN  /\ DOMAIN members = 1 .. Len(members) /\ Len(members) \in Nat
           /\ \A i \in DOMAIN members :
                /\ members[i][1] \in Keys
                /\ members[i][2][1] \in {"null", "bool", "number", "string", "array", "object"}
                /\ members[i][2][1] = "bool" => members[i][2][2] \in BOOLEAN
                /\ members[i][2][1] \in {"number", "string"} => members[i][2][2] \in Raws
           /\ \A i, j \in DOMAIN members : members[i][1] = members[j][1] => i = j
  /\ Rates \subseteq Nat

\* The tables take no fractions: one pair stands for all.
Fixed == a = Fraction(1, 1) /\ b = Fraction(1, 1) /\ UNCHANGED <<a, b>>

setup == <<entries, stated, caps, calls>>

AnyInit == Init /\ Setup!Init

OneCall ==
  /\ calls = 0 /\ UNCHANGED setup
  /\ \/ Next
     \/ Fixed /\ Tables!Next
     \/ Fixed /\ Wire!Next

AnyNext == OneCall \/ (Fixed /\ call = NoCall /\ UNCHANGED call /\ Setup!Next)

AnySpec == AnyInit /\ [][AnyNext]_<<vars, setup>>

-----------------------------------------------------------------------------
(* The other modules' properties, stated and explained there.               *)

\* A frame's size is that of its samples (Formats!SizesExact).
SizesExact == Tables!SizesExact

\* A format's labels say how it is stored (Formats!LabelsAgree).
LabelsAgree == Tables!LabelsAgree

\* A name means one thing, whichever way it is read: layouts
\* (Formats!LayoutsNamed), metadata kinds and codes (WireFormats!KindsNamed).
NamesIdentify == Tables!LayoutsNamed /\ Wire!KindsNamed

\* Side channels carry what was attached (WireFormats!WireRoundTrip).
WireRoundTrip == Wire!WireRoundTrip

\* The codec sees each option as last stated, or refuses
\* (CodecSetup!OptionsAsStated).
OptionsAsStated == Setup!OptionsAsStated

\* The sample rate picked for an encoder loses no bandwidth it could keep
\* (CodecSetup!RateKeepsBandwidth).
RateKeepsBandwidth == Setup!RateKeepsBandwidth
=============================================================================
