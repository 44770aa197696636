--------------------------- MODULE SourceRegistry ---------------------------
(***************************************************************************)
(* The registry of URI openers (src/registry/source.rs): a map from        *)
(* schemes to openers whose last registration wins, its listing, and the   *)
(* choice of an opener for a URI.                                          *)
(***************************************************************************)
EXTENDS Integers, SequencesExt

CONSTANTS
  Schemes,      \* what stands before a colon, in any spelling
  AsciiLower,   \* to_ascii_lowercase on Schemes
  Drives,       \* the schemes of one letter
  Malformed,    \* the ones with a character no scheme has, or not led by a letter
  Uris,         \* the URIs a client opens: [scheme, colon, rest]
  Kinds         \* the kinds of opener: bytes, packets, frames, titles

VARIABLES
  schemes,  \* per lowercase scheme, the set of its opener's kind: none or one
  order     \* schemes in the order of their first registration

vars == <<schemes, order>>

Init ==
  /\ schemes = [s \in Schemes |-> {}]
  /\ order = <<>>

\* Bug: a scheme registered again moves to the end of the listing.
InsertAtEnd(scheme, kind) ==
  LET key == AsciiLower[scheme]
  IN  /\ schemes' = [schemes EXCEPT ![key] = {kind}]
      /\ order' = Append(SelectSeq(order, LAMBDA s : s # key), key)

\* register_bytes, register_packets, register_frames, register_multi_title
Insert(scheme, kind) ==
  LET key == AsciiLower[scheme]
  IN  /\ schemes' = [schemes EXCEPT ![key] = {kind}]
      /\ order' = IF schemes[key] = {} THEN Append(order, key) ELSE order

Next == \E s \in Schemes, k \in Kinds : Insert(s, k)

-----------------------------------------------------------------------------
\* Whatever is not a scheme belongs to a file's path, drive letters included.
SplitScheme(uri) ==
  IF uri.colon /\ uri.scheme \notin Drives \union Malformed
    THEN <<uri.scheme, uri.rest>> ELSE <<"file", uri>>

\* dispatch: the kind of opener decides the kind of source.
Dispatch(kind, uri) == [output |-> kind, of |-> uri]

\* open: the opener of the URI's scheme, else the one for files.
Open(uri) ==
  LET key == AsciiLower[SplitScheme(uri)[1]]
      entry == IF schemes[key] # {} THEN schemes[key] ELSE schemes["file"]
  IN  {Dispatch(kind, uri) : kind \in entry}

-----------------------------------------------------------------------------
\* A URI opens once anything is registered for its scheme in any spelling, or
\* for files; schemes() lists exactly the ones that do, each once; and a path
\* with a drive letter is a file to every registry, one in which that letter
\* is registered too.
OpensWhatIsListed ==
  /\ ToSet(order) = {s \in Schemes : schemes[s] # {}}
  /\ IsInjective(order)
  /\ \A u \in Uris :
       LET asked == IF u.colon THEN AsciiLower[u.scheme] ELSE "file"
       IN  IF asked \in Drives \union Malformed
             THEN {o.output : o \in Open(u)} = schemes["file"]
             ELSE Open(u) # {} <=> {asked, "file"} \intersect ToSet(order) # {}

\* A scheme once listed keeps its place, whatever registers over it: schemes()
\* only ever grows at the end.
SchemesKeepPlaces == [][IsPrefix(order, order')]_vars
=============================================================================
