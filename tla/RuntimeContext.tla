--------------------------- MODULE RuntimeContext ---------------------------
(***************************************************************************)
(* The context every crate's register function fills                       *)
(* (src/registry/context.rs): the codec, container and source registries   *)
(* side by side.  Crates are entered in any order, some twice, and each    *)
(* entry makes calls on any of the registries.                             *)
(***************************************************************************)
EXTENDS Integers, Sequences

CONSTANT MaxCalls   \* bound: registration calls in one context

CONSTANTS Infos, Ids, Spellings, AsciiUpper, ClaimTags, Contexts, Payloads, ImplNames,
          NoProbe, NaN
VARIABLES impls, implOrder, registrations, tagIndex, magicIndex
Codecs == INSTANCE CodecRegistry

CONSTANTS Names, Factories, Extensions, Lower, Inputs, Probes, Priorities
VARIABLES demuxers, muxers, extensions, extensionSeq, probes
Containers == INSTANCE ContainerRegistry

CONSTANTS Schemes, AsciiLower, Drives, Malformed, Uris, Kinds
VARIABLES schemes, order
Sources == INSTANCE SourceRegistry

CONSTANTS FilterNames, StripPrefix, FilterFactories
VARIABLE filters
Filters == INSTANCE FilterRegistry

VARIABLE calls   \* registration calls so far

ASSUME CodecsAssumption ==
  /\ Infos \subseteq Codecs!Info /\ NaN \notin Int
  /\ \A c \in Contexts : c.tag \in ClaimTags
  /\ Payloads \subseteq Seq(Nat)
  /\ AsciiUpper \in [Spellings -> Spellings]
  /\ \A s \in Spellings : AsciiUpper[AsciiUpper[s]] = AsciiUpper[s]
  /\ StripPrefix \in [FilterNames -> FilterNames]

\* A probe scores every input with a u8.
ASSUME ProbesAssumption ==
  Probes \subseteq [Inputs -> 0 .. 255] /\ Priorities \subseteq Int

\* The case conversions are idempotent, and case does not decide whether text
\* is a scheme.
ASSUME SpellingsAssumption ==
  /\ Lower \in [Extensions -> Extensions]
  /\ \A e \in Extensions : Lower[Lower[e]] = Lower[e]
  /\ AsciiLower \in [Schemes -> Schemes]
  /\ \A s \in Schemes :
       /\ AsciiLower[AsciiLower[s]] = AsciiLower[s]
       /\ AsciiLower[s] \in Drives \union Malformed <=> s \in Drives \union Malformed
  /\ Drives \union Malformed \subseteq Schemes
  /\ "file" \in Schemes \ (Drives \union Malformed) /\ AsciiLower["file"] = "file"
  /\ \A u \in Uris : u.colon => u.scheme \in Schemes

codecs == <<impls, implOrder, registrations, tagIndex, magicIndex>>
containers == <<demuxers, muxers, extensions, extensionSeq, probes>>
sources == <<schemes, order>>
vars == <<codecs, containers, sources, filters, calls>>

Init ==
  /\ Codecs!Init
  /\ Containers!Init
  /\ Sources!Init
  /\ Filters!Init
  /\ calls = 0

Next ==
  /\ calls < MaxCalls /\ calls' = calls + 1
  /\ \/ Codecs!Next /\ UNCHANGED <<containers, sources, filters>>
     \/ Containers!Next /\ UNCHANGED <<codecs, sources, filters>>
     \/ Sources!Next /\ UNCHANGED <<codecs, containers, filters>>
     \/ Filters!Next /\ UNCHANGED <<codecs, containers, sources>>

Spec == Init /\ [][Next]_vars

-----------------------------------------------------------------------------
(* The registries' properties, stated and explained in their own modules,   *)
(* hold of any mix of calls.                                                *)

\* A container tag resolves to its best claim, a payload to its longest magic
\* (ties by priority, then age, as the registry's own methods document) and an
\* input to its best probe; both forms of the extension rule agree
\* (CodecRegistry!BestClaim, !LongestMagic, ContainerRegistry!BestProbe,
\* !ExtensionRulesAgree).
BestAnswer ==
  /\ Codecs!BestClaim
  /\ Codecs!LongestMagic
  /\ Containers!BestProbe
  /\ Containers!ExtensionRulesAgree

\* Codecs, sources and filters: what is listed opens, and what opens is listed
\* (CodecRegistry!ListedCodecsOpen, SourceRegistry!OpensWhatIsListed,
\* FilterRegistry!FiltersFound).
ListedOpens == Codecs!ListedCodecsOpen /\ Sources!OpensWhatIsListed /\ Filters!FiltersFound

\* A registration changes what a tag or a payload resolves to only in its own
\* favour (CodecRegistry!NewcomerOnly).
NewcomerOnly == Codecs!NewcomerOnly

\* What is registered keeps its place, whatever registers later: what opens
\* once keeps opening the same codec implementation (CodecRegistry!OpenersStay),
\* a container name registered again keeps its place in the listings and in
\* the order that breaks ties (ContainerRegistry!NamesKeepPlaces), and a scheme
\* keeps its place in the listing (SourceRegistry!SchemesKeepPlaces).
PlacesKept ==
  /\ Codecs!OpenersStay
  /\ Containers!NamesKeepPlaces
  /\ Sources!SchemesKeepPlaces
=============================================================================
