------------------------- MODULE ContainerRegistry -------------------------
(***************************************************************************)
(* The registry of container formats (src/registry/container.rs): demuxer  *)
(* and muxer factories by name, the extension claims and the content       *)
(* probes that input detection uses.                                       *)
(***************************************************************************)
EXTENDS Orders, SequencesExt

CONSTANTS
  Names,       \* container format names
  Factories,   \* demuxer and muxer factories
  Extensions,  \* file extensions as they are spelled
  Lower,       \* to_lowercase on Extensions
  Inputs,      \* what a probe is shown
  Probes,      \* probe functions, [Inputs -> 0 .. 255]
  Priorities   \* resolution priorities

VARIABLES
  demuxers,      \* [name, open], in registration order
  muxers,        \* likewise
  extensions,    \* per lowercase extension, [container, priority, order]
  extensionSeq,  \* claims registered so far
  probes         \* [name, probe, priority], in registration order

vars == <<demuxers, muxers, extensions, extensionSeq, probes>>

Named(table) == {table[i].name : i \in DOMAIN table}
NameOrder(table) == [i \in DOMAIN table |-> table[i].name]

-----------------------------------------------------------------------------
Init ==
  /\ demuxers = <<>>
  /\ muxers = <<>>
  /\ extensions = [e \in Extensions |-> <<>>]
  /\ extensionSeq = 0
  /\ probes = <<>>

\* Bug: the old entry goes and the new one joins at the end.
ReplaceAtEnd(table, entry) ==
  LET others(e) == e.name # entry.name
  IN  Append(SelectSeq(table, others), entry)

\* Replace the entry of that name in place, or append one.
Replace(table, entry) ==
  IF entry.name \in Named(table)
    THEN [i \in DOMAIN table |-> IF table[i].name = entry.name THEN entry ELSE table[i]]
    ELSE Append(table, entry)

RegisterDemuxer(name, f) ==
  /\ demuxers' = Replace(demuxers, [name |-> name, open |-> f])
  /\ UNCHANGED <<muxers, extensions, extensionSeq, probes>>

RegisterMuxer(name, f) ==
  /\ muxers' = Replace(muxers, [name |-> name, open |-> f])
  /\ UNCHANGED <<demuxers, extensions, extensionSeq, probes>>

RegisterExtension(ext, name, priority) ==
  /\ extensions' = [extensions EXCEPT ![Lower[ext]] =
       Append(@, [container |-> name, priority |-> priority, order |-> extensionSeq])]
  /\ extensionSeq' = extensionSeq + 1
  /\ UNCHANGED <<demuxers, muxers, probes>>

RegisterProbe(name, probe, priority) ==
  /\ probes' = Replace(probes, [name |-> name, probe |-> probe, priority |-> priority])
  /\ UNCHANGED <<demuxers, muxers, extensions, extensionSeq>>

Next ==
  \/ \E n \in Names, f \in Factories : RegisterDemuxer(n, f)
  \/ \E n \in Names, f \in Factories : RegisterMuxer(n, f)
  \/ \E e \in Extensions, n \in Names, p \in Priorities : RegisterExtension(e, n, p)
  \/ \E n \in Names, f \in Probes, p \in Priorities : RegisterProbe(n, f, p)

-----------------------------------------------------------------------------
\* extension_candidates: priority, then the most recent claim.
ExtensionBefore(a, b) ==
  \/ a.priority < b.priority
  \/ a.priority = b.priority /\ a.order > b.order

ExtensionCandidates(ext) ==
  LET claims == extensions[Lower[ext]]
  IN  StableOrder({<<k, claims[k]>> : k \in DOMAIN claims}, ExtensionBefore)

\* One step of container_for_extension's walk over the claims.
LaterClaim(best, c) == IF c.priority > best.priority THEN best ELSE c

\* container_for_extension; no claim is the empty set.
ContainerForExtension(ext) ==
  LET claims == extensions[Lower[ext]]
      best[n \in DOMAIN claims] ==
        IF n = 1 THEN claims[1] ELSE LaterClaim(best[n - 1], claims[n])
  IN  IF claims = <<>> THEN {} ELSE {best[Len(claims)].container}

\* The order of probe_candidates.
ProbeBefore(a, b) ==
  \/ a.score > b.score
  \/ a.score = b.score /\ a.priority < b.priority
  \/ a.score = b.score /\ a.priority = b.priority /\ a.order < b.order

\* What every probe makes of the input, in registration order.
Scores(data) ==
  [i \in DOMAIN probes |->
     [name |-> probes[i].name, score |-> probes[i].probe[data],
      priority |-> probes[i].priority, order |-> i]]

\* The probes that recognise it, best first.
Ranked(scores) ==
  LET scored == {i \in DOMAIN scores : scores[i].score # 0}
  IN  StableOrder({<<i, scores[i]>> : i \in scored}, ProbeBefore)

\* probe_candidates
ProbeCandidates(data) == Ranked(Scores(data))

\* What probe_input detects in an input with that extension hint: the best
\* probe, else the extension table.  "" is no hint.
Detect(data, ext) ==
  IF ProbeCandidates(data) # <<>> THEN {ProbeCandidates(data)[1].name}
  ELSE IF ext = "" THEN {} ELSE ContainerForExtension(ext)

-----------------------------------------------------------------------------
\* The two implementations of the extension rule, the sort of
\* extension_candidates and the walk of container_for_extension, agree on
\* every extension in every spelling.
ExtensionRulesAgree ==
  \A e \in Extensions :
    ContainerForExtension(e) =
      IF ExtensionCandidates(e) = <<>> THEN {} ELSE {ExtensionCandidates(e)[1].container}

\* Detection picks the format whose probe no other beats by score, priority
\* and then age -- the age of the name's first registration, however often its
\* probe and priority were replaced -- and asks the extension table only when
\* every probe refused.
BestProbe ==
  LET scored(d) == {i \in DOMAIN probes : probes[i].probe[d] > 0}
      rank(i, d) == <<- probes[i].probe[d], probes[i].priority, i>>
      beats(x, y) == \E k \in DOMAIN x : x[k] < y[k] /\ \A j \in 1 .. k - 1 : x[j] = y[j]
  IN  \A d \in Inputs, e \in Extensions \union {""} :
        Detect(d, e) =
          IF scored(d) = {}
            THEN IF e = "" THEN {} ELSE ContainerForExtension(e)
            ELSE {probes[i].name :
                   i \in {j \in scored(d) :
                            \A k \in scored(d) \ {j} : beats(rank(j, d), rank(k, d))}}

\* Listings keep their order: a name registered again keeps its place, in the
\* factories and in the order that breaks a tie between probes.
NamesKeepPlaces ==
  [][/\ IsPrefix(NameOrder(demuxers), NameOrder(demuxers'))
     /\ IsPrefix(NameOrder(muxers), NameOrder(muxers'))
     /\ IsPrefix(NameOrder(probes), NameOrder(probes'))]_vars
=============================================================================
