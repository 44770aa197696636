--------------------------- MODULE CodecRegistry ---------------------------
(***************************************************************************)
(* The registry of codec implementations (src/registry/codec.rs): which    *)
(* codec a container tag or a payload prefix stands for, and which         *)
(* implementation opens it.  Crates register in an order nobody controls;  *)
(* the answers must depend on it only where the rules say so.              *)
(***************************************************************************)
EXTENDS CodecInfos, Orders, SequencesExt

CONSTANTS
  Infos,      \* the CodecInfo values crates register
  Ids,        \* codec ids
  Spellings,  \* four-character codes as containers and crates spell them
  ClaimTags,  \* container tags
  Contexts,   \* the probe contexts a demuxer asks about
  Payloads,   \* leading bytes of a stream, as sequences
  ImplNames,  \* implementation names
  NaN         \* the confidence of a broken probe

\* factories and schemas are the ones present; probe maps each context to a
\* confidence.
Info == [id : Ids, implementation : ImplNames, factories : SUBSET Roles,
         schemas : SUBSET Roles,
         probe : [Contexts -> Int \union {NaN}] \union {NoProbe},
         tags : Seq(ClaimTags), magics : Seq(Seq(Nat)), priority : Int]

VARIABLES
  impls,          \* per id, its implementations: [name, factories, schemas]
  implOrder,      \* ids in the order of their first implementation
  registrations,  \* append-only, [id, probe, priority, tags]
  tagIndex,       \* per tag, indices into registrations
  magicIndex      \* claims <<magic, index into registrations>>

vars == <<impls, implOrder, registrations, tagIndex, magicIndex>>

-----------------------------------------------------------------------------
Init ==
  /\ impls = [i \in Ids |-> <<>>]
  /\ implOrder = <<>>
  /\ registrations = <<>>
  /\ tagIndex = [t \in ClaimTags |-> <<>>]
  /\ magicIndex = <<>>

\* A claim appended for every occurrence of the tag in the declaration.
Claimed(t, info, n) ==
  LET occurrences == {k \in DOMAIN info.tags : info.tags[k] = t}
  IN  [i \in 1 .. Cardinality(occurrences) |-> n]

\* by stands for the function pointers of the registration.
Implementation(info) ==
  [name |-> info.implementation, factories |-> info.factories, schemas |-> info.schemas,
   by |-> Len(registrations) + 1]

\* register: an implementation when a factory is present, and every claim.
\* An empty magic is no evidence and is dropped.
Register(info) ==
  LET n == Len(registrations) + 1
      evidence == {k \in DOMAIN info.magics : info.magics[k] # <<>>}
      magics == Kept({<<k, info.magics[k]>> : k \in evidence})
  IN  /\ IF info.factories = {}
           THEN UNCHANGED <<impls, implOrder>>
           ELSE /\ impls' = [impls EXCEPT ![info.id] = Append(@, Implementation(info))]
                /\ implOrder' = IF impls[info.id] = <<>>
                                  THEN Append(implOrder, info.id) ELSE implOrder
      /\ registrations' = Append(registrations, [id |-> info.id, probe |-> info.probe,
                                   priority |-> info.priority, tags |-> info.tags])
      /\ tagIndex' = [t \in ClaimTags |-> tagIndex[t] \o Claimed(t, info, n)]
      /\ magicIndex' = magicIndex \o [i \in DOMAIN magics |-> <<magics[i], n>>]

Next == \E info \in Infos : Register(info)

-----------------------------------------------------------------------------
\* "> 0.0" is false of NaN.
Positive(confidence) == confidence # NaN /\ confidence > 0

ConfidenceOf(i, ctx) ==
  IF registrations[i].probe = NoProbe THEN 1 ELSE registrations[i].probe[ctx]

\* Bug: on a tie the newest registration wins.
TagBeforeNewest(a, b) ==
  \/ a.confidence > b.confidence
  \/ a.confidence = b.confidence /\ a.priority < b.priority
  \/ a.confidence = b.confidence /\ a.priority = b.priority /\ a.order > b.order

\* Bug: priority descending.
TagBeforePriority(a, b) ==
  \/ a.confidence > b.confidence
  \/ a.confidence = b.confidence /\ a.priority > b.priority
  \/ a.confidence = b.confidence /\ a.priority = b.priority /\ a.order < b.order

\* The resolution rule for tags.
TagBefore(a, b) ==
  \/ a.confidence > b.confidence
  \/ a.confidence = b.confidence /\ a.priority < b.priority
  \/ a.confidence = b.confidence /\ a.priority = b.priority /\ a.order < b.order

TagCandidate(i, ctx) ==
  [id |-> registrations[i].id, confidence |-> ConfidenceOf(i, ctx),
   priority |-> registrations[i].priority, order |-> i]

\* resolve_tag_candidates
TagCandidates(ctx) ==
  LET accepted == {k \in DOMAIN tagIndex[ctx.tag] :
                     Positive(ConfidenceOf(tagIndex[ctx.tag][k], ctx))}
  IN  StableOrder({<<k, TagCandidate(tagIndex[ctx.tag][k], ctx)>> : k \in accepted}, TagBefore)

\* resolve_tag; no candidate is the empty set.
ResolveTag(ctx) ==
  IF TagCandidates(ctx) = <<>> THEN {} ELSE {TagCandidates(ctx)[1].id}

\* The resolution rule for payload prefixes.
MagicBefore(a, b) ==
  \/ a.length > b.length
  \/ a.length = b.length /\ a.priority < b.priority
  \/ a.length = b.length /\ a.priority = b.priority /\ a.order < b.order

MagicCandidate(k) ==
  LET i == magicIndex[k][2]
  IN  [id |-> registrations[i].id, length |-> Len(magicIndex[k][1]),
       priority |-> registrations[i].priority, order |-> i]

\* resolve_payload_magic_candidates
MagicCandidates(payload) ==
  LET matches == {k \in DOMAIN magicIndex : IsPrefix(magicIndex[k][1], payload)}
  IN  StableOrder({<<k, MagicCandidate(k)>> : k \in matches}, MagicBefore)

ResolveMagic(payload) ==
  IF MagicCandidates(payload) = <<>> THEN {} ELSE {MagicCandidates(payload)[1].id}

-----------------------------------------------------------------------------
Implementations(id) == impls[id]

\* Bug: the newest implementation shadows the older ones.
NewestOf(id, places) ==
  {Implementations(id)[k] : k \in {n \in places : \A m \in places : m <= n}}

\* find: the first of the implementations at those places, or none.
FirstOf(id, places) ==
  {Implementations(id)[k] : k \in {n \in places : \A m \in places : n <= m}}

Serving(role, id) ==
  {k \in DOMAIN Implementations(id) : role \in Implementations(id)[k].factories}

Called(id, name) == {k \in DOMAIN Implementations(id) : Implementations(id)[k].name = name}

\* first_decoder, first_encoder: whose factory is called.
OpenFirst(role, id) == FirstOf(id, Serving(role, id))

\* Bug: the first implementation with the factory, whatever it is called.
OpenNamedAny(role, id, name) == FirstOf(id, Serving(role, id))

\* decoder_by_impl, encoder_by_impl: the name decides, then the factory.
OpenNamed(role, id, name) == {i \in FirstOf(id, Called(id, name)) : role \in i.factories}

\* has_decoder, has_encoder; decoder_ids, encoder_ids
Has(role, id) == Serving(role, id) # {}
IdsWith(role) ==
  Kept({<<k, implOrder[k]>> : k \in {n \in DOMAIN implOrder : Has(role, implOrder[n])}})

\* encoder_options_schema, decoder_options_schema: who declares the schema.
SchemaOf(role, id) ==
  FirstOf(id, {k \in DOMAIN Implementations(id) : role \in Implementations(id)[k].schemas})

AllImplementations ==
  LET entry(j, k) == <<<<j, k>>, <<implOrder[j], impls[implOrder[j]][k]>>>>
      entries(j) == {entry(j, k) : k \in DOMAIN impls[implOrder[j]]}
  IN  Flattened(UNION {entries(j) : j \in DOMAIN implOrder})

AllTagRegistrations ==
  LET entry(j, k) == <<<<j, k>>, <<registrations[j].tags[k], registrations[j].id>>>>
      entries(j) == {entry(j, k) : k \in DOMAIN registrations[j].tags}
  IN  Flattened(UNION {entries(j) : j \in DOMAIN registrations})

AllMagicRegistrations ==
  [k \in DOMAIN magicIndex |-> <<magicIndex[k][1], registrations[magicIndex[k][2]].id>>]

-----------------------------------------------------------------------------
\* Every tag and every payload has the answer the rules give, read off the
\* registrations themselves: a claimant whom no other beats.  The tag index
\* and the magic index neither lose a claim nor keep a refused one.  The rule
\* is that of CodecRegistry::resolve_tag_candidates: confidence, then priority,
\* then age.  The trait CodecResolver (stream.rs:281-283) documents age alone,
\* which holds between claims of equal priority only.
BestClaim ==
  LET claims(ctx) == {i \in DOMAIN registrations :
                        /\ ctx.tag \in ToSet(registrations[i].tags)
                        /\ ConfidenceOf(i, ctx) \in Nat \ {0}}
      rank(i, ctx) == <<- ConfidenceOf(i, ctx), registrations[i].priority, i>>
      beats(x, y) == \E k \in DOMAIN x : x[k] < y[k] /\ \A j \in 1 .. k - 1 : x[j] = y[j]
  IN  \A ctx \in Contexts :
        ResolveTag(ctx) = {registrations[i].id :
          i \in {j \in claims(ctx) :
                   \A k \in claims(ctx) \ {j} : beats(rank(j, ctx), rank(k, ctx))}}

\* The most specific prefix wins whoever claimed it and no longer one matches;
\* of equally long ones the better priority wins, then the older registration
\* (CodecRegistry::resolve_payload_magic_candidates; the trait, stream.rs:304-306,
\* documents age alone here too).
LongestMagic ==
  \A p \in Payloads : \A k \in DOMAIN magicIndex :
    LET best == MagicCandidates(p)[1]
    IN  IsPrefix(magicIndex[k][1], p) =>
          /\ ResolveMagic(p) # {}
          /\ Len(magicIndex[k][1]) <= best.length
          /\ Len(magicIndex[k][1]) = best.length =>
               /\ best.priority <= registrations[magicIndex[k][2]].priority
               /\ best.priority = registrations[magicIndex[k][2]].priority =>
                    best.order <= magicIndex[k][2]

\* The listings and the answers agree: an id is listed for a role, once,
\* exactly when something opens in it; every implementation is listed and
\* opens by its name unless an older one took the name; options the opened
\* implementation declares never go unlisted; and what a tag or a payload
\* resolves to is among the listed claims.
ListedCodecsOpen ==
  /\ \A role \in Roles :
       /\ IsInjective(IdsWith(role))
       /\ \A id \in Ids :
            /\ id \in ToSet(IdsWith(role)) <=> OpenFirst(role, id) # {}
            /\ \A i \in OpenFirst(role, id) :
                 role \in i.schemas => \E j \in SchemaOf(role, id) : j.by <= i.by
  /\ \A id \in Ids : \A k \in DOMAIN impls[id] :
       LET i == impls[id][k]
       IN  /\ Cardinality({n \in DOMAIN AllImplementations :
                              AllImplementations[n] = <<id, i>>}) = 1
           /\ \A role \in Roles :
                OpenNamed(role, id, i.name) = {i} <=>
                  role \in i.factories /\ \A j \in 1 .. k - 1 : impls[id][j].name # i.name
  /\ \A ctx \in Contexts : \A id \in ResolveTag(ctx) :
       <<ctx.tag, id>> \in ToSet(AllTagRegistrations)
  /\ \A p \in Payloads : \A id \in ResolveMagic(p) :
       \E c \in ToSet(AllMagicRegistrations) : IsPrefix(c[1], p) /\ c[2] = id

\* A registration changes what a tag or a payload resolves to only in its own
\* favour, and registering the same claims again, as a crate entered twice
\* does, changes no tag.
NewcomerOnly ==
  [][LET new == registrations'[Len(registrations')]
     IN  /\ \A ctx \in Contexts :
              ResolveTag(ctx)' # ResolveTag(ctx) =>
                ResolveTag(ctx)' = {new.id} /\ new \notin ToSet(registrations)
         /\ \A p \in Payloads :
              ResolveMagic(p)' # ResolveMagic(p) => ResolveMagic(p)' = {new.id}]_vars

\* What opens once keeps opening the same implementation, by its id and by
\* name, whatever registers later; and a name that opens nothing because its
\* owner lacks the factory is not taken over.
OpenersStay ==
  [][\A role \in Roles, id \in Ids :
       /\ OpenFirst(role, id) # {} => OpenFirst(role, id)' = OpenFirst(role, id)
       /\ \A k \in DOMAIN impls[id] :
            LET n == impls[id][k].name
            IN  OpenNamed(role, id, n)' = OpenNamed(role, id, n)]_vars
=============================================================================
