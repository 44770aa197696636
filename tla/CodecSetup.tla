----------------------------- MODULE CodecSetup -----------------------------
(***************************************************************************)
(* Setting up an encoder: the bag of options a client fills by key or from *)
(* JSON and the codec parses against its schema (src/options.rs), and the  *)
(* capabilities an implementation declares and a pipeline asks about the   *)
(* stream it would feed it (src/capabilities.rs).                          *)
(***************************************************************************)
EXTENDS Integers, SequencesExt

CONSTANTS
  MaxCalls,   \* bound: calls of the client
  Keys,       \* option keys, with some the schema does not have
  Raws,       \* option values as they are written
  U32, I32, F32,  \* what u32, i32 and f32 read of Raws: functions on the ones they accept
  Schema,     \* the codec's fields, a sequence of [name, kind, default], no name twice;
              \* the default is for readers of the schema
  Defaults,   \* T::default(): a function from the fields' names to values
  Objects,    \* JSON documents: <<"null">>, <<"array">> ..., <<"object", members>>
  Rates,      \* sample rates
  BlobKinds,  \* kinds of metadata
  Unset       \* an absent field or restriction

VARIABLES
  entries,  \* the bag: <<key, raw>> in the order the keys were first set
  stated,   \* what the client last said of each key, Unset at first
  caps,     \* the capabilities of the encoder
  calls     \* calls so far

vars == <<entries, stated, caps, calls>>

-----------------------------------------------------------------------------
(* Options *)

Bag(es) == {es[i][1] : i \in DOMAIN es}

\* get: the first entry of the key.
Get(es, key) ==
  LET found == {i \in DOMAIN es : es[i][1] = key}
  IN  IF found = {} THEN Unset ELSE es[Min(found)][2]

\* insert: in place, or at the end.
Insert(es, key, raw) ==
  IF key \in Bag(es)
    THEN [i \in DOMAIN es |-> IF es[i][1] = key THEN <<key, raw>> ELSE es[i]]
    ELSE Append(es, <<key, raw>>)

\* The text of a JSON scalar.
Scalar(value) ==
  CASE value[1] = "bool" -> IF value[2] THEN "true" ELSE "false"
    [] value[1] \in {"number", "string"} -> value[2]

\* One member of a JSON object, <<key, value>>; null "leaves the default".
AddMember(es, member) ==
  IF member[2][1] = "null" THEN es ELSE Insert(es, member[1], Scalar(member[2]))

\* The bag after the first n members of an object.
Collected(members) ==
  LET bag[n \in 0 .. Len(members)] ==
        IF n = 0 THEN <<>> ELSE AddMember(bag[n - 1], members[n])
  IN  bag[Len(members)]

\* from_json_value: anything structured refuses the whole document.
FromJson(document) ==
  LET members == document[2]
  IN  CASE document[1] = "null" -> {<<>>}
        [] document[1] = "object" ->
             IF \E i \in DOMAIN members : members[i][2][1] \in {"array", "object"} THEN {}
             ELSE {Collected(members)}
        [] OTHER -> {}

\* coerce: the value as its declared kind, or refused.
Coerce(kind, raw) ==
  LET number(f) == IF raw \in DOMAIN f THEN {<<kind[1], f[raw]>>} ELSE {}
  IN  CASE kind[1] = "bool" ->
             IF raw \in {"true", "1", "yes", "on"} THEN {<<"bool", TRUE>>}
             ELSE IF raw \in {"false", "0", "no", "off"} THEN {<<"bool", FALSE>>} ELSE {}
        [] kind[1] = "u32" -> number(U32)
        [] kind[1] = "i32" -> number(I32)
        [] kind[1] = "f32" -> number(F32)
        [] kind[1] = "string" -> {<<"string", raw>>}
        [] kind[1] = "enum" -> IF raw \in kind[2] THEN {<<"string", raw>>} ELSE {}

Field(key) == {f \in ToSet(Schema) : f.name = key}

\* What an entry says of its field: a set of at most one value.
Meaning(key, raw) == UNION {Coerce(f.kind, raw) : f \in Field(key)}

\* Bug: a key the schema does not have is passed over.
ApplyLenient(struct, key, raw) ==
  IF Field(key) = {} THEN {struct}
  ELSE {[struct EXCEPT ![key] = v] : v \in Meaning(key, raw)}

\* One turn of parse_options; the struct's apply stores the value it is handed.
Apply(struct, key, raw) == {[struct EXCEPT ![key] = v] : v \in Meaning(key, raw)}

\* Bug: the struct starts from what the schema documents as defaults.
ParseFromSchema(es) ==
  LET documented == [key \in DOMAIN Defaults |-> (CHOOSE f \in Field(key) : TRUE).default]
      parsed[n \in 0 .. Len(es)] ==
        IF n = 0 THEN {documented}
        ELSE UNION {Apply(struct, es[n][1], es[n][2]) : struct \in parsed[n - 1]}
  IN  parsed[Len(es)]

\* parse_options: the struct, or none when any entry is refused.
Parse(es) ==
  LET parsed[n \in 0 .. Len(es)] ==
        IF n = 0 THEN {Defaults}
        ELSE UNION {Apply(struct, es[n][1], es[n][2]) : struct \in parsed[n - 1]}
  IN  parsed[Len(es)]

-----------------------------------------------------------------------------
(* Capabilities *)

Limits == {"width", "height", "bit_rate", "sample_rate", "channels"}

\* audio(), before any builder.
NewCaps ==
  [limits |-> [l \in Limits |-> Unset], rates |-> <<>>, kinds |-> <<>>]

WithMax(c, l, n) == [c EXCEPT !.limits[l] = n]
WithMaxSize(c, w, h) == WithMax(WithMax(c, "width", w), "height", h)
WithSampleRates(c, rates) == [c EXCEPT !.rates = rates]
Including(kinds, kind) == IF Contains(kinds, kind) THEN kinds ELSE Append(kinds, kind)
WithBlobKind(c, kind) == [c EXCEPT !.kinds = Including(@, kind)]
WithBlobKinds(c, kinds) == [c EXCEPT !.kinds = FoldLeft(Including, <<>>, kinds)]

\* fits_params: no stated parameter beyond a stated limit.
Fits(c, params) ==
  \A l \in Limits : c.limits[l] # Unset /\ params[l] # Unset => params[l] <= c.limits[l]

\* Bug: the nearest rate, above or below.
PickSampleRateNearest(c, rate) ==
  LET rates == ToSet(c.rates)
      off(r) == IF r > rate THEN r - rate ELSE rate - r
  IN  IF rates = {} THEN rate
      ELSE CHOOSE r \in rates : \A q \in rates : off(r) <= off(q)

\* pick_sample_rate
PickSampleRate(c, rate) ==
  LET rates == ToSet(c.rates)
      above == {r \in rates : r > rate}
  IN  IF rates = {} \/ rate \in rates THEN rate
      ELSE IF above # {} THEN Min(above) ELSE Max(rates)

-----------------------------------------------------------------------------
Init ==
  /\ entries = <<>>
  /\ stated = [k \in Keys |-> Unset]
  /\ caps = NewCaps
  /\ calls = 0

Call == calls < MaxCalls /\ calls' = calls + 1

SetOption(key, raw) ==
  /\ Call
  /\ entries' = Insert(entries, key, raw)
  /\ stated' = [stated EXCEPT ![key] = raw]
  /\ UNCHANGED caps

\* A refused document leaves the client with the bag it had.
LoadJson(document) ==
  /\ Call
  /\ \/ FromJson(document) = {} /\ UNCHANGED <<entries, stated>>
     \/ /\ entries' \in FromJson(document)
        /\ stated' = [k \in Keys |->
             IF document[1] = "null" THEN Unset
             ELSE LET members == document[2]
                      said == {i \in DOMAIN members :
                                 members[i][1] = k /\ members[i][2][1] # "null"}
                  IN  IF said = {} THEN Unset
                      ELSE Scalar(members[CHOOSE i \in said : TRUE][2])]
  /\ UNCHANGED caps

Declare ==
  /\ Call
  /\ \/ \E l \in Limits, n \in Rates : caps' = WithMax(caps, l, n)
     \/ \E w, h \in Rates : caps' = WithMaxSize(caps, w, h)
     \/ \E rates \in SeqOf(Rates, 2) : caps' = WithSampleRates(caps, rates)
     \/ \E kind \in BlobKinds : caps' = WithBlobKind(caps, kind)
     \/ \E kinds \in SeqOf(BlobKinds, 2) : caps' = WithBlobKinds(caps, kinds)
  /\ UNCHANGED <<entries, stated>>

Next ==
  \/ \E k \in Keys, r \in Raws : SetOption(k, r)
  \/ \E d \in Objects : LoadJson(d)
  \/ Declare

Spec == Init /\ [][Next]_vars

-----------------------------------------------------------------------------
\* However the client filled the bag, by key or from JSON, the codec sees what
\* it last said of each key: a struct in which every stated key has its value
\* and every other what the struct starts with, which need not be what the
\* schema documents, or a refusal when any one key is unknown or malformed,
\* never a struct with part of the settings.
OptionsAsStated ==
  LET said == {k \in Keys : stated[k] # Unset}
      values(k) == Meaning(k, stated[k])
      parsed == Parse(entries)
  IN  /\ \A k \in Keys : Get(entries, k) = stated[k]
      /\ (\E k \in said : values(k) = {}) <=> parsed = {}
      /\ \A s \in parsed : \A k \in DOMAIN Defaults :
           IF k \in said THEN s[k] \in values(k) ELSE s[k] = Defaults[k]

\* A stream moved to the rate the encoder asks for loses no more bandwidth than
\* it must, is left alone by a second pick, and still fits if the rates the
\* encoder declares are within its own limit.
RateKeepsBandwidth ==
  \A rate \in Rates :
    LET picked == PickSampleRate(caps, rate)
        params(r) == [l \in Limits |-> IF l = "sample_rate" THEN r ELSE Unset]
    IN  /\ \A r \in ToSet(caps.rates) : ~ (Min({rate, picked}) < r /\ r < Max({rate, picked}))
        /\ picked < rate => \A r \in ToSet(caps.rates) : r < rate
        /\ PickSampleRate(caps, picked) = picked
        /\ (\A r \in ToSet(caps.rates) : Fits(caps, params(r))) /\ Fits(caps, params(rate))
             => Fits(caps, params(picked))
=============================================================================
