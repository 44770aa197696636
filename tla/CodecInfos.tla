----------------------------- MODULE CodecInfos -----------------------------
(***************************************************************************)
(* What a crate hands to the codec registry and a demuxer asks it          *)
(* (src/registry/codec.rs, src/stream.rs): container tags, the context of  *)
(* a probe, and CodecInfo with its builder methods.                        *)
(***************************************************************************)
EXTENDS Integers, Sequences

CONSTANTS
  AsciiUpper, \* to_ascii_uppercase on the spellings of four-character codes
  NoProbe     \* a registration without a probe function

\* A tag is a namespace and a value in it; only FourCCs are normalised.
Fourcc(raw) == <<"fourcc", AsciiUpper[raw]>>
WaveFormat(tag) == <<"wave", tag>>
Mp4ObjectType(oti) == <<"mp4", oti>>
Matroska(id) == <<"matroska", id>>

\* What a demuxer tells a probe: the tag, and the hints it set so far.
NewContext(tag) == [tag |-> tag, hints |-> {}]
Hint(ctx, field, value) ==
  LET others == {h \in ctx.hints : h[1] # field}
  IN  [ctx EXCEPT !.hints = others \union {<<field, value>>}]

Roles == {"decoder", "encoder"}

\* CodecInfo::new: named after its id until capabilities() says otherwise.
NewInfo(id) ==
  [id |-> id, implementation |-> id, factories |-> {}, schemas |-> {}, probe |-> NoProbe,
   tags |-> <<>>, magics |-> <<>>, priority |-> 100]

\* The builder methods; tags and magics accumulate, the others replace.
Capabilities(info, name) == [info EXCEPT !.implementation = name]
Factory(info, role) == [info EXCEPT !.factories = @ \union {role}]
Options(info, role) == [info EXCEPT !.schemas = @ \union {role}]
Probed(info, probe) == [info EXCEPT !.probe = probe]
Tagged(info, tags) == [info EXCEPT !.tags = @ \o tags]
Magics(info, magics) == [info EXCEPT !.magics = @ \o magics]
WithPriority(info, priority) == [info EXCEPT !.priority = priority]
=============================================================================
