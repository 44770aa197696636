-------------------------- MODULE MCRuntimeContext --------------------------
(***************************************************************************)
(* A small RuntimeContext: codec claims that tie, that are probed, broken, *)
(* duplicated, without a factory or under a name already taken; probes     *)
(* that tie and ones that differ; extensions, schemes and FourCCs in two   *)
(* spellings; a drive letter; filters with one prefix, two and none.       *)
(***************************************************************************)
EXTENDS RuntimeContext

MCSpellings == {"H264", "h264"}
MCAsciiUpper == [s \in MCSpellings |-> "H264"]

Crates == INSTANCE CodecInfos

\* Asked of either spelling; the wave format is never claimed.
H264 == Crates!Fourcc("H264")
MCContexts ==
  { Crates!Hint(Crates!NewContext(Crates!Fourcc("h264")), "packet", p) : p \in {"strong", "weak"} }
    \union { Crates!Hint(Crates!NewContext(Crates!WaveFormat("h264")), "packet", "strong") }
MCClaimTags ==
  { H264, Crates!WaveFormat("h264"), Crates!Mp4ObjectType("33"), Crates!Matroska("V_AVC") }

\* Confident on strong evidence; broken on weak.
Sniff == [c \in MCContexts |-> IF <<"packet", "strong">> \in c.hints THEN 2 ELSE NaN]
Refuse == [c \in MCContexts |-> 0]

Hardware ==
  LET made == Crates!Factory(Crates!Factory(Crates!NewInfo("h264"), "decoder"), "encoder")
      named == Crates!Capabilities(Crates!Options(made, "encoder"), "hw")
      claims == Crates!Tagged(named, <<H264, H264>>)
  IN  Crates!Magics(Crates!Probed(claims, Sniff), <<<<1, 2>>, <<>>>>)

Software == Crates!Factory(Crates!NewInfo("h264"), "decoder")
EncoderOnly ==
  Crates!Options(Crates!Factory(Crates!Capabilities(Crates!NewInfo("h264"), "hw"), "encoder"),
                 "decoder")
Avc == Crates!NewInfo("avc")
AvcEncoder == Crates!Probed(Crates!Factory(Avc, "encoder"), Refuse)

Claims(info, tags, magics) == Crates!Tagged(Crates!Magics(info, magics), tags)

MCInfos ==
  { Hardware,
    Claims(Software, <<H264>>, <<<<1>>>>),
    EncoderOnly,
    Claims(Avc, <<H264, Crates!Matroska("V_AVC")>>, <<<<1>>>>),
    Crates!WithPriority(Claims(Avc, <<H264>>, <<<<1, 2>>, <<1>>>>), 50),
    Crates!WithPriority(Claims(AvcEncoder, <<H264>>, <<<<3>>>>), 10) }

MCPayloads == { <<>>, <<1>>, <<1, 2, 3>>, <<3, 1>> }

MCLower == [e \in {"wav", "WAV"} |-> "wav"]

MCInputs == {"riff", "noise"}
MCProbes == { [d \in MCInputs |-> IF d = "riff" THEN 100 ELSE 0],
              [d \in MCInputs |-> IF d = "riff" THEN 50 ELSE 25] }

MCAsciiLower == [s \in {"file", "http", "HTTP", "c", "a_b"} |-> IF s = "HTTP" THEN "http" ELSE s]
MCUris == [scheme : DOMAIN MCAsciiLower, colon : BOOLEAN, rest : {"x"}]

MCStripPrefix ==
  [n \in {"blur", "v:blur", "video.v:blur"} |->
     IF n = "video.v:blur" THEN "v:blur" ELSE "blur"]
=============================================================================
