---------------------------- MODULE StreamParams ----------------------------
(***************************************************************************)
(* What is known of a stream (CodecParameters of src/stream.rs, with the   *)
(* colour signal of src/signal.rs): a record most of whose fields may be   *)
(* open, filled by the container and then by the decoder.                  *)
(***************************************************************************)
EXTENDS ChannelLayouts

CONSTANT Unset   \* an open field: None, an empty list, code point 2

\* The fields a decoder describes, each merged on its own ...
Scalars == {"width", "height", "pixel_format", "frame_rate", "sample_rate", "sample_format"}
\* ... the pair that must agree, the parts of color_signal ...
Pair == {"channels", "channel_layout"}
Signal == {"range", "primaries", "transfer", "matrix"}
\* ... and the fields that are the container's.
Kept == {"codec_id", "media_type", "extradata", "bit_rate", "options", "limits",
         "device_index", "tag", "language", "blobs"}

Fields == Scalars \union Pair \union Signal \union {"layers"} \union Kept

New(codec, media) ==
  [f \in Fields |-> CASE f = "codec_id" -> codec [] f = "media_type" -> media
                      [] OTHER -> Unset]
Audio(codec) == New(codec, "Audio")
Video(codec) == New(codec, "Video")

\* Each builder method replaces one field and fills in no other.
WithChannels(p, n) == [p EXCEPT !["channels"] = n]
WithLayout(p, l) == [p EXCEPT !["channel_layout"] = l]
WithTag(p, t) == [p EXCEPT !["tag"] = t]
WithLayers(p, layers) == [p EXCEPT !["layers"] = layers]
WithRange(p, r) == [p EXCEPT !["range"] = r]
WithLimits(p, limits) == [p EXCEPT !["limits"] = limits]
WithDeviceIndex(p, n) == [p EXCEPT !["device_index"] = n]
WithLanguage(p, language) == [p EXCEPT !["language"] = language]

\* Blobs add up, those of one kind too.
WithBlob(p, blob) == [p EXCEPT !["blobs"] = IF @ = Unset THEN <<blob>> ELSE Append(@, blob)]

\* Code points as a header carries them; 2 is "unspecified".
FromCodePoints(primaries, transfer, matrix, full) ==
  LET part(c) == IF c = 2 THEN Unset ELSE c
  IN  [s \in Signal |-> CASE s = "range" -> IF full THEN "Full" ELSE "Limited"
                          [] s = "primaries" -> part(primaries)
                          [] s = "transfer" -> part(transfer)
                          [] s = "matrix" -> part(matrix)]

WithSignal(p, signal) == [f \in Fields |-> IF f \in Signal THEN signal[f] ELSE p[f]]

\* ColorSignal::or, the parts of one signal over those of another.
SignalOver(signal, fallback) ==
  [s \in Signal |-> IF signal[s] = Unset THEN fallback[s] ELSE signal[s]]

ResolvedLayout(p) ==
  IF p["channel_layout"] # Unset THEN p["channel_layout"]
  ELSE IF p["channels"] # Unset THEN FromCount(p["channels"]) ELSE Unset

ResolvedChannels(p) ==
  IF p["channels"] # Unset THEN p["channels"]
  ELSE IF p["channel_layout"] # Unset THEN ChannelCount(p["channel_layout"]) ELSE Unset

\* The signal's range before the one the pixel format's label implies.
ResolvedColorRange(p) ==
  IF p["range"] # Unset THEN p["range"]
  ELSE IF p["pixel_format"] \in {<<"YuvJ420P", 8>>, <<"YuvJ422P", 8>>, <<"YuvJ444P", 8>>}
    THEN "Full" ELSE Unset

\* A count and a layout that are both stated have the same channels.
Consistent(p) ==
  p["channels"] # Unset /\ p["channel_layout"] # Unset
    => p["channels"] = ChannelCount(p["channel_layout"])

-----------------------------------------------------------------------------
\* Bug: the container's claim wins.
MergeKeepsClaim(s, p) ==
  [f \in Fields |-> IF f \in Kept \/ s[f] # Unset THEN s[f] ELSE p[f]]

\* Bug: a layout that disagrees with the decoder's count is kept.
MergeFieldwise(s, p) ==
  [f \in Fields |-> IF f \in Kept \/ p[f] = Unset THEN s[f] ELSE p[f]]

\* Bug: a colour signal replaces the whole of the old one.
MergeSignalWhole(s, p) ==
  LET taken == [f \in Fields |-> IF f \in Kept \/ p[f] = Unset THEN s[f] ELSE p[f]]
      said == \E f \in Signal : p[f] # Unset
      fixed == [taken EXCEPT
                 !["channel_layout"] = IF p["channel_layout"] = Unset THEN Unset ELSE @,
                 !["channels"] = IF p["channels"] = Unset
                                   THEN ChannelCount(p["channel_layout"]) ELSE @]
      whole(q) == [f \in Fields |-> IF f \in Signal /\ said THEN p[f] ELSE q[f]]
  IN  whole(IF (p["channels"] # Unset \/ p["channel_layout"] # Unset) /\ ~ Consistent(taken)
              THEN fixed ELSE taken)

\* merge_output_params: what the decoder states wins, part by part for the
\* colour signal; of count and layout, one it does not state gives way when it
\* disagrees with one it does.  "changed" is Merge(s, p) # s.
Merge(s, p) ==
  LET signal == SignalOver([f \in Signal |-> p[f]], [f \in Signal |-> s[f]])
      taken == [f \in Fields |-> CASE f \in Signal -> signal[f]
                                   [] f \in Kept -> s[f]
                                   [] OTHER -> IF p[f] # Unset THEN p[f] ELSE s[f]]
      fixed == [taken EXCEPT
                 !["channel_layout"] = IF p["channel_layout"] = Unset THEN Unset ELSE @,
                 !["channels"] = IF p["channels"] = Unset
                                   THEN ChannelCount(p["channel_layout"]) ELSE @]
  IN  IF /\ p["channels"] # Unset \/ p["channel_layout"] # Unset
         /\ ~ Consistent(taken)
        THEN fixed ELSE taken
=============================================================================
