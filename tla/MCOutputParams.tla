--------------------------- MODULE MCOutputParams ---------------------------
(***************************************************************************)
(* Small instances of OutputParams: an audio stream whose shapes state the *)
(* count, the layout, both or neither, and a video stream whose shapes     *)
(* state parts of the colour signal; every kind of consumer and decoder,   *)
(* except that only a decoder that emits events can serve a consumer of    *)
(* events.                                                                 *)
(***************************************************************************)
EXTENDS OutputParams

CONSTANTS AudioCodec, VideoCodec

With(p, f, v) == [p EXCEPT ![f] = v]

MCShapes ==
  { With(WithChannels(Audio(AudioCodec), 2), "sample_rate", 44),
    WithLayout(Audio(AudioCodec), <<"Mono", 0>>),
    WithChannels(WithLayout(Audio(AudioCodec), <<"LoRo", 0>>), 2),
    With(With(Video(VideoCodec), "width", 16), "pixel_format", <<"YuvJ420P", 8>>),
    WithTag(WithSignal(Video(VideoCodec), FromCodePoints(9, 2, 9, TRUE)), "decoder"),
    WithBlob(WithLayers(With(WithRange(Video(VideoCodec), "Limited"), "width", 8), "two"), "icc") }

MCContainers ==
  { WithChannels(WithLayout(Audio(AudioCodec), <<"Stereo", 0>>), 2),
    WithLanguage(WithLimits(WithChannels(Audio(AudioCodec), 1), "tight"), "en"),
    WithBlob(WithBlob(WithDeviceIndex(WithTag(WithSignal(Video(VideoCodec),
      FromCodePoints(1, 1, 1, FALSE)), "container"), 1), "icc"), "cover-art") }

AllSetups ==
  { s \in [mode : Modes, reset : {"default", "override"}, emits : BOOLEAN] :
      s.mode = "event" => s.emits }

\* The consumer of events behind a decoder with the default reset.
EventsThroughDefaultReset == { [mode |-> "event", reset |-> "default", emits |-> TRUE] }

MCSetups == AllSetups \ EventsThroughDefaultReset
=============================================================================
