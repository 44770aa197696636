---------------------------- MODULE OutputParams ----------------------------
(***************************************************************************)
(* How a consumer keeps a stream's parameters in step with the frames a    *)
(* decoder returns (src/registry/codec.rs, src/stream.rs): frames do not   *)
(* carry their shape, so the decoder describes it through output_params(), *)
(* announces a change through a generation counter and, for a decoder that *)
(* emits them, through a StreamParams event in front of the first frame of *)
(* the new shape.  OutputParamsWatch is the consumer's side.               *)
(*                                                                         *)
(* One thread calls both: receive_frame leaves an item the consumer then   *)
(* looks at; packets may be sent, and the decoder reset, in between.       *)
(***************************************************************************)
EXTENDS StreamParams, FiniteSets

CONSTANTS
  Shapes,       \* the output descriptions of this decoder's frames
  Containers,   \* what the container may have claimed about the stream
  None,         \* no description, no read, no item
  Setups,       \* the kinds of decoder and consumer, [mode, reset, emits]
  GenMod,       \* 2^64 in the code: the generation counter wraps
  MaxQueued,    \* bound: frames waiting in the decoder
  MaxResets     \* bound: decoder resets between two looks

\* How the consumer watches: the counter on every item, the counter on media
\* frames only, the events, both, or the counter with receive_arena_frame.
Modes == {"counter", "counter-skip", "event", "both", "arena"}

\* What receive_frame returns.
Items == [kind : {"event", "media"}, shape : Shapes]

\* A description is a CodecParameters, None is none of the values it stands
\* beside, and the counter must not come full circle between two looks of the
\* consumer.
ASSUME OutputParamsAssumption ==
  /\ \A p \in Shapes \union Containers :
       p = [f \in Fields |-> p[f]] /\ Consistent(p)
  /\ None \notin Shapes \union Int \union Items
  /\ \A p \in Shapes \union Containers : p["channel_layout"] # Unset =>
       /\ p["channel_layout"] \in ChannelLayout
       /\ ChannelCount(p["channel_layout"]) # Unset
  /\ \A s \in Setups : s.mode \in Modes
  /\ MaxQueued \in Nat /\ MaxResets \in Nat
  /\ GenMod \in Nat /\ GenMod > MaxQueued * MaxResets + 1

VARIABLES
  setup,       \* which kind of decoder and consumer this is
  queue,       \* shapes of the frames the decoder holds
  current,     \* what output_params() answers
  generation,  \* what output_params_generation() answers
  started,     \* the decoder has returned its first frame
  stream,      \* the consumer's CodecParameters
  origin,      \* as the container filled them
  stated,      \* history: what was last said of each field, by anyone
  seen,        \* OutputParamsWatch.seen
  item,        \* received and not yet looked at, [kind, shape]
  last,        \* shape of the item last looked at
  resets       \* decoder resets since then

decoder == <<queue, current, generation, started>>
consumer == <<stream, stated>>
vars == <<setup, decoder, consumer, origin, seen, item, last, resets>>

-----------------------------------------------------------------------------
\* A decoder of the stream's codec describes frames of that codec.
ShapesOf(params) == {p \in Shapes : p["codec_id"] = params["codec_id"]}

\* The fields a description states.
Said(p) == {f \in Fields \ Kept : p[f] # Unset}

\* What parameters say of a field.  Of the number of channels they may speak
\* through the layout.
Says(p, f) == IF f = "channels" THEN ResolvedChannels(p) ELSE p[f]

\* The history once the consumer was shown the description p, whether or not
\* it merges p: an open field of p leaves what was said before.
Shown(p) ==
  [f \in Fields |-> IF f \notin Kept /\ Says(p, f) # Unset THEN Says(p, f) ELSE stated[f]]

Init ==
  /\ setup \in Setups
  /\ queue = <<>>
  /\ origin \in Containers
  /\ current \in ShapesOf(origin) \union {None}   \* from extradata, or not known yet
  /\ generation = 0
  /\ started = FALSE
  /\ stream = origin
  /\ stated = [f \in Fields |-> Says(origin, f)]
  /\ seen = None
  /\ item = None
  /\ last = None
  /\ resets = 0

\* Bug: the new shape is published when its header is parsed, ahead of the
\* frames of the old shape still queued.
SendPublishes(p) ==
  /\ Len(queue) < MaxQueued
  /\ queue' = Append(queue, p)
  /\ current' = p
  /\ generation' = IF current # p THEN (generation + 1) % GenMod ELSE generation
  /\ UNCHANGED <<setup, started, consumer, origin, seen, item, last, resets>>

Send(p) ==
  /\ Len(queue) < MaxQueued
  /\ queue' = Append(queue, p)
  /\ UNCHANGED <<setup, current, generation, started, consumer, origin, seen, item, last, resets>>

\* A shape becomes visible with its first frame, or with the event before it.
\* The first frame of all settles the description and is not a change.
Publish(p) ==
  /\ current' = p
  /\ generation' = IF started /\ current # p THEN (generation + 1) % GenMod
                   ELSE generation

\* The decoder announces the frame at the head of its queue by an event.
Announces == setup.emits /\ started /\ current # Head(queue)

\* receive_frame returns a StreamParams event; the frame stays queued.
ReceiveEvent ==
  /\ item = None /\ queue # <<>>
  /\ Announces /\ setup.mode # "arena"
  /\ Publish(Head(queue))
  /\ item' = [kind |-> "event", shape |-> Head(queue)]
  /\ UNCHANGED <<setup, queue, started, consumer, origin, seen, last, resets>>

\* receive_frame returns a media frame; receive_arena_frame does so too, having
\* consumed the event in front of it.
ReceiveMedia ==
  /\ item = None /\ queue # <<>>
  /\ Announces => setup.mode = "arena"
  /\ Publish(Head(queue))
  /\ queue' = Tail(queue)
  /\ started' = TRUE
  /\ item' = [kind |-> "media", shape |-> Head(queue)]
  /\ UNCHANGED <<setup, consumer, origin, seen, last, resets>>

-----------------------------------------------------------------------------
\* Which calls of OutputParamsWatch the consumer makes for this item: observe,
\* always for the first item, and observe_frame.
CallsObserve ==
  \/ setup.mode \in {"counter", "arena", "both"}
  \/ setup.mode = "counter-skip" /\ item.kind = "media"
  \/ setup.mode = "event" /\ last = None

CallsObserveFrame ==
  \/ setup.mode = "both"
  \/ setup.mode = "event" /\ last # None

\* observe reads the description when the counter moved and there is one.
Reads == seen # generation /\ current # None

Look ==
  LET told == IF CallsObserveFrame /\ item.kind = "event"
                THEN Merge(stream, item.shape) ELSE stream
  IN  /\ item # None
      /\ stream' = IF CallsObserve /\ Reads THEN Merge(told, current) ELSE told
      /\ stated' = IF CallsObserve \/ CallsObserveFrame THEN Shown(item.shape) ELSE stated
      /\ seen' = IF CallsObserve /\ Reads THEN generation ELSE seen
      /\ last' = IF CallsObserve \/ CallsObserveFrame THEN item.shape ELSE last
      /\ item' = None
      /\ resets' = IF CallsObserve \/ CallsObserveFrame THEN 0 ELSE resets
      /\ UNCHANGED <<setup, decoder, origin>>

\* prime, for a consumer that needs the shape before the first frame.
Prime ==
  /\ item = None /\ last = None
  /\ current # None
  /\ stream' = Merge(stream, current)
  /\ stated' = Shown(current)
  /\ UNCHANGED <<setup, decoder, origin, seen, item, last, resets>>

\* Decoder::reset, for a decoder that overrides it: pending output is dropped.
ResetOverridden ==
  /\ item = None
  /\ setup.reset = "override"
  /\ resets < MaxResets /\ resets' = resets + 1
  /\ queue' = <<>>
  /\ UNCHANGED <<setup, current, generation, started, consumer, origin, seen, item, last>>

\* The shape changes that receive_frame goes through while it empties the queue.
Path == IF started THEN <<current>> \o queue ELSE queue
Changes == Cardinality({i \in 1 .. (Len(Path) - 1) : Path[i] # Path[i + 1]})

\* Decoder::reset by default: flush, then receive and forget every item, the
\* events included.
ResetDrained ==
  /\ item = None
  /\ setup.reset = "default"
  /\ resets < MaxResets /\ resets' = resets + 1
  /\ queue' = <<>>
  /\ current' = IF queue = <<>> THEN current ELSE queue[Len(queue)]
  /\ generation' = (generation + Changes) % GenMod
  /\ started' = (started \/ queue # <<>>)
  /\ UNCHANGED <<setup, consumer, origin, seen, item, last>>

\* The consumer opens another decoder and calls OutputParamsWatch::reset.
Swap(c) ==
  /\ item = None
  /\ queue' = <<>> /\ current' = c /\ generation' = 0 /\ started' = FALSE
  /\ seen' = None /\ last' = None /\ resets' = 0
  /\ UNCHANGED <<setup, consumer, origin, item>>

Next ==
  \/ \E p \in ShapesOf(origin) : Send(p)
  \/ ReceiveEvent
  \/ ReceiveMedia
  \/ Look
  \/ Prime
  \/ ResetOverridden
  \/ ResetDrained
  \/ \E c \in ShapesOf(origin) \union {None} : Swap(c)

Spec == Init /\ [][Next]_vars

-----------------------------------------------------------------------------
\* Everything p describes is what s says.
Covers(s, p) == \A f \in Said(p) : s[f] = p[f]

\* Whichever way the consumer watches, once it has looked at an item its
\* stream parameters describe that item: not a shape that is still queued, nor
\* the one before, through resets, swapped decoders and skipped events; and a
\* converter that resolves the range gets the one the item states.
StreamDescribesFrame ==
  item = None /\ last # None =>
    /\ Covers(stream, last)
    /\ "range" \in Said(last) => ResolvedColorRange(stream) = last["range"]

\* Whether a consumer asks for the count or for the layout, it gets the same
\* channels: no sequence of descriptions, each stating one, both or neither,
\* leaves a pair that contradicts itself.
LayoutConsistent ==
  ResolvedChannels(stream) # Unset =>
    ResolvedChannels(stream) = ChannelCount(ResolvedLayout(stream))

\* Every field of the stream is what the last description that stated it said,
\* however many shapes ago that was, and the container's claim as long as none
\* has: a field the new shape leaves open keeps the old value, and a change the
\* consumer overlooked would be missing here ever after.  The number of channels
\* may be stated through the layout; a layout that a later count contradicts is
\* given up, never replaced by another.
FieldsAccountedFor ==
  /\ \A f \in Fields \ {"channel_layout"} : Says(stream, f) = stated[f]
  /\ stream["channel_layout"] \in {Unset, stated["channel_layout"]}

\* A change is reported once: an item the stream already describes, because an
\* event, the counter or prime told it, changes nothing again.
ChangesReportedOnce ==
  [][item # None /\ item' = None /\ Covers(stream, item.shape)
       => stream' = stream]_vars
=============================================================================
