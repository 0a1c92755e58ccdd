-------------------------------- MODULE Live --------------------------------
(***************************************************************************)
(* The live layer (src/tmms/live/base): CodecUtils tells codec headers     *)
(* from frames, CodecHeader keeps the headers and finds the one for a      *)
(* position, TimeCorrector gives frames the times players see.             *)
(*                                                                         *)
(* External: the caller, an assumed one, which passes headers to           *)
(* ParseCodecHeader, as tests/live/test_codechander.cpp does, and besides, *)
(* as nothing in the repository does yet, numbers the packets (SetIndex)   *)
(* and corrects the times of the frames (CorrectTimestamp); and the        *)
(* publisher, whose two streams advance side by side on one clock.  It may *)
(* start over with another clock.                                          *)
(*                                                                         *)
(* Operators named Bug... are deliberately wrong variants of the operator  *)
(* that follows them; no specification uses them.                          *)
(***************************************************************************)
EXTENDS Amf, FiniteSets

CONSTANTS VideoSteps,   \* how far the publisher's video advances in a frame
          AudioSteps,   \* and its audio, in ms
          Skew,         \* bound on how far one stream is ahead of the other
          Clocks,       \* what the publisher's clock shows at its position 0
          MaxRestarts,  \* bound on its restarts
          MaxHeaders,   \* bound on metadata and codec headers
          MaxPackets    \* bound on packets

ASSUME LiveAssumption ==
  /\ VideoSteps \subseteq 1..99 /\ AudioSteps \subseteq 1..99
  /\ Skew \in 0..99 /\ Clocks \subseteq Nat
  /\ MaxRestarts \in Nat /\ MaxHeaders \in Nat /\ MaxPackets \in Nat

VARIABLES
  \* the publisher
  clock,      \* what its clock shows at position 0
  at,         \* at["video"], at["audio"]: position of the last frame, -1: none
  restarts,   \* history: number of restarts
  uneven,     \* history: it has restarted while only one stream had begun
  \* CodecHeader
  saved,      \* meta_packets_, video_header_packets_, audio_header_packets_
  shown,      \* history: the width the last ParseMeta found
  \* TimeCorrector
  original,   \* video_original_timestamp_, audio_original_timestamp_
  corrected,  \* video_corrected_timestamp_, audio_corrected_timestamp_
  \* the caller
  received    \* history: the packets

liveVars == <<clock, at, restarts, uneven, saved, shown, original, corrected, received>>

Streams == {"video", "audio"}
Kinds == Streams \cup {"meta"}

-----------------------------------------------------------------------------
(* Packets                                                                 *)

\* The second byte of an AVC or AAC packet is 0 in a codec header; metadata is a
\* name, whose length takes the second byte, and an array.
Metadata ==
  EncodeString(<<1>>) \o (<<EcmaArrayType, 0, 0, 0, 2>>
    \o EncodeNamedNumber(<<2>>, 30) \o EncodeNamedNumber(<<3>>, 1280)
    \o <<0, 0, ObjectEndType>>)
Data(kind, isHeader) ==
  IF kind = "meta" THEN Metadata
  ELSE <<IF kind = "video" THEN 23 ELSE 175, IF isHeader THEN 0 ELSE 1>>
WidthName == <<3>>

NoPacket == [kind |-> "none", index |-> 0, data |-> <<>>]
Packet(kind, isHeader) ==
  [kind |-> kind, index |-> Len(received) + 1, data |-> Data(kind, isHeader)]

\* CodecUtils::IsCodecHeader
IsCodecHeader(p) == Len(p.data) > 1 /\ p.data[2] = 0

-----------------------------------------------------------------------------
(* CodecHeader                                                             *)

Latest(ps) == IF ps = <<>> THEN NoPacket ELSE ps[Len(ps)]

\* The last of some places in ps.
LastOf(ps, places) == ps[CHOOSE n \in places : \A m \in places : m <= n]

\* A header that is the position itself is not found.
BugHeaderFor(ps, idx) ==
  LET older == {n \in DOMAIN ps : ps[n].index < idx}
  IN  IF idx <= 0 \/ older = {} THEN Latest(ps) ELSE LastOf(ps, older)
\* Meta, VideoHeader and AudioHeader: the search goes from the newest to the
\* oldest and ends at the first that is not behind the position; without one, and
\* at the beginning, the answer is the newest.
HeaderFor(ps, idx) ==
  LET older == {n \in DOMAIN ps : ps[n].index <= idx}
  IN  IF idx <= 0 \/ older = {} THEN Latest(ps) ELSE LastOf(ps, older)

\* ParseMeta: nothing happens when Decode returns 0.
ParseMeta(p) ==
  LET d == Decode(p.data, FALSE)
  IN  IF d.ok /\ d.next = 0 THEN shown
      ELSE Number(Property(d.found, WidthName))

\* ParseCodecHeader with SaveMeta, SaveVideoHeader, SaveAudioHeader
ParseCodecHeader(p) ==
  /\ saved' = [saved EXCEPT ![p.kind] = Append(@, p)]
  /\ shown' = IF p.kind = "meta" THEN ParseMeta(p) ELSE shown

-----------------------------------------------------------------------------
(* TimeCorrector                                                           *)

MaxDelta == 100  \* kMaxVideoDeltaTime, kMaxAudioDeltaTime
DefaultDelta == [video |-> 40, audio |-> 20]
Far(delta) == delta <= 0 - MaxDelta \/ delta >= MaxDelta
AtLeast0(t) == IF t < 0 THEN 0 ELSE t

\* The step the players see, for a step of the source.
BugStep(stream, delta) == delta
Step(stream, delta) == IF Far(delta) THEN DefaultDelta[stream] ELSE delta

\* CorrectAudioTimeStampByAudio; CorrectAudioTimeStampByVideo is called by nobody.
CorrectAudio(time) ==
  /\ original' = [original EXCEPT !.audio = time]
  /\ corrected' =
       [corrected EXCEPT !.audio =
          IF original.audio = -1 THEN time
          ELSE AtLeast0(@ + Step("audio", time - original.audio))]

\* The first video goes by its own time, whatever audio is at.
BugVideoBase(time) ==
  IF original.video # -1
  THEN [original |-> original.video, corrected |-> corrected.video]
  ELSE [original |-> time, corrected |-> 0]
\* What the first video is measured against: itself, or audio when that has come
\* before and is far away.
VideoBase(time) ==
  IF original.video # -1
  THEN [original |-> original.video, corrected |-> corrected.video]
  ELSE IF original.audio # -1 /\ Far(original.audio - time)
  THEN [original |-> original.audio, corrected |-> corrected.audio]
  ELSE [original |-> time, corrected |-> time]

\* CorrectVideoTimeStampByVideo
CorrectVideo(time) ==
  LET base == VideoBase(time)
  IN  /\ original' = [original EXCEPT !.video = time]
      /\ corrected' =
           [corrected EXCEPT !.video =
              AtLeast0(base.corrected + Step("video", time - base.original))]

\* CorrectTimestamp of a frame
CorrectTimestamp(stream, time) == IF stream = "video" THEN CorrectVideo(time)
                                                      ELSE CorrectAudio(time)

-----------------------------------------------------------------------------
(* The publisher and the caller                                            *)

LiveInit ==
  /\ clock \in Clocks /\ at = [s \in Streams |-> -1]
  /\ restarts = 0 /\ uneven = FALSE
  /\ saved = [k \in Kinds |-> <<>>] /\ shown = 0
  /\ original = [s \in Streams |-> -1] /\ corrected = [s \in Streams |-> 0]
  /\ received = <<>>

\* OnRecv of p, whose time is given for frames.
OnRecv(p, time) ==
  /\ received' = Append(received, p)
  /\ IF IsCodecHeader(p)
     THEN ParseCodecHeader(p) /\ UNCHANGED <<original, corrected>>
     ELSE CorrectTimestamp(p.kind, time) /\ UNCHANGED <<saved, shown>>

\* The publisher sends metadata or a codec header, when it starts and whenever it
\* likes; its time is not corrected.
SendHeader(kind) ==
  /\ Len(received) < MaxPackets
  /\ Cardinality({i \in DOMAIN received : IsCodecHeader(received[i])}) < MaxHeaders
  /\ OnRecv(Packet(kind, TRUE), 0)
  /\ UNCHANGED <<clock, at, restarts, uneven>>

\* It sends the next frame of a stream, the first one at the position that the
\* other stream has reached.
SendFrame(stream, step) ==
  LET other == IF stream = "video" THEN "audio" ELSE "video"
      to == IF at[stream] = -1 THEN (IF at[other] = -1 THEN 0 ELSE at[other])
                               ELSE at[stream] + step
  IN  /\ Len(received) < MaxPackets
      /\ at[other] = -1 \/ to - at[other] <= Skew
      /\ at' = [at EXCEPT ![stream] = to]
      /\ OnRecv(Packet(stream, FALSE), clock + to)
      /\ UNCHANGED <<clock, restarts, uneven>>

\* It starts over, with another clock.
Restart(c) ==
  /\ restarts < MaxRestarts /\ c # clock
  /\ clock' = c
  /\ restarts' = restarts + 1
  /\ uneven' = (uneven \/ \E s, t \in Streams : at[s] = -1 /\ at[t] # -1)
  /\ UNCHANGED <<at, saved, shown, original, corrected, received>>

LiveNext == \/ \E kind \in Kinds : SendHeader(kind)
            \/ \E step \in VideoSteps : SendFrame("video", step)
            \/ \E step \in AudioSteps : SendFrame("audio", step)
            \/ \E c \in Clocks : Restart(c)

LiveSpec == LiveInit /\ [][LiveNext]_liveVars

-----------------------------------------------------------------------------
(* Properties                                                              *)

\* How far the times of a stream are from the publisher's positions.
Offset(s) == corrected[s] - at[s]
Distance(a, b) == IF a < b THEN b - a ELSE a - b

\* Audio and video stay together: the two streams are corrected separately and
\* neither looks at the other after its first frame, and yet they are exactly in
\* step until the publisher restarts, and a restart moves them apart by less than
\* three times the limit, whatever the clocks are (time_corrector.cpp:62, 103).
\* Not so when it has restarted before its second stream began, which is then
\* taken at its own time.
Together ==
  (\A s \in Streams : at[s] # -1) /\ ~uneven =>
    Distance(Offset("video"), Offset("audio")) <= 3 * MaxDelta * restarts

\* What makes it so, as an inductive invariant.  A stream is in time until the
\* restart it has not had a frame after: Met(s) counts the restarts it has met.
Times == Nat \cup {-1}
TimesOK ==
  /\ clock \in Nat /\ restarts \in Nat /\ uneven \in BOOLEAN
  /\ at \in [Streams -> Times] /\ original \in [Streams -> Times]
  /\ corrected \in [Streams -> Nat]
  /\ \A s \in Streams : original[s] = -1 <=> at[s] = -1

Met(s) == IF original[s] = clock + at[s] THEN restarts ELSE restarts - 1

\* A restart makes a stream gain less than the limit, and lose less than twice it.
Ahead(s, t) == Offset(s) - Offset(t) <= MaxDelta * (Met(s) + 2 * Met(t))

Drift ==
  ~uneven =>
    \A s, t \in Streams :
      /\ at[s] # -1 /\ at[t] # -1 => Ahead(s, t)
      /\ at[s] # -1 /\ at[t] = -1 =>
           original[s] = clock + at[s] /\ corrected[s] = clock + at[s]

\* Whatever the publisher's clock does, the times a player sees of a stream go on
\* in steps below the limit and are not negative (time_corrector.cpp:89, 115).
SmallSteps ==
  [][\A s \in Streams :
       /\ corrected'[s] >= 0
       /\ at[s] # -1 => Distance(corrected'[s], corrected[s]) < MaxDelta]_liveVars

\* The codec headers and metadata of a kind among the first k packets.
Headers(kind, k) ==
  {i \in 1..k : received[i].kind = kind /\ IsCodecHeader(received[i])}

\* A player at any position gets the last header up to there although newer ones
\* have come since; before the first one, and at the very beginning, it gets the
\* newest (codec_header.cpp:19, 42, 65).
HeaderInForce ==
  \A kind \in Kinds, k \in 0..Len(received) :
    LET known == Headers(kind, IF Headers(kind, k) = {} THEN Len(received) ELSE k)
    IN  \A i \in known :
          (\A j \in known : j <= i) => HeaderFor(saved[kind], k) = received[i]

\* The metadata are understood: the width found in them is the one that the
\* publisher named last (codec_header.cpp:103).
MetaUnderstood == saved["meta"] # <<>> => shown = 1280

\* Why the right header is found, as an inductive invariant.  Packets are
\* numbered as they come.  The list of a kind has exactly its headers, in the order
\* of their numbers.
Packets == [kind : Kinds, index : Nat,
            data : {Data(k, h) : k \in Kinds, h \in BOOLEAN}]
PacketsOK ==
  /\ received \in Seq(Packets) /\ saved \in [Kinds -> Seq(Packets)]
  /\ \A i \in DOMAIN received : received[i].index = i

SavedOK ==
  \A kind \in Kinds :
    LET ps == saved[kind]
        all == Headers(kind, Len(received))
    IN  /\ \A n \in DOMAIN ps : ps[n].index \in all /\ ps[n] = received[ps[n].index]
        /\ \A m, n \in DOMAIN ps : m < n => ps[m].index < ps[n].index
        /\ \A i \in all : \E n \in DOMAIN ps : ps[n] = received[i]

Inv == TimesOK /\ Drift /\ PacketsOK /\ SavedOK
=============================================================================
