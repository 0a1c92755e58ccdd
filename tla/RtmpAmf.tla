------------------------------ MODULE RtmpAmf -------------------------------
(***************************************************************************)
(* The commands of an RTMP session on the wire                             *)
(* (src/tmms/mmedia/rtmp/rtmp_context.cpp): the AMF data each Send...      *)
(* operation builds, and what HandleAmfCommand and the Handle... operations*)
(* take out of it.  RtmpSession passes commands as records of a type and a *)
(* transaction id; this module is what stands between the two ends.        *)
(*                                                                         *)
(* A word of the protocol, an address or the name of a stream is one byte, *)
(* its number in Words.                                                    *)
(***************************************************************************)
EXTENDS RtmpSession, Amf

Words == <<"connect", "createStream", "play", "publish", "_result", "onStatus",
           "app", "tcUrl", "fpad", "capabilities", "audioCodecs", "videoCodecs",
           "videoFunction", "fmsVer", "level", "code", "description",
           "objectEncoding", "live", "some text", "the application",
           "the address", "the stream">>
Text(w) == <<CHOOSE i \in DOMAIN Words : Words[i] = w>>

NamedText(name, w) == EncodeNamedString(Text(name), Text(w))
NamedValue(name, n) == EncodeNamedNumber(Text(name), n)

\* SendConnect
ConnectObject ==
  EncodeObject(NamedText("app", "the application")
               \o NamedText("tcUrl", "the address")
               \o EncodeNamedBoolean(Text("fpad"), FALSE)
               \o NamedValue("capabilities", 31)
               \o NamedValue("audioCodecs", 1639)
               \o NamedValue("videoCodecs", 252)
               \o NamedValue("videoFunction", 1))

\* The information object of SendStatus, and of HandleConnect before its last
\* member.
Information == NamedText("level", "some text") \o NamedText("code", "some text")
                 \o NamedText("description", "some text")

\* What follows the name and the transaction id of a command: SendConnect,
\* SendCreateStream, SendPlay, SendPublish, SendStatus, and the two results, of
\* HandleConnect (transaction 1) and of HandleCreateStream.
Arguments(m) ==
  CASE m.type = "connect" -> ConnectObject
    [] m.type = "createStream" -> EncodeNull
    [] m.type = "play" ->
         EncodeNull \o EncodeString(Text("the stream")) \o EncodeNumber(0 - 1000)
    [] m.type = "publish" ->
         EncodeNull \o EncodeString(Text("the stream")) \o EncodeString(Text("live"))
    [] m.type = "onStatus" -> EncodeNull \o EncodeObject(Information)
    [] m.type = "_result" /\ m.id = 1 ->
         EncodeObject(NamedText("fmsVer", "some text") \o NamedValue("capabilities", 31))
           \o EncodeObject(Information \o NamedValue("objectEncoding", 0))
    [] OTHER -> EncodeNull \o EncodeNumber(1)

Wire(m) == EncodeString(Text(m.type)) \o EncodeNumber(m.id) \o Arguments(m)

-----------------------------------------------------------------------------

\* HandleAmfCommand and the first lines of the handlers: the name of the command
\* and its transaction id.
CommandOf(props) == String(PropertyAt(props, 0))
TransactionOf(props) == Number(PropertyAt(props, 1))

\* HandleConnect: app_ and tcUrl_, and amf3.
AppOf(props) == String(Property(Members(PropertyAt(props, 2)), Text("app")))
AddressOf(props) == String(Property(Members(PropertyAt(props, 2)), Text("tcUrl")))
Amf3(props) ==
  Number(Property(Members(PropertyAt(props, 2)), Text("objectEncoding"))) = 3

\* HandlePlay and HandlePublish: name_.
NameOf(props) == String(PropertyAt(props, 3))

\* The name is looked for behind the Null, which has left no property: play finds
\* its start time there, which is no string, and publish the type of the stream.
NameFound(m) == IF m.type = "publish" THEN Text("live") ELSE <<>>

\* The parts of tcUrl_ between its slashes, as the client's user gave it: the
\* client sends all of it, with the stream.
UrlParts == <<"rtmp:", "", "the host", "the application", "the stream">>

\* ParseNameAndTcUrl: session_name_.  A URL of five or six parts replaces the
\* application and the name.  The domain is cut at the first character that is not
\* a colon, which leaves nothing.
SessionName(app, name, parts) ==
  LET n == Len(parts)
  IN  IF n \in {5, 6} THEN <<"", parts[n - 1], parts[n]>> ELSE <<"", app, name>>

\* A message of more than 128 bytes is parsed with the chunk size it was cut with:
\* an end announces its chunk size before the first of them.
ChunkSizeFirst ==
  \A e \in Ends : LET u == Underway(e) IN
    \A i \in DOMAIN u :
      Long(u[i]) => \/ inChunk[e]
                    \/ \E j \in 1..(i - 1) : u[j].type = "SetChunkSize"

\* Whatever the ends send in the course of a session, it arrives in chunks of the
\* size the receiver expects, its decoder takes all of it apart and the handler gets the command, the transaction id, which
\* alone decides what happens next, and the addresses that were put in.  The name
\* of the stream is lost, and yet the session the server starts to play is the one
\* the client means, because the address names it too (rtmp_context.cpp:1008, 1278,
\* 1311, 1381).
Understood ==
  ChunkSizeFirst /\ \A e \in Ends :
    net[e] # <<>> /\ Head(net[e]).type \in Commands =>
      LET m == Head(net[e])
          d == Decode(Wire(m), FALSE)
      IN  /\ d.ok /\ Len(Wire(m)) - d.next < 3
          /\ CommandOf(d.found) = Text(m.type)
          /\ TransactionOf(d.found) = m.id
          /\ m.type = "connect" => /\ AppOf(d.found) = Text("the application")
                                   /\ AddressOf(d.found) = Text("the address")
                                   /\ ~Amf3(d.found)
          /\ m.type \in {"play", "publish"} => NameOf(d.found) = NameFound(m)
          /\ m.type = "play" =>
               SessionName("the application", NameOf(d.found), UrlParts)
                 = SessionName("the application", "the stream", UrlParts)
=============================================================================
