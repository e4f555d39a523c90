------------------------------- MODULE Frames -------------------------------
(***************************************************************************)
(* A colour's way from the TV to a lamp (internal/huestream,               *)
(* internal/entertainment/streamer.go and convert.go): the TV's datagram   *)
(* is parsed, each channel is mapped to the Pro's channel, the gated       *)
(* median drops spikes, the send loop eases the colour and encodes the     *)
(* frame the Pro decodes; without a DTLS stream each channel is forwarded  *)
(* as a CLIP v1 state instead.                                             *)
(*                                                                         *)
(* Components are 16-bit numbers and record bodies are sequences of bytes, *)
(* as in the code.  A datagram's header is abstracted to its version: the  *)
(* magic, the sequence number, the configuration id and the colour space   *)
(* (always xy) are passed through and decide nothing.  The easing weight   *)
(* is the fraction AlphaNum / AlphaDen.                                    *)
(***************************************************************************)
EXTENDS Integers, Sequences, FiniteSets, Functions

CONSTANTS
  Lamps,            \* v1 ids of the lamps the TV drives
  ProChannels,      \* channel ids the Pro may assign
  Values,           \* brightness levels of the TV's picture
  MedianWindow,     \* -entertainment-median-window
  MedianThreshold,  \* -entertainment-median-threshold
  AlphaNum, AlphaDen,
  Settle,           \* ticks after which every fade of the picture has arrived
  MaxFrames,        \* bound: frames of the TV
  MaxSessions,      \* bound: streams to the Pro
  MaxZones          \* bound: changes of the TV's zone

SnapColorDelta == 256
MaxU16 == 65535
MaxByte == 255
U16 == 0 .. MaxU16
Byte == 0 .. MaxByte

ASSUME FramesAssumption ==
  /\ Lamps \subseteq U16 /\ ProChannels \subseteq Byte
  /\ Cardinality(ProChannels) >= Cardinality(Lamps)
  /\ Values \subseteq U16 /\ Values # {}
  /\ MedianWindow \in Nat /\ MedianThreshold \in U16
  /\ AlphaNum \in 1 .. AlphaDen /\ AlphaDen \in Nat
  /\ MaxFrames \in Nat /\ MaxSessions \in Nat /\ MaxZones \in Nat

VARIABLES
  path,       \* "rest", or "dtls" while the streamer holds a connection
  requested,  \* the lamps of the TV's zone
  remap,      \* v1 id -> Pro channel, of the current configuration
  latest,     \* Pro channel -> colour to ease to
  current,    \* Pro channel -> colour last sent
  history,    \* Pro channel -> recent colours, newest last
  wire,       \* the last datagram to the Pro
  shown,      \* the state each lamp was last given, <<>> if none
  raws,       \* history: what the TV sent each lamp since the path or the zone changed
  quiet,      \* history: ticks since the last frame, counted up to Settle
  frames, sessions, zones

streamVars == <<path, remap, latest, current, history, wire>>
frameVars == <<streamVars, requested, shown, raws, quiet, frames, sessions, zones>>

Channel(id, a, b, c) == [ID |-> id, A |-> a, B |-> b, C |-> c]

(* The empty map.                                                          *)
Nowhere == [x \in {} |-> x]

(* A set of numbers in ascending order.                                    *)
Ascending(S) ==
  [i \in 1 .. Cardinality(S) |-> CHOOSE x \in S : Cardinality({y \in S : y < x}) = i - 1]

-----------------------------------------------------------------------------
(* package huestream.                                                      *)

AppendU16(v) == <<v \div 256, v % 256>>

(* One record of a v1 (9 bytes) or v2 (7 bytes) datagram.                  *)
Record(major, c) ==
  (IF major = 2 THEN <<c.ID>> ELSE <<0>> \o AppendU16(c.ID))
    \o AppendU16(c.A) \o AppendU16(c.B) \o AppendU16(c.C)

(* The bytes of records of sz bytes each, one after the other.             *)
Concat(records, sz) ==
  [k \in 1 .. sz * Len(records) |-> records[(k - 1) \div sz + 1][((k - 1) % sz) + 1]]

Size(major) == IF major = 2 THEN 7 ELSE 9

(* A v2 channel id that does not fit one byte is dropped.                  *)
Encode(f) ==
  LET kept == Ascending({i \in DOMAIN f.channels :
                           f.major = 2 => f.channels[i].ID <= MaxByte})
  IN [major |-> f.major,
      body |-> Concat([j \in DOMAIN kept |-> Record(f.major, f.channels[kept[j]])],
                      Size(f.major))]

(* The records that are complete; trailing bytes are ignored.              *)
Parse(d) ==
  LET sz == Size(d.major)
      U(i) == 256 * d.body[i] + d.body[i + 1]
      At(end) == Channel(IF d.major = 2 THEN d.body[end - 6] ELSE U(end - 7),
                         U(end - 5), U(end - 3), U(end - 1))
  IN [major |-> d.major,
      channels |-> [i \in 1 .. Len(d.body) \div sz |-> At(i * sz)]]

-----------------------------------------------------------------------------
(* The filters.                                                            *)

(* Mutant: an even window stays even.                                      *)
WindowAsGiven == MedianWindow

(* SetMedianFilter rounds an even window up.                               *)
Window ==
  IF MedianWindow > 1 /\ MedianWindow % 2 = 0 THEN MedianWindow + 1 ELSE MedianWindow

(* The element at index len/2 of the sorted samples.                       *)
MedianComponent(s) ==
  LET Below(v) == Cardinality({i \in DOMAIN s : s[i] < v})
      UpTo(v) == Cardinality({i \in DOMAIN s : s[i] <= v})
      middle == Len(s) \div 2
  IN CHOOSE v \in Range(s) : Below(v) <= middle /\ middle < UpTo(v)

GatedMedian(h, newest) ==
  LET Pick(comp) ==
        LET med == MedianComponent([i \in DOMAIN h |-> h[i][comp]])
            d == newest[comp] - med
        IN IF d > MedianThreshold \/ d < -MedianThreshold THEN med ELSE newest[comp]
  IN Channel(newest.ID, Pick("A"), Pick("B"), Pick("C"))

LastOf(n, s) == IF Len(s) > n THEN SubSeq(s, Len(s) - n + 1, Len(s)) ELSE s

(* math.Round(alpha * d), halves away from zero.                           *)
Eased(d) ==
  IF d >= 0 THEN (2 * d * AlphaNum + AlphaDen) \div (2 * AlphaDen)
            ELSE -((2 * (-d) * AlphaNum + AlphaDen) \div (2 * AlphaDen))

(* Mutant: the tail is left to the rounding.                               *)
NeverSnaps(cur, tgt) == cur + Eased(tgt - cur)

SmoothComponent(cur, tgt) ==
  IF tgt - cur \in -SnapColorDelta .. SnapColorDelta THEN tgt ELSE cur + Eased(tgt - cur)

SmoothToward(cur, tgt) ==
  Channel(tgt.ID, SmoothComponent(cur.A, tgt.A), SmoothComponent(cur.B, tgt.B),
          SmoothComponent(cur.C, tgt.C))

(* How far a fade over d still has to go after a tick, and how far the     *)
(* longest fade of the TV's picture has to go after q of them.             *)
Closer(d) == IF d <= SnapColorDelta THEN 0 ELSE d - Eased(d)

Spread == CHOOSE d \in {v - w : v, w \in Values} : \A v, w \in Values : v - w <= d

FadeLeft[q \in 0 .. Settle] == IF q = 0 THEN Spread ELSE Closer(FadeLeft[q - 1])

ASSUME SettleAssumption == Settle \in Nat \ {0} /\ FadeLeft[Settle] = 0

(* convert.go: a channel as the CLIP v1 state of the REST path.            *)
ScaleBri(v) == (v * 253) \div MaxU16 + 1
ToHueV1State(c) == [via |-> "rest", A |-> c.A, B |-> c.B, C |-> ScaleBri(c.C)]

-----------------------------------------------------------------------------
FramesInit ==
  /\ path = "rest" /\ requested = Lamps
  /\ remap = Nowhere /\ latest = Nowhere /\ current = Nowhere /\ history = Nowhere
  /\ wire = <<>>
  /\ shown = [l \in Lamps |-> <<>>]
  /\ raws = [l \in Lamps |-> <<>>]
  /\ quiet = 0 /\ frames = 0 /\ sessions = 0 /\ zones = 0

Forget == raws' = [l \in Lamps |-> <<>>]

(* SetRequestedMembers: an empty list is ignored.                          *)
SetRequestedMembers(z) ==
  /\ z # {} /\ z # requested /\ zones < MaxZones
  /\ requested' = z
  /\ zones' = zones + 1
  /\ IF path = "rest" THEN Forget ELSE UNCHANGED raws
  /\ UNCHANGED <<streamVars, shown, quiet, frames, sessions>>

(* Mutant: the maps of the previous stream live on.                        *)
KeptMaps == UNCHANGED <<latest, current, history>>

FreshMaps == latest' = Nowhere /\ current' = Nowhere /\ history' = Nowhere

(* establish stores the new stream, on the channels the Pro assigned.      *)
Establish(rm) ==
  /\ path = "rest" /\ sessions < MaxSessions
  /\ path' = "dtls"
  /\ remap' = rm
  /\ FreshMaps
  /\ Forget
  /\ sessions' = sessions + 1
  /\ quiet' = 0
  /\ UNCHANGED <<requested, wire, shown, frames, zones>>

(* A failed write or a Stop tears the stream down.                         *)
Teardown ==
  /\ path = "dtls"
  /\ path' = "rest"
  /\ Forget
  /\ UNCHANGED <<requested, remap, latest, current, history, wire, shown,
                 quiet, frames, sessions, zones>>

(* The TV's picture of level v on lamp l.                                  *)
Colour(l, v) == Channel(l, v, MaxU16 - v, v \div 2)

(* A datagram of the TV for all its lamps, its last byte perhaps missing.  *)
Datagram(pic, cut) ==
  LET ids == Ascending(Lamps)
      body == Concat([i \in DOMAIN ids |->
                LET c == Colour(ids[i], pic[ids[i]])
                IN <<0, c.ID \div 256, c.ID % 256, c.A \div 256, c.A % 256,
                     c.B \div 256, c.B % 256, c.C \div 256, c.C % 256>>], 9)
  IN [major |-> 1, body |-> SubSeq(body, 1, Len(body) - cut)]

(* The lamps whose records in it are complete.                             *)
Complete(cut) == {l \in Lamps : cut = 0 \/ \E k \in Lamps : l < k}

(* The channels of a frame whose ids are among ids.                        *)
Among(f, ids) == {i \in DOMAIN f : f[i].ID \in ids}

(* The lamps the current path drives.                                      *)
Driven == IF path = "dtls" THEN DOMAIN remap ELSE requested

(* History: what the TV sent them, before anything is decoded.             *)
Noted(pic, cut) ==
  /\ frames < MaxFrames
  /\ frames' = frames + 1
  /\ quiet' = 0
  /\ raws' = [l \in Lamps |-> IF l \in Driven \cap Complete(cut)
                               THEN Append(raws[l], Colour(l, pic[l])) ELSE raws[l]]

(* medianFilterLocked: the ring of a channel, and the colour to ease to.   *)
Ring(ch, raw) ==
  LastOf(Window, Append(IF ch \in DOMAIN history THEN history[ch] ELSE <<>>, raw))

(* Push, on the DTLS path.                                                 *)
PushDTLS(f) ==
  LET mapped == Among(f, DOMAIN remap)
      hit == {remap[f[i].ID] : i \in mapped}
      Raw(ch) == LET c == f[CHOOSE i \in mapped : remap[f[i].ID] = ch]
                 IN Channel(ch, c.A, c.B, c.C)
      filtered == IF Window > 1 THEN hit ELSE {}
  IN /\ path = "dtls"
     /\ history' = [ch \in DOMAIN history \cup filtered |->
                      IF ch \in filtered THEN Ring(ch, Raw(ch)) ELSE history[ch]]
     /\ latest' = [ch \in DOMAIN latest \cup hit |->
                     IF ch \in filtered THEN GatedMedian(history'[ch], Raw(ch))
                     ELSE IF ch \in hit THEN Raw(ch) ELSE latest[ch]]
     /\ UNCHANGED <<path, requested, remap, current, wire, shown, sessions, zones>>

(* Push, without a stream: every channel of the zone goes out over REST.   *)
PushREST(f) ==
  /\ path = "rest"
  /\ shown' = [l \in Lamps |->
                 IF Among(f, requested \cap {l}) = {} THEN shown[l]
                 ELSE ToHueV1State(f[CHOOSE i \in Among(f, {l}) : TRUE])]
  /\ UNCHANGED <<streamVars, requested, sessions, zones>>

(* A datagram of the TV: the receiver decodes it and pushes the frame.     *)
Receive(pic, cut) ==
  LET f == Parse(Datagram(pic, cut)).channels
  IN Noted(pic, cut) /\ (PushDTLS(f) \/ PushREST(f))

(* buildFrameLocked: a channel seen for the first time snaps.              *)
Stepped(ch) ==
  IF ch \in DOMAIN current THEN SmoothToward(current[ch], latest[ch]) ELSE latest[ch]

FrameOf(colours) ==
  LET ids == Ascending(DOMAIN colours)
  IN [major |-> 2, channels |-> [i \in DOMAIN ids |-> colours[ids[i]]]]

(* The send loop's tick; the Pro gives each lamp its channel's colour.     *)
SendTick ==
  LET ProSees == Parse(wire').channels
      Colours(l) == {i \in DOMAIN ProSees : l \in DOMAIN remap /\ remap[l] = ProSees[i].ID}
  IN /\ path = "dtls" /\ latest # Nowhere
     /\ current' = [ch \in DOMAIN latest |-> Stepped(ch)]
     /\ wire' = Encode(FrameOf(current'))
     /\ shown' = [l \in Lamps |->
                    IF Colours(l) = {} THEN shown[l]
                    ELSE LET c == ProSees[CHOOSE i \in Colours(l) : TRUE]
                         IN [via |-> "dtls", A |-> c.A, B |-> c.B, C |-> c.C]]
     /\ quiet' = IF quiet < Settle THEN quiet + 1 ELSE quiet
     /\ UNCHANGED <<path, requested, remap, latest, history, raws, frames, sessions, zones>>

(* ensureConfig covers the lamps of the zone, each with its own channel.   *)
Remaps == {rm \in [requested -> ProChannels] :
             \A l, k \in requested : rm[l] = rm[k] => l = k}

FramesNext ==
  \/ \E z \in SUBSET Lamps : SetRequestedMembers(z)
  \/ \E rm \in Remaps : Establish(rm)
  \/ \E pic \in [Lamps -> Values], cut \in {0, 1} : Receive(pic, cut)
  \/ Teardown \/ SendTick

FramesSpec == FramesInit /\ [][FramesNext]_frameVars

-----------------------------------------------------------------------------
FramesTypeOK ==
  /\ path \in {"rest", "dtls"} /\ requested \subseteq Lamps
  /\ DOMAIN remap \subseteq Lamps
  /\ DOMAIN latest \subseteq ProChannels /\ DOMAIN current \subseteq ProChannels
  /\ \A ch \in DOMAIN current : \A comp \in {"A", "B", "C"} : current[ch][comp] \in U16
  /\ \A ch \in DOMAIN history : Len(history[ch]) <= Window
  /\ frames \in 0 .. MaxFrames /\ sessions \in 0 .. MaxSessions

(* How many pictures decide a lamp's target.                               *)
Span == IF Window > 1 THEN Window ELSE 1

(* A picture that has stood still for that long.                           *)
Steady(l, c) ==
  /\ Len(raws[l]) >= Span
  /\ \A i \in Len(raws[l]) - Span + 1 .. Len(raws[l]) : raws[l][i] = c

Shows(l, c) ==
  \/ shown[l] = [via |-> "dtls", A |-> c.A, B |-> c.B, C |-> c.C]
  \/ shown[l] = ToHueV1State(c)

(* What the TV shows steadily is what the lamp ends up with, exactly,      *)
(* within Settle ticks and whatever it was fading from: parsing, mapping,  *)
(* filter, easing and encoding lose nothing, and the easing never stalls   *)
(* short of its target (snapColorDelta).                                   *)
SteadyShown ==
  \A l \in Lamps, v \in Values :
    LET c == Colour(l, v) IN
    Steady(l, c) /\ (path = "dtls" => quiet = Settle) => Shows(l, c)

(* A lamp on the stream shows only colours between those the TV sent it    *)
(* since the stream was established: a fade never overshoots, and nothing  *)
(* of an earlier stream, whose channels belonged to other lamps, is left.  *)
OwnColours ==
  \A l \in Lamps :
    path = "dtls" /\ l \in DOMAIN remap /\ remap[l] \in DOMAIN current =>
      \A comp \in {"A", "B", "C"} :
        \E i, j \in DOMAIN raws[l] :
          raws[l][i][comp] <= shown[l][comp] /\ shown[l][comp] <= raws[l][j][comp]

(* A spike never becomes a target: once the window is full, the target of  *)
(* a lamp lies within the threshold of the range of any majority of the    *)
(* window, whatever the other pictures were and wherever they came.        *)
SpikesDropped ==
  \A l \in DOMAIN remap :
    path = "dtls" /\ Window > 1 /\ Len(raws[l]) >= Window =>
      \A most \in SUBSET (Len(raws[l]) - Window + 1 .. Len(raws[l])) :
        2 * Cardinality(most) >= Window =>
          \A comp \in {"A", "B", "C"} :
            \E i, j \in most :
              /\ raws[l][i][comp] - MedianThreshold <= latest[remap[l]][comp]
              /\ latest[remap[l]][comp] <= raws[l][j][comp] + MedianThreshold
=============================================================================
