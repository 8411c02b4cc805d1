---------------------------- MODULE HlsPlaylist ----------------------------
(***************************************************************************)
(* The playlist parser of the HLS fetcher (internal/protocol/hls/          *)
(* playlist.go): one step reads one line.  A line is the tag and the       *)
(* attributes the parser tells apart.  "lines" remembers what was read, so *)
(* that the plan can be compared with what the playlist says of each       *)
(* segment.                                                                *)
(***************************************************************************)
EXTENDS Integers, Sequences, SequencesExt, FiniteSetsExt

CONSTANTS MaxLines,  \* bound: lines of a playlist
          Uris,      \* resources
          None

VARIABLES lines,   \* what was read
          kind,    \* "media" or "master"
          media,   \* Media: Segments, Live, Discontinuity, and mapIdentity
          pending, \* currentKey, pendingByterange, pendingGap, lastRangeEnd, sequence
          master,  \* MasterPlaylist: Variants, Rendition, and the pending variant
          err      \* the parser has returned an error

vars == <<lines, kind, media, pending, master, err>>

-----------------------------------------------------------------------------
(* Lines.                                                                  *)

RangeAttr == [len : 1 .. 2, off : 0 .. 1 \cup {None}]
KeyAttr == {"NONE", "AES-128", "AES-128-IV", "SAMPLE-AES"}

MediaLine ==
  [tag : {"uri"}, uri : Uris] \cup [tag : {"key"}, key : KeyAttr]
    \cup [tag : {"map"}, uri : Uris, range : {None, 1}]
    \cup [tag : {"range"}, range : RangeAttr] \cup [tag : {"badrange", "badmap"}]
    \cup [tag : {"gap", "discontinuity", "endlist"}]
    \cup [tag : {"sequence"}, no : {0, 7}]

MasterLine ==
  [tag : {"uri"}, uri : Uris]
    \cup [tag : {"comment"}] \cup [tag : {"variant"}, bandwidth : 1 .. 2, group : {None, "g"}]
    \cup [tag : {"rendition"}, type : {"AUDIO", "SUBTITLES"}, group : {"g", "h"},
          uri : {None} \cup Uris]

Key == {None, "AES-128", "AES-128-IV"}
ByteRange == [len : Nat, off : Nat]
Segment == [uri : Uris, sequence : Nat, range : ByteRange \cup {None}, key : Key,
            init : BOOLEAN, gap : BOOLEAN, size : Nat]

TypeOK ==
  /\ kind \in {"media", "master"} /\ err \in BOOLEAN
  /\ lines \in Seq(IF kind = "media" THEN MediaLine ELSE MasterLine)
  /\ media.segments \in Seq(Segment)
  /\ media.live \in BOOLEAN /\ media.discontinuity \in BOOLEAN
  /\ pending.key \in Key /\ pending.range \in ByteRange \cup {None}
  /\ pending.gap \in BOOLEAN /\ {pending.end, pending.sequence} \subseteq Nat
  /\ master.variants \in Seq([bandwidth : 1 .. 2, group : {None, "g"}, uri : Uris])

Init ==
  /\ lines = <<>> /\ err = FALSE
  /\ kind \in {"media", "master"}
  /\ media = [segments |-> <<>>, live |-> TRUE, discontinuity |-> FALSE, map |-> None]
  /\ pending = [key |-> None, range |-> None, gap |-> FALSE, end |-> 0, sequence |-> 0]
  /\ master = [variants |-> <<>>, renditions |-> {}, pending |-> None]

-----------------------------------------------------------------------------
(* ParseMedia.                                                             *)

\* parseByteRange: without an offset the range starts where the last one ended.
parseByteRange(r, end) == [len |-> r.len, off |-> IF r.off = None THEN end ELSE r.off]

Reads(line) ==
  /\ ~err /\ Len(lines) < MaxLines
  /\ lines' = Append(lines, line)
  /\ UNCHANGED kind

Rejects == err' = TRUE /\ UNCHANGED <<media, pending, master>>

NewSegment(uri) ==
  [uri |-> uri, sequence |-> pending.sequence, range |-> pending.range,
   key |-> pending.key, init |-> FALSE, gap |-> pending.gap,
   size |-> IF pending.range = None THEN 0 ELSE pending.range.len]

\* Mutant: the key does not outlive the segment it was given for.
ReadUriDropsKey(line) ==
  /\ media' = [media EXCEPT !.segments = Append(@, NewSegment(line.uri))]
  /\ pending' = [pending EXCEPT !.sequence = @ + 1, !.range = None, !.gap = FALSE,
                                !.key = None]
  /\ UNCHANGED <<master, err>>

ReadUri(line) ==
  /\ media' = [media EXCEPT !.segments = Append(@, NewSegment(line.uri))]
  /\ pending' = [pending EXCEPT !.sequence = @ + 1, !.range = None, !.gap = FALSE]
  /\ UNCHANGED <<master, err>>

\* parseKey
ReadKey(line) ==
  IF line.key = "SAMPLE-AES" THEN Rejects
  ELSE /\ pending' = [pending EXCEPT !.key = IF line.key = "NONE" THEN None ELSE line.key]
       /\ UNCHANGED <<media, master, err>>

\* The init section, once; the same tag again changes nothing.
InitSegment(line) ==
  [uri |-> line.uri, sequence |-> pending.sequence,
   range |-> IF line.range = None THEN None ELSE [len |-> line.range, off |-> 0],
   key |-> pending.key, init |-> TRUE, gap |-> FALSE, size |-> 0]

ReadMap(line) ==
  LET identity == <<line.uri, line.range>>
  IN  CASE media.map = identity -> UNCHANGED <<media, pending, master, err>>
        [] media.map \notin {None, identity} -> Rejects
        [] media.map = None /\ pending.key = "AES-128" -> Rejects
        [] OTHER -> /\ media' = [media EXCEPT !.map = identity,
                                  !.segments = Append(@, InitSegment(line))]
                    /\ UNCHANGED <<pending, master, err>>

ReadRange(line) ==
  LET range == parseByteRange(line.range, pending.end)
  IN  /\ pending' = [pending EXCEPT !.range = range, !.end = range.off + range.len]
      /\ UNCHANGED <<media, master, err>>

ReadMedia(line) ==
  /\ Reads(line)
  /\ CASE line.tag = "uri" -> ReadUri(line)
       [] line.tag = "key" -> ReadKey(line)
       [] line.tag = "map" -> ReadMap(line)
       [] line.tag = "range" -> ReadRange(line)
       [] line.tag \in {"badrange", "badmap"} -> Rejects \* no URI, or no valid BYTERANGE
       [] line.tag = "gap" ->
            pending' = [pending EXCEPT !.gap = TRUE] /\ UNCHANGED <<media, master, err>>
       [] line.tag = "sequence" ->
            /\ pending' = [pending EXCEPT !.sequence = line.no]
            /\ UNCHANGED <<media, master, err>>
       [] line.tag = "discontinuity" ->
            /\ media' = [media EXCEPT !.discontinuity = TRUE]
            /\ UNCHANGED <<pending, master, err>>
       [] line.tag = "endlist" ->
            media' = [media EXCEPT !.live = FALSE] /\ UNCHANGED <<pending, master, err>>

\* ParseMedia has segments, and validateSupported accepts them.
Accepted ==
  /\ ~err /\ media.segments # <<>> /\ ~media.live /\ ~media.discontinuity
  /\ \A i \in DOMAIN media.segments : ~media.segments[i].gap

\* planTotalSize: known only if every segment is plain and of known size.
planTotalSize ==
  LET segs == media.segments
  IN  IF \E i \in DOMAIN segs : segs[i].key # None \/ segs[i].size = 0 THEN 0
      ELSE FoldSeq(LAMBDA s, total : total + s.size, 0, segs)

-----------------------------------------------------------------------------
(* ParseMasterPlaylist, PickBestVariant and checkAudioRendition.           *)

ReadMaster(line) ==
  /\ Reads(line)
  /\ CASE line.tag = "variant" ->
            master' = [master EXCEPT !.pending = [bandwidth |-> line.bandwidth,
                                                  group |-> line.group]]
       [] line.tag = "rendition" ->
            master' = [master EXCEPT !.renditions = @ \cup {line}]
       [] line.tag = "comment" -> master' = [master EXCEPT !.pending = None]
       [] line.tag = "uri" ->
            master' = IF master.pending = None THEN master
                      ELSE [master EXCEPT !.pending = None, !.variants =
                              Append(@, [bandwidth |-> master.pending.bandwidth,
                                         group |-> master.pending.group,
                                         uri |-> line.uri])]
  /\ UNCHANGED <<media, pending, err>>

\* The first of the variants with the highest bandwidth.
PickBestVariant(variants) ==
  FoldLeft(LAMBDA best, v : IF best = None \/ v.bandwidth > best.bandwidth THEN v ELSE best,
           None, variants)

checkAudioRendition(best) ==
  best.group # None =>
    ~ \E r \in master.renditions :
        r.group = best.group /\ r.type = "AUDIO" /\ r.uri # None

\* The variant that is downloaded, or None: no variant, or a separate audio track.
Chosen ==
  LET best == PickBestVariant(master.variants)
  IN  IF best = None THEN None ELSE IF checkAudioRendition(best) THEN best ELSE None

Next ==
  \/ kind = "media" /\ \E line \in MediaLine : ReadMedia(line)
  \/ kind = "master" /\ \E line \in MasterLine : ReadMaster(line)

Spec == Init /\ [][Next]_vars

-----------------------------------------------------------------------------
(* What the playlist says, read from all its lines at once.                *)

Places(tag) == {i \in DOMAIN lines : lines[i].tag = tag}
LastBefore(tag, p) == LET b == {i \in Places(tag) : i < p} IN IF b = {} THEN 0 ELSE Max(b)

\* The key in force at line p: the one of the last key tag before it.
KeyAt(p) ==
  LET k == LastBefore("key", p)
  IN  IF k = 0 \/ lines[k].key = "NONE" THEN None ELSE lines[k].key

\* Where the range of line p begins: an offset of its own, or the end of the last
\* range before it, followed back to the last one with an offset.
Begin(p) ==
  LET anchored == {i \in Places("range") : i <= p /\ lines[i].range.off # None}
      from == IF anchored = {} THEN 0 ELSE Max(anchored)
      between == {i \in Places("range") : from <= i /\ i < p}
      start == IF from = 0 THEN 0 ELSE lines[from].range.off
  IN  start + FoldSet(LAMBDA i, t : t + lines[i].range.len, 0, between)

RangeAt(p) ==
  LET r == LastBefore("range", p)
  IN  IF r = 0 \/ r < LastBefore("uri", p) THEN None
      ELSE [len |-> lines[r].range.len, off |-> Begin(r)]

SequenceAt(p) ==
  LET s == LastBefore("sequence", p)
  IN  (IF s = 0 THEN 0 ELSE lines[s].no)
        + Cardinality({i \in Places("uri") : s < i /\ i < p})

\* The plan is what the playlist says: one segment for every URI line, in their
\* order, with the key, range and sequence number in force there (ParseMedia).
PlanFollowsPlaylist ==
  kind = "media" /\ ~err =>
    LET segs == SelectSeq(media.segments, LAMBDA s : ~s.init)
        uris == SetToSortSeq(Places("uri"), <)
    IN  /\ Len(segs) = Len(uris)
        /\ \A n \in DOMAIN uris :
             /\ segs[n].uri = lines[uris[n]].uri
             /\ segs[n].key = KeyAt(uris[n])
             /\ segs[n].range = RangeAt(uris[n])
             /\ segs[n].sequence = SequenceAt(uris[n])

\* A plan that is accepted is a whole recording: the list has ended, nothing in it breaks
\* the timeline or is missing, and a size that is told is the number of bytes merged
\* (validateSupported, planTotalSize).
AcceptedIsWhole ==
  kind = "media" /\ Accepted =>
    /\ Places("endlist") # {} /\ Places("discontinuity") = {}
    /\ \A g \in Places("gap"), p \in Places("uri") : p < g
    /\ planTotalSize > 0 =>
         /\ \A p \in Places("uri") : KeyAt(p) = None
         /\ planTotalSize = FoldSet(LAMBDA p, t : t + RangeAt(p).len, 0, Places("uri"))

\* A variant that is chosen has no better one, and no separate audio track
\* anywhere in its group (PickBestVariant, checkAudioRendition).
ChosenIsBestAndAudible ==
  kind = "master" /\ Chosen # None =>
    /\ \A i \in DOMAIN master.variants : master.variants[i].bandwidth <= Chosen.bandwidth
    /\ \A i \in Places("rendition") :
         ~ (lines[i].group = Chosen.group /\ lines[i].type = "AUDIO" /\ lines[i].uri # None)
=============================================================================
