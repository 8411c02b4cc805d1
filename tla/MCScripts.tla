------------------------------ MODULE MCScripts ------------------------------
(***************************************************************************)
(* Model-checking instance of what the downloader gets from others.  An    *)
(* extension's script gives and takes: the sources it serves to the        *)
(* downloader (BlobRegistry), a stream it makes and serves                 *)
(* (ScriptStreams), and what it fetches (ScriptFetch).  A server gives     *)
(* playlists (HlsPlaylist).  A behaviour is one of one of them; the        *)
(* variables only the others have keep the value Init or Parked gives      *)
(* them.                                                                   *)
(***************************************************************************)
EXTENDS BlobRegistry, Sequences, TLC

CONSTANTS Pipe, Slots, Depth, Fetch, p1, p2

VARIABLES
  part,                                                              \* the one that moves
  setup, loop, closer,                                               \* of stream and fetch
  handler, pipes, pump, stream, puller, pusher, ender, feed, merge, slots,  \* of the stream
  registry, fetch, opener, op, reader,                               \* of fetch
  lines, kind, media, pending, master, err                           \* of the parser

blobVars == vars
engineVars == <<setup, loop, closer>>
streamVars ==
  <<handler, pipes, pump, stream, puller, pusher, ender, feed, merge, slots>>
fetchVars == <<registry, fetch, opener, op, reader>>
playlistVars == <<lines, kind, media, pending, master, err>>
scriptVars == <<engineVars, streamVars, fetchVars>>
allVars == <<part, blobVars, scriptVars, playlistVars>>

-----------------------------------------------------------------------------

Merges == [pipes |-> {p1}, chunks |-> 2, feeds |-> FALSE, async |-> FALSE,
           faults |-> 1, drops |-> 1, others |-> 1]

\* One request, whose opener may take its time; one whose merge reads a stream of the
\* script; two that share a slot.
StreamSetups ==
  { [Merges EXCEPT !.async = TRUE],
    [Merges EXCEPT !.feeds = TRUE, !.others = 0],
    [Merges EXCEPT !.pipes = {p1, p2}, !.chunks = 1, !.faults = 0, !.others = 0] }

\* The end comes with the last chunk or after it.
FetchSetups ==
  { [chunks |-> 1, together |-> together, faults |-> 1, aborts |-> 1] : together \in BOOLEAN }

S == INSTANCE ScriptStreams WITH Setups <- StreamSetups
F == INSTANCE ScriptFetch WITH Setups <- FetchSetups
P == INSTANCE HlsPlaylist WITH MaxLines <- 4, Uris <- {"a"}

StreamsParked ==
  /\ handler = <<>> /\ pipes = <<>> /\ pump = <<>> /\ stream = <<>> /\ puller = <<>>
  /\ pusher = <<>> /\ ender = <<>> /\ feed = <<>> /\ merge = <<>> /\ slots = <<>>
FetchParked ==
  registry = <<>> /\ fetch = <<>> /\ opener = <<>> /\ op = <<>> /\ reader = <<>>
EngineParked == setup = <<>> /\ loop = "none" /\ closer = "none"
PlaylistParked == P!Init /\ kind = "media"

ScriptsInit ==
  \/ part = "blobs" /\ Init /\ EngineParked /\ StreamsParked /\ FetchParked /\ PlaylistParked
  \/ part = "streams" /\ S!Init /\ Init /\ FetchParked /\ PlaylistParked
  \/ part = "fetch" /\ F!Init /\ Init /\ StreamsParked /\ PlaylistParked
  \/ part = "playlist" /\ P!Init /\ Init /\ EngineParked /\ StreamsParked /\ FetchParked

Serving(A) == part = "blobs" /\ A /\ UNCHANGED <<part, scriptVars, playlistVars>>
Streaming(A) ==
  part = "streams" /\ A /\ UNCHANGED <<part, blobVars, fetchVars, playlistVars>>
Fetching(A) ==
  part = "fetch" /\ A /\ UNCHANGED <<part, blobVars, streamVars, playlistVars>>
Parsing(A) == part = "playlist" /\ A /\ UNCHANGED <<part, blobVars, scriptVars>>
Fetched(A) == Fetching(A /\ UNCHANGED <<loop, closer, registry>>)

ScriptsNext ==
  Serving(Next) \/ Streaming(S!Next) \/ Fetching(F!Next) \/ Parsing(P!Next)

ScriptsSpec == ScriptsInit /\ [][ScriptsNext]_allVars

Symmetric == Permutations(Source) \cup Permutations(Task)

-----------------------------------------------------------------------------

\* What a request or a script takes for the end of a stream is the end: an error on the way
\* is one at the end, whoever closes what meanwhile.  A body that is open is known to
\* somebody who will close it.
StreamsAreWhole ==
  /\ part = "streams" => S!TypeOK /\ S!StreamsAreWhole
  /\ part = "fetch" => F!TypeOK /\ F!FetchIsWhole /\ F!BodiesAreKnown

\* The plan has a segment for every URI line of the playlist, with the key, range and
\* sequence number in force there, an accepted one is a whole recording, and the chosen
\* variant is the best one and has no separate audio (ParseMedia, validateSupported,
\* PickBestVariant, checkAudioRendition).
PlanFollowsPlaylist ==
  P!TypeOK /\ P!PlanFollowsPlaylist /\ P!AcceptedIsWhole /\ P!ChosenIsBestAndAudible

\* What goes on by itself: the loop and the goroutines.  An opener of the script need not
\* return, nor FFmpeg ask for a stream of the script, nor a server answer.
StreamsGoOn ==
  \/ \E p \in Pipe : S!Handler(p) \/ S!Script(p) \/ S!Pulling(p) \/ S!Pushing(p) \/ S!End(p)
                     \/ S!MergeStep(p) \/ S!FeedPushes(p)
  \/ S!OtherGives \/ (closer # "none" /\ S!Closer)
FetchGoesOn ==
  \/ \E f \in Fetch : Fetched(F!Going(f))
  \/ closer # "none" /\ Fetching(F!CloseEngine)

\* Everybody is waiting for somebody else only when all is over: a request that has begun
\* has ended, unless the script itself never gives it a stream or what that needs; once
\* it has, no merge is left and no slot taken; after Close no goroutine of a fetch is left
\* and no body open (WaitProduction, Push, CloseWithError, cancelSourceReader, job.stop,
\* CloseAll).
NothingIsStuck ==
  /\ part = "streams" /\ ~ENABLED StreamsGoOn => \A p \in Pipe :
       /\ handler[p].pc \in {"idle", "gone"} \/ setup.async \/ setup.feeds
       /\ handler[p].pc = "gone" => merge[p].pc \in {"none", "gone"}
  /\ part = "fetch" /\ closer # "none" /\ ~ENABLED FetchGoesOn => \A f \in Fetch :
       opener[f] = "idle" /\ reader[f] = "idle" /\ op[f].body # "open"
=============================================================================
