----------------------------- MODULE QueueSpouts -----------------------------
(***************************************************************************)
(* The spouts that queue what their source produces until next() takes it: *)
(* FileReaderSpout, RestSpout, RssSpout, DirWatcherSpout, ProcessSpout and *)
(* ProcessSpoutContinuous, and GetSpout and TimerSpout, which keep one     *)
(* tuple only; and ProcessBoltContinuous, which emits what its process     *)
(* writes.  One of them runs, with run and pause at any time.              *)
(* Tuples are numbered in the order in which the source makes them.        *)
(***************************************************************************)
EXTENDS Naturals, Sequences, FiniteSets

CONSTANTS
  HighWater, LowWater,  \* high_water and low_water of FileReaderSpout
  ReadAhead,            \* lines that come after the reader was paused
  MaxQueueLen,          \* max_queue_len of RestSpout
  MaxRequests,          \* bound: requests whose body is being read, or crawls
  MaxTuples             \* bound: tuples made by the source

ASSUME QueueSpoutsAssumption ==
  /\ HighWater \in Nat /\ LowWater \in 2..HighWater /\ ReadAhead \in Nat
  /\ MaxQueueLen \in Nat /\ MaxRequests \in Nat /\ MaxTuples \in Nat

VARIABLES
  spout,               \* which one it is
  should_run,
  tuples,              \* the queue; next_tuple
  line_reader_paused,
  lines_ahead,         \* lines read that were not handed to the spout yet
  requests,            \* requests, crawls with their items, or series being emitted
  made,                \* tuples made so far
  lost,                \* tuples that will never be emitted
  taken,               \* the tuple next() is about to answer with (setImmediate)
  delivered            \* tuples next() has answered with

spout_vars == <<spout, should_run, tuples, line_reader_paused, lines_ahead, requests,
                made, lost, taken, delivered>>

Spouts == {"file", "rest", "rss", "dir", "process", "continuous", "get", "timer", "bolt"}

SpoutInit ==
  /\ spout \in Spouts
  /\ should_run = (spout = "dir")
  /\ tuples = << >> /\ line_reader_paused = FALSE /\ lines_ahead = 0 /\ requests = {}
  /\ made = 0 /\ lost = {} /\ taken = << >> /\ delivered = << >>

SpoutRunOrPause ==
  /\ should_run' \in BOOLEAN
  /\ UNCHANGED <<spout, tuples, line_reader_paused, lines_ahead, requests, made, lost, taken,
                 delivered>>

Elements(s) == {s[i] : i \in DOMAIN s}

\* The next count tuples.
Fresh(count) == [i \in 1..count |-> made + i]

\* They are added to the queue.
Push(s) == tuples' = tuples \o s /\ made' = made + Len(s) /\ UNCHANGED lost

\* They replace it: the tuples that were there are lost.
Replace(s) ==
  tuples' = s /\ made' = made + Len(s) /\ lost' = lost \cup Elements(tuples)

---------------------------------------------------------------------------
(* FileReaderSpout.                                                        *)

ReadChunk ==
  /\ spout = "file" /\ ~line_reader_paused /\ lines_ahead = 0
  /\ lines_ahead' \in 1..ReadAhead /\ made + lines_ahead' <= MaxTuples
  /\ UNCHANGED <<spout, should_run, tuples, line_reader_paused, requests, made, lost,
                 taken, delivered>>

\* Fault: the queue is looked at before the line is in it (breaks
\* QueueStaysBounded).
FullBefore == Len(tuples) > HighWater

\* The reader is paused when the queue is over the mark.
FullNow == Len(tuples') > HighWater

Line ==
  /\ lines_ahead > 0
  /\ lines_ahead' = lines_ahead - 1
  /\ Push(Fresh(1))
  /\ line_reader_paused' = (line_reader_paused \/ FullNow)
  /\ UNCHANGED <<spout, should_run, requests, taken, delivered>>

---------------------------------------------------------------------------
(* RestSpout, RssSpout and GetSpout: answers come later, in any order.     *)

\* A request to RestSpout is refused when the queue is full; its body is read if
\* the spout runs, and thrown away with a good answer if not.
Request ==
  /\ spout = "rest" /\ made < MaxTuples /\ Cardinality(requests) < MaxRequests
  /\ made' = made + 1
  /\ IF Len(tuples) <= MaxQueueLen /\ should_run
     THEN requests' = requests \cup {<<made'>>} /\ UNCHANGED lost
     ELSE lost' = lost \cup {made'} /\ UNCHANGED requests
  /\ UNCHANGED <<spout, should_run, tuples, line_reader_paused, lines_ahead, taken, delivered>>

\* The end of its body comes.  One that cannot be parsed is answered well and lost:
\* the exception reaches no code of the spout.
BodyEnds(r) ==
  /\ spout = "rest"
  /\ \/ tuples' = tuples \o r /\ UNCHANGED lost
     \/ lost' = lost \cup Elements(r) /\ UNCHANGED tuples
  /\ requests' = requests \ {r}
  /\ UNCHANGED <<spout, should_run, line_reader_paused, lines_ahead, made, taken, delivered>>

\* RssSpout and GetSpout, on a heartbeat: a crawl or a call is due until one has
\* ended well, so that several may be under way.
MayCall == should_run /\ Cardinality(requests) < MaxRequests

Calls(count) ==
  /\ made + count <= MaxTuples
  /\ made' = made + count /\ requests' = requests \cup {Fresh(count)}
  /\ UNCHANGED <<spout, should_run, tuples, line_reader_paused, lines_ahead, lost, taken,
                 delivered>>

RssCrawl == spout = "rss" /\ MayCall /\ \E count \in 1..2 : Calls(count)

GetCall == spout = "get" /\ MayCall /\ Calls(1)

\* All the items of a crawl are queued.
CrawlEnds(r) ==
  /\ spout = "rss"
  /\ tuples' = tuples \o r /\ requests' = requests \ {r}
  /\ UNCHANGED <<spout, should_run, line_reader_paused, lines_ahead, made, lost, taken, delivered>>

\* What a call returns replaces a tuple that next() did not take.
GetCallEnds(r) ==
  /\ spout = "get"
  /\ tuples' = r /\ requests' = requests \ {r}
  /\ lost' = lost \cup Elements(tuples)
  /\ UNCHANGED <<spout, should_run, line_reader_paused, lines_ahead, made, taken, delivered>>

\* A crawl or call that fails is forgotten.
CallFails(r) ==
  /\ spout \in {"rss", "get"}
  /\ requests' = requests \ {r} /\ lost' = lost \cup Elements(r)
  /\ UNCHANGED <<spout, should_run, tuples, line_reader_paused, lines_ahead, made, taken, delivered>>

---------------------------------------------------------------------------
(* The others.                                                             *)

NothingElse ==
  UNCHANGED <<spout, should_run, line_reader_paused, lines_ahead, requests, taken, delivered>>

\* TimerSpout: its heartbeat replaces the tuple.
Timer == spout = "timer" /\ should_run /\ made < MaxTuples /\ Replace(Fresh(1)) /\ NothingElse

\* DirWatcherSpout: a change of the directory, whether the spout runs or not.
DirectoryChanges == spout = "dir" /\ made < MaxTuples /\ Push(Fresh(1)) /\ NothingElse

\* ProcessSpout runs its process to the end, on a heartbeat when that is due.
ProcessRuns ==
  /\ spout = "process"
  /\ \E count \in 1..2 : made + count <= MaxTuples /\ Push(Fresh(count))
  /\ NothingElse

\* A piece of what a process writes is parsed by itself: count tuples are made of
\* its lines and, where errors are emitted, of the parts of lines that it begins or
\* ends with.  A line whose end comes in another piece is lost.
Parses(count, cut) ==
  /\ count + cut > 0 /\ made + count + cut <= MaxTuples
  /\ made' = made + count + cut
  /\ lost' = lost \cup {made + count + i : i \in 1..cut}

\* The process of ProcessSpoutContinuous writes.
ProcessWrites ==
  /\ spout = "continuous"
  /\ \E count \in 0..2, cut \in 0..1 :
       Parses(count, cut) /\ tuples' = tuples \o Fresh(count)
  /\ NothingElse

\* Its errors and its exit replace what is in the queue, if they are emitted.
ProcessError == spout = "continuous" /\ made < MaxTuples /\ Replace(Fresh(1)) /\ NothingElse

---------------------------------------------------------------------------
(* ProcessBoltContinuous.                                                  *)

\* The process writes: a series of its own emits the tuples that this makes.
HandleNewData ==
  /\ spout = "bolt" /\ Cardinality(requests) < MaxRequests
  /\ \E count \in 1..2, cut \in 0..1 :
       Parses(count, cut) /\ requests' = requests \cup {Fresh(count)}
  /\ UNCHANGED <<spout, should_run, tuples, line_reader_paused, lines_ahead, taken, delivered>>

\* The next one of a series is emitted when the one before is acknowledged, well
\* or badly.
SeriesEmits(r) ==
  /\ spout = "bolt"
  /\ delivered' = Append(delivered, r[1])
  /\ requests' = (requests \ {r}) \cup (IF Len(r) > 1 THEN {Tail(r)} ELSE {})
  /\ UNCHANGED <<spout, should_run, tuples, line_reader_paused, lines_ahead, made, lost, taken>>

---------------------------------------------------------------------------
(* next.                                                                   *)

\* RestSpout and GetSpout do not look whether they run.
Answers == should_run \/ spout \in {"rest", "get"}

\* FileReaderSpout resumes its reader when the queue is low.
Resumes == line_reader_paused /\ Len(tuples) < LowWater

\* Fault: the tuple stays in the queue until it is answered (breaks
\* EmittedInOrder).
StaysInQueue(s) == s

RemoveFirst(s) == Tail(s)

SpoutNextCall ==
  /\ taken = << >>
  /\ Answers
  /\ line_reader_paused' = (line_reader_paused /\ ~Resumes)
  /\ tuples # << >>
  /\ tuples' = RemoveFirst(tuples)
  /\ \/ spout = "file" /\ taken' = <<tuples[1]>> /\ UNCHANGED delivered
     \/ spout # "file" /\ delivered' = Append(delivered, tuples[1]) /\ UNCHANGED taken
  /\ UNCHANGED <<spout, should_run, lines_ahead, requests, made, lost>>

\* The queue is empty.
EmptyNextCall ==
  /\ taken = << >> /\ tuples = << >> /\ should_run
  /\ line_reader_paused' = (line_reader_paused /\ ~Resumes)
  /\ UNCHANGED <<spout, should_run, tuples, lines_ahead, requests, made, lost, taken, delivered>>

NextAnswered ==
  /\ taken # << >>
  /\ delivered' = delivered \o taken /\ taken' = << >>
  /\ UNCHANGED <<spout, should_run, tuples, line_reader_paused, lines_ahead, requests, made, lost>>

SpoutNext ==
  \/ SpoutRunOrPause \/ ReadChunk \/ Line \/ Request \/ RssCrawl \/ GetCall \/ Timer
  \/ DirectoryChanges \/ ProcessRuns \/ ProcessWrites \/ ProcessError
  \/ SpoutNextCall \/ EmptyNextCall \/ NextAnswered \/ HandleNewData
  \/ \E r \in requests :
       BodyEnds(r) \/ CrawlEnds(r) \/ GetCallEnds(r) \/ CallFails(r) \/ SeriesEmits(r)

SpoutSpec == SpoutInit /\ [][SpoutNext]_spout_vars

---------------------------------------------------------------------------
(* Properties.                                                             *)

\* A tuple is emitted once at most and, where the source is a file, a directory
\* or a process, in the order of the source; one that was made is delivered, in
\* the queue, under way, or lost at one of the places named above.
EmittedInOrder ==
  LET out == delivered \o taken \o tuples
      onTheWay == UNION {Elements(r) : r \in requests}
  IN  /\ Cardinality(Elements(out)) = Len(out)
      /\ spout \in {"file", "dir", "process", "continuous", "timer"} =>
           \A i, j \in DOMAIN out : i < j => out[i] < out[j]
      /\ 1..made = Elements(out) \cup onTheWay \cup lost
      /\ Elements(out) \cap lost = {} /\ Elements(out) \cap onTheWay = {}
      /\ spout \in {"file", "dir", "process"} => lost = {}

\* The queue of FileReaderSpout holds at most the lines that come after its reader
\* was paused beyond high_water, and a paused reader leaves lines for next() to
\* resume it; the queue of RestSpout exceeds max_queue_len by the requests that
\* were accepted together.
QueueStaysBounded ==
  /\ spout = "file" =>
       /\ Len(tuples) <= HighWater + ReadAhead
       /\ line_reader_paused => Len(tuples) >= LowWater - 1
  /\ spout = "rest" => Len(tuples) <= MaxQueueLen + MaxRequests
=============================================================================
