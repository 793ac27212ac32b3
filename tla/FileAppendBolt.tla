--------------------------- MODULE FileAppendBolt ---------------------------
(***************************************************************************)
(* FileAppendBolt (std_nodes/file_append_bolt.ts) with split_over_time and *)
(* compress: data are buffered, appended to a file on a heartbeat, and the *)
(* file is zipped and deleted when its time is over.  A zip takes time, in *)
(* which other heartbeats and the shutdown may come.                       *)
(* Time is counted in halves of split_period.  A file is named by its      *)
(* period and the value of split_by_field.  Its bolt receives one datum at *)
(* a time, and nothing after its shutdown.                                 *)
(* CsvFileAppendBolt of the same file appends what it has, on a heartbeat  *)
(* or at its shutdown, while an earlier append may still be under way.     *)
(***************************************************************************)
EXTENDS Naturals, Sequences, FiniteSets

CONSTANTS
  SplitValues,   \* values of split_by_field
  MaxLines,   \* bound: data received
  MaxWrites,     \* bound: calls of writeToFile that wait for a zip, and their numbers
  MaxHalves,     \* bound on the time
  FailingZips    \* names of files whose zips may fail

\* zipCurrentFile zips three files at a time, which is here all of them.
ASSUME FileAppendAssumption ==
  /\ IsFiniteSet(SplitValues) /\ Cardinality(SplitValues) <= 3
  /\ MaxLines \in Nat /\ MaxWrites \in Nat /\ MaxHalves \in Nat
  /\ FailingZips \subseteq Nat \X SplitValues

VARIABLES
  propagate_errors,
  halves,               \* the time
  lines_received,             \* data received so far, which are numbered
  current_data,         \* pairs of a value and a datum
  current_file_contains_data, split_value, next_split_after,
  file_name_current,    \* the period of the current file
  files,                \* what is on the disk: from names to sets of data
  archived,             \* data in zipped files
  writes,               \* calls of writeToFile that wait, or the final zip
  zips,                 \* files being zipped
  bolt_shutdown         \* "no", "writing", "zipping" or how it called back

\* History variables, which no step depends on.
VARIABLES
  late_names,  \* periods that named a file after a zip begun in an earlier period
  overtaken    \* pairs of a period and a datum written to a file being zipped

VARIABLES
  direct_fields,   \* "collect": from the first record; "known"
  csv_received,    \* records received so far, which are numbered; 0 is the header
  csv_data,        \* current_data
  csv_appends,     \* calls of appendFile under way: the lines and who waits for it
  csv_file,        \* the lines of each append, in the order of the file
  csv_failed,      \* lines whose append failed
  csv_shutdown     \* "no", "writing" or how it called back

csv_vars == <<direct_fields, csv_received, csv_data, csv_appends, csv_file, csv_failed,
              csv_shutdown>>
file_vars == <<files, archived>>
history_vars == <<late_names, overtaken>>
append_vars == <<propagate_errors, halves, lines_received, current_data,
  current_file_contains_data, split_value, next_split_after, file_name_current,
  file_vars, writes, zips, bolt_shutdown, history_vars>>

PeriodOf(time) == time \div 2

FileAppendInit ==
  /\ propagate_errors \in BOOLEAN
  /\ halves = 1 /\ lines_received = 0 /\ current_data = {}
  /\ current_file_contains_data = FALSE /\ split_value = {} /\ next_split_after = 0
  /\ file_name_current = 0   \* there is no file before the first split
  /\ files = << >> /\ archived = {}
  /\ writes = {} /\ zips = {} /\ bolt_shutdown = "no"
  /\ late_names = {} /\ overtaken = {}

FileReceive ==
  /\ bolt_shutdown = "no" /\ lines_received < MaxLines
  /\ lines_received' = lines_received + 1
  /\ \E v \in SplitValues : current_data' = current_data \cup {<<v, lines_received + 1>>}
  /\ UNCHANGED <<propagate_errors, halves, current_file_contains_data, split_value,
       next_split_after, file_name_current, file_vars, writes, zips, bolt_shutdown,
       history_vars>>

---------------------------------------------------------------------------
(* The third step of writeToFile, preceded by the second one if the file   *)
(* is split.  Data are appended at once.  A file that is split is named by *)
(* the time at which its zips have ended, but is due again one period      *)
(* after the call of writeToFile began.                                    *)

AppendLines(period, data) ==
  LET names == DOMAIN files \cup {<<period, d[1]>> : d \in data}
      Old(n) == IF n \in DOMAIN files THEN files[n] ELSE {}
  IN  files' = [n \in names |-> Old(n) \cup {d[2] : d \in {e \in data : <<period, e[1]>> = n}}]

BeingZipped(name) == \E z \in zips : z.name = name /\ z.phase = "zipping"

WriteData(period, split_after) ==
  /\ AppendLines(period, current_data)
  /\ overtaken' = overtaken \cup
       {<<period, d[2]>> : d \in {e \in current_data : BeingZipped(<<period, e[1]>>)}}
  /\ current_data' = {} /\ current_file_contains_data' = TRUE
  /\ split_value' = split_value \cup {d[1] : d \in current_data}
  /\ file_name_current' = period /\ next_split_after' = split_after
  /\ UNCHANGED archived

NothingWritten ==
  UNCHANGED <<file_vars, current_data, current_file_contains_data, split_value,
              file_name_current, next_split_after, history_vars>>

\* zipCurrentFile: the files of the current period that exist, if compress.
ToZip(period, contains, values) ==
  IF contains THEN {<<period, v>> : v \in values} \cap DOMAIN files' ELSE {}

\* zipFile reads the file from now on, in the name of this call; what is
\* appended to the file later it does not read.
ZipsOf(names, call) ==
  {[name |-> n, data |-> files'[n], call |-> call, phase |-> "zipping"] : n \in names}

\* The zip at the end of shutdown, as a call.
FinalZip == [kind |-> "final", at |-> halves, number |-> 1]

\* shutdown calls back.  An error is hidden unless errors are propagated.
ShutdownAnswer(err) == IF err /\ propagate_errors THEN "error" ELSE "ok"

\* Fault: shutdown does not look whether the write failed (breaks
\* ShutdownSaves).
GoesOn(err) == TRUE

\* shutdown goes on to zip the current file when the write is done.
WriteSucceeded(err) == ~err

\* A call of writeToFile is done: what follows.  The files being zipped are
\* these.
AfterWrite(kind, err, others, waiting) ==
  IF kind = "heartbeat"
  THEN zips' = others /\ writes' = waiting /\ UNCHANGED bolt_shutdown
  ELSE LET names == ToZip(file_name_current', current_file_contains_data', split_value')
       IN  IF WriteSucceeded(err) /\ names # {}
           THEN /\ bolt_shutdown' = "zipping"
                /\ writes' = waiting \cup {FinalZip}
                /\ zips' = others \cup ZipsOf(names, FinalZip)
           ELSE /\ bolt_shutdown' = IF WriteSucceeded(err) THEN "ok" ELSE ShutdownAnswer(err)
                /\ writes' = waiting /\ zips' = others

---------------------------------------------------------------------------
\* Fault: a file that is being zipped is not due once more (breaks
\* NothingLost).
DueOnce == next_split_after < halves /\ zips = {}

SplitsNow == next_split_after < halves

\* A call goes by the first number that no call has which waits or whose zips
\* still run.
IsFree(call) == call \notin writes /\ \A z \in zips : z.call # call

NewCall(kind, number) ==
  LET Call(n) == [kind |-> kind, at |-> halves, number |-> n]
  IN  IsFree(Call(number)) /\ \A n \in 1..(number - 1) : ~IsFree(Call(n))

\* writeToFile.
WriteToFile(kind) ==
  LET names == IF current_file_contains_data
               THEN {<<file_name_current, v>> : v \in split_value} \cap DOMAIN files ELSE {}
  IN  \/ /\ current_data = {}
         /\ NothingWritten
         /\ AfterWrite(kind, FALSE, zips, writes)
      \/ /\ current_data # {} /\ ~SplitsNow
         /\ WriteData(file_name_current, next_split_after) /\ UNCHANGED late_names
         /\ AfterWrite(kind, FALSE, zips, writes)
      \/ /\ current_data # {} /\ SplitsNow /\ names = {}
         /\ WriteData(PeriodOf(halves), halves + 2) /\ UNCHANGED late_names
         /\ AfterWrite(kind, FALSE, zips, writes)
      \/ /\ current_data # {} /\ SplitsNow /\ names # {}
         /\ Cardinality(writes) < MaxWrites
         /\ NothingWritten
         /\ \E number \in 1..MaxWrites :
              LET call == [kind |-> kind, at |-> halves, number |-> number]
              IN  /\ NewCall(kind, number)
                  /\ writes' = writes \cup {call}
                  /\ zips' = zips \cup ZipsOf(names, call)
         /\ bolt_shutdown' = IF kind = "shutdown" THEN "writing" ELSE bolt_shutdown

FileHeartbeat ==
  /\ bolt_shutdown = "no"
  /\ WriteToFile("heartbeat")
  /\ UNCHANGED <<propagate_errors, halves, lines_received>>

FileShutdown ==
  /\ bolt_shutdown = "no"
  /\ WriteToFile("shutdown")
  /\ UNCHANGED <<propagate_errors, halves, lines_received>>

\* The zipped file is complete, and the file is deleted, which is an error when
\* another zip was first.  Or the zip fails.
ZipEnds(z) ==
  /\ z.phase = "zipping"
  /\ \/ /\ archived' = archived \cup z.data
        /\ files' = [n \in DOMAIN files \ {z.name} |-> files[n]]
        /\ zips' = (zips \ {z}) \cup
             {[z EXCEPT !.phase = IF z.name \in DOMAIN files THEN "done" ELSE "failed"]}
     \/ /\ z.name \in FailingZips
        /\ zips' = (zips \ {z}) \cup {[z EXCEPT !.phase = "failed"]}
        /\ UNCHANGED file_vars
  /\ UNCHANGED <<propagate_errors, halves, lines_received, current_data,
       current_file_contains_data, split_value, next_split_after, file_name_current,
       writes, bolt_shutdown, history_vars>>

\* ... and calls back.  Its call waits for the other zips, or goes on; an error
\* ends it at once.
ZipCallsBack(z) ==
  LET err == z.phase = "failed"
      others == zips \ {z}
      last == ~\E y \in others : y.call = z.call
      waiting == writes \ {z.call}
  IN  /\ z.phase # "zipping"
      /\ IF z.call \notin writes \/ (~err /\ ~last)
         THEN /\ zips' = others
              /\ NothingWritten /\ UNCHANGED <<writes, bolt_shutdown>>
         ELSE IF z.call.kind = "final"
         THEN /\ zips' = others /\ writes' = waiting /\ bolt_shutdown' = ShutdownAnswer(err)
              /\ NothingWritten
         ELSE /\ IF err THEN NothingWritten
                 ELSE /\ WriteData(PeriodOf(halves), z.call.at + 2)
                      /\ late_names' = late_names \cup
                           ({PeriodOf(halves)} \ {PeriodOf(z.call.at)})
              /\ AfterWrite(z.call.kind, err, others, waiting)
      /\ UNCHANGED <<propagate_errors, halves, lines_received>>

\* Time passes, whatever is being zipped.
HalfPasses ==
  /\ halves < MaxHalves
  /\ halves' = halves + 1
  /\ UNCHANGED <<propagate_errors, lines_received, current_data, current_file_contains_data,
       split_value, next_split_after, file_name_current, file_vars, writes, zips,
       bolt_shutdown, history_vars>>

FileAppendNext ==
  \/ FileReceive
  \/ FileHeartbeat
  \/ FileShutdown
  \/ HalfPasses
  \/ \E z \in zips : ZipEnds(z) \/ ZipCallsBack(z)

FileAppendSpec == FileAppendInit /\ [][FileAppendNext]_append_vars

---------------------------------------------------------------------------
(* CsvFileAppendBolt.                                                      *)

\* Fields that are configured have their header in the file already.
CsvInit ==
  /\ direct_fields \in {"collect", "known"}
  /\ csv_received = 0 /\ csv_data = {} /\ csv_appends = {}
  /\ csv_file = << >> /\ csv_failed = {} /\ csv_shutdown = "no"

CsvReceive ==
  /\ csv_shutdown = "no" /\ csv_received < MaxLines
  /\ csv_received' = csv_received + 1 /\ direct_fields' = "known"
  /\ csv_data' = csv_data \cup {csv_received'}
                  \cup (IF direct_fields = "collect" THEN {0} ELSE {})
  /\ UNCHANGED <<csv_appends, csv_file, csv_failed, csv_shutdown>>

\* writeToFile: with nothing to write it calls back, whatever is under way.
CsvWriteToFile(by) ==
  /\ csv_shutdown = "no"
  /\ csv_data' = {}
  /\ csv_appends' = csv_appends \cup (IF csv_data = {} THEN {} ELSE {[lines |-> csv_data, by |-> by]})
  /\ csv_shutdown' = IF by = "heartbeat" THEN "no"
                     ELSE IF csv_data = {} THEN "ok" ELSE "writing"
  /\ UNCHANGED <<direct_fields, csv_received, csv_file, csv_failed>>

\* The appends end in any order, well or badly; a heartbeat ignores the error.
CsvAppendEnds(append) ==
  /\ csv_appends' = csv_appends \ {append}
  /\ \E err \in BOOLEAN :
       /\ csv_file' = IF err THEN csv_file ELSE Append(csv_file, append.lines)
       /\ csv_failed' = IF err THEN csv_failed \cup append.lines ELSE csv_failed
       /\ csv_shutdown' = IF append.by = "heartbeat" THEN csv_shutdown
                          ELSE IF err THEN "error" ELSE "ok"
  /\ UNCHANGED <<direct_fields, csv_received, csv_data>>

CsvNext ==
  \/ CsvReceive
  \/ \E by \in {"heartbeat", "shutdown"} : CsvWriteToFile(by)
  \/ \E append \in csv_appends : CsvAppendEnds(append)

CsvSpec == CsvInit /\ [][CsvNext]_csv_vars

---------------------------------------------------------------------------
(* Properties.                                                             *)

\* How often a line of the CSV bolt is somewhere.
CsvPlaces(n) ==
  Cardinality({i \in DOMAIN csv_file : n \in csv_file[i]})
  + Cardinality({append \in csv_appends : n \in append.lines})
  + Cardinality({n} \cap csv_data) + Cardinality({n} \cap csv_failed)

\* A datum the bolt has taken is in its buffer, in a file or in a zipped file:
\* the deletion of a zipped file, twice by two calls that wait for it, does not
\* take a datum that came later.  The exception is a file whose name was given
\* late: a zip ran over the end of its period, so that the file which followed
\* is split once more under the same name, and a datum written to it while
\* another call still zips it may be deleted unread.  The CSV bolt has each
\* record in one place, and its header once at most, however its appends and
\* records interleave.
NothingLost ==
  /\ \A n \in 1..lines_received :
       \/ n \in {d[2] : d \in current_data} \cup archived
              \cup UNION {files[name] : name \in DOMAIN files}
       \/ \E period \in late_names : <<period, n>> \in overtaken
  /\ \A n \in 1..csv_received : CsvPlaces(n) = 1
  /\ CsvPlaces(0) <= 1

\* When shutdown calls back without an error, and errors are propagated, no
\* datum is left in the buffer, and once the zips have ended no file is left
\* unzipped, unless one was named late: then an older name than that of the
\* last file may stay behind, or data that came while the last one was zipped.
\* When the CSV bolt has called back, what it had then is in the file
\* or its own append failed, and only earlier appends may still be under way.
ShutdownSaves ==
  /\ bolt_shutdown = "ok" /\ propagate_errors =>
       current_data = {} /\ (zips = {} /\ late_names = {} => DOMAIN files = {})
  /\ csv_shutdown \in {"ok", "error"} =>
       csv_data = {} /\ \A append \in csv_appends : append.by = "heartbeat"
=============================================================================
