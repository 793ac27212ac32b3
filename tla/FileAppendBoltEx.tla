-------------------------- MODULE FileAppendBoltEx --------------------------
(***************************************************************************)
(* FileAppendBoltEx (std_nodes/file_append_bolt_ex.ts): data are split     *)
(* into buckets by a field and into files by their own timestamp, which    *)
(* never falls within a bucket, as the source assumes.  A file is zipped   *)
(* when the first datum of a later period arrives, or at the shutdown, and *)
(* the datum waits for it.                                                 *)
(* The bolt's wrapper hands it one datum at a time, and shuts it down when *)
(* none is under way; heartbeats come at any time.                         *)
(***************************************************************************)
EXTENDS Naturals, FiniteSets

CONSTANTS
  BucketKeys,     \* values of split_by_field
  SplitPeriod,    \* split_period, in units of the timestamps
  MaxTimestamp,   \* bound on the timestamps
  MaxRecords      \* bound: data received

ASSUME FileAppendExAssumption ==
  SplitPeriod \in Nat \ {0} /\ MaxTimestamp \in Nat /\ MaxRecords \in Nat

VARIABLES
  buckets,      \* from the keys seen to their BucketHandlers
  bucket_files, \* what is on the disk: from <<key, ts_start>> to sets of data
  gz_files,     \* the zipped files
  closing,      \* calls of closeCurrentFile whose zip is under way
  records,      \* data received, as [id, key, ts]
  refused,      \* data whose receive was answered with an error
  unlink_failed,\* a file that was there could not be deleted
  ex_shutdown   \* "no", "closing", or how it called back

bucket_vars == <<buckets, bucket_files, gz_files, closing, records, refused,
                 unlink_failed, ex_shutdown>>

\* The constructor and setTsFields of a BucketHandler.
TsStart(ts) == (ts \div SplitPeriod) * SplitPeriod
TsMax(b) == b.ts_start + SplitPeriod
NewPeriod(ts, data) == [ts_start |-> TsStart(ts), data |-> data, contains |-> FALSE]

BucketInit ==
  /\ buckets = << >> /\ bucket_files = << >> /\ gz_files = {} /\ closing = {}
  /\ records = {} /\ refused = {} /\ unlink_failed = FALSE /\ ex_shutdown = "no"

\* writeFile: the pending data are appended to the current file at once.
Flushed(keys) ==
  LET written == {k \in keys : buckets[k].data # {}}
      FileOf(k) == <<k, buckets[k].ts_start>>
      Old(n) == IF n \in DOMAIN bucket_files THEN bucket_files[n] ELSE {}
  IN  /\ bucket_files' =
           [n \in DOMAIN bucket_files \cup {FileOf(k) : k \in written} |->
              Old(n) \cup UNION {buckets[k].data : k \in {j \in written : FileOf(j) = n}}]
      /\ buckets' = [k \in DOMAIN buckets |->
           IF k \in written
           THEN [buckets[k] EXCEPT !.data = {}, !.contains = TRUE] ELSE buckets[k]]

\* closeCurrentFile, zipFile: the file is read under a name that is free when
\* the zip begins.
Closing(k, for) ==
  [key |-> k, ts_start |-> buckets[k].ts_start, for |-> for,
   data |-> bucket_files'[<<k, buckets[k].ts_start>>],
   counter |-> Cardinality({g \in gz_files \cup closing :
                 g.key = k /\ g.ts_start = buckets[k].ts_start})]

---------------------------------------------------------------------------
\* The bolt's wrapper, without allow_parallel.
BoltIsFree == ex_shutdown = "no" /\ closing = {}

\* Fault: closeCurrentFile looks at curr_file_contains_data before it writes what
\* is pending (breaks ArchivedInPeriod).
ContainedBefore(b) == b.contains

ContainsData(b) == b.contains \/ b.data # {}

InOrder(k, ts) == \A r \in records : r.key = k => r.ts <= ts

BucketReceive(k, ts) ==
  /\ BoltIsFree /\ Cardinality(records) < MaxRecords /\ InOrder(k, ts)
  /\ LET r == [id |-> Cardinality(records), key |-> k, ts |-> ts]
         known == k \in DOMAIN buckets
         late == known /\ TsMax(buckets[k]) < ts
         zip == late /\ ContainsData(buckets[k])
         Becomes(b) == buckets' = [j \in DOMAIN buckets \cup {k} |->
                                     IF j = k THEN b ELSE buckets[j]]
     IN  /\ records' = records \cup {r}
         /\ \/ /\ ~late
               /\ Becomes(IF known THEN [buckets[k] EXCEPT !.data = @ \cup {r}]
                          ELSE NewPeriod(ts, {r}))
               /\ UNCHANGED <<bucket_files, closing>>
            \/ /\ late /\ ~zip
               /\ Becomes(NewPeriod(ts, buckets[k].data \cup {r}))
               /\ UNCHANGED <<bucket_files, closing>>
            \/ /\ zip
               /\ Flushed({k})
               /\ closing' = closing \cup {Closing(k, {r})}
  /\ UNCHANGED <<gz_files, refused, unlink_failed, ex_shutdown>>

BucketHeartbeat ==
  /\ ex_shutdown = "no"
  /\ Flushed(DOMAIN buckets)
  /\ UNCHANGED <<gz_files, closing, records, refused, unlink_failed, ex_shutdown>>

\* shutdown closes all buckets at once.
BucketShutdown ==
  /\ BoltIsFree
  /\ Flushed(DOMAIN buckets)
  /\ LET zipped == {k \in DOMAIN buckets : buckets'[k].contains}
     IN  /\ closing' = closing \cup {Closing(k, {}) : k \in zipped}
         /\ ex_shutdown' = IF zipped = {} THEN "ok" ELSE "closing"
  /\ UNCHANGED <<gz_files, records, refused, unlink_failed>>

\* The zip is complete and the file deleted, or not.
ZipFinishes(c) ==
  /\ gz_files' = gz_files \cup
       {[key |-> c.key, ts_start |-> c.ts_start, data |-> c.data, counter |-> c.counter]}
  /\ closing' = closing \ {c}
  /\ UNCHANGED records

\* ... then receive goes on, and shutdown calls back after the last one.
CloseEnds(c) ==
  LET n == <<c.key, c.ts_start>> IN
  /\ ZipFinishes(c)
  /\ n \in DOMAIN bucket_files
  /\ bucket_files' = [m \in DOMAIN bucket_files \ {n} |-> bucket_files[m]]
  /\ \/ /\ c.for # {}
        /\ buckets' = [buckets EXCEPT ![c.key] =
             LET ts == (CHOOSE r \in c.for : TRUE).ts
             IN  NewPeriod(ts, @.data \cup c.for)]
        /\ UNCHANGED ex_shutdown
     \/ /\ c.for = {}
        /\ ex_shutdown' = IF closing' = {} /\ ex_shutdown = "closing" THEN "ok" ELSE ex_shutdown
        /\ UNCHANGED buckets
  /\ UNCHANGED <<refused, unlink_failed>>

\* An error, as when another call has deleted the file, refuses the datum, or
\* makes shutdown fail at once.
CloseFails(c) ==
  /\ ZipFinishes(c)
  /\ unlink_failed' = (unlink_failed \/ <<c.key, c.ts_start>> \in DOMAIN bucket_files)
  /\ refused' = refused \cup c.for
  /\ ex_shutdown' = IF c.for = {} THEN "error" ELSE ex_shutdown
  /\ UNCHANGED <<buckets, bucket_files>>

BucketNext ==
  \/ \E k \in BucketKeys, ts \in 0..MaxTimestamp : BucketReceive(k, ts)
  \/ BucketHeartbeat
  \/ BucketShutdown
  \/ \E c \in closing : CloseEnds(c) \/ CloseFails(c)

BucketSpec == BucketInit /\ [][BucketNext]_bucket_vars

---------------------------------------------------------------------------
(* Properties.                                                             *)

\* Where a datum is: waiting for a zip, in the buffer of its bucket, or in files.
Places(r) ==
  {[at |-> "waiting", start |-> TsStart(r.ts)] : c \in {d \in closing : r \in d.for}}
    \cup {[at |-> "buffer", start |-> buckets[k].ts_start] :
            k \in {j \in DOMAIN buckets : r \in buckets[j].data}}
    \cup {[at |-> "file", start |-> n[2]] :
            n \in {m \in DOMAIN bucket_files : r \in bucket_files[m]}}
    \cup {[at |-> "zipped", start |-> g.ts_start, counter |-> g.counter] : g \in {h \in gz_files : r \in h.data}}

\* A datum that was not refused is somewhere, always for the period of its
\* timestamp (whose end belongs to it), and in one place only unless a file
\* could not be deleted; after a shutdown without errors that is a zipped file.
ArchivedInPeriod ==
  \A r \in records \ refused :
    /\ Places(r) # {}
    /\ \A p \in Places(r) : p.start <= r.ts /\ r.ts <= p.start + SplitPeriod
    /\ unlink_failed \/ Cardinality(Places(r)) = 1
    /\ ex_shutdown = "ok" => \E g \in gz_files : r \in g.data
=============================================================================
