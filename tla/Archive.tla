------------------------------ MODULE Archive ------------------------------
(* The archiver (storage_logger.py, influx_writer.py): a loop reads the    *)
(* bus, queues each entry and acknowledges it; a thread drains the queue   *)
(* in batches to InfluxDB.  One of its streams, several processes in time. *)
EXTENDS ConsumerGroup, FiniteSets

CONSTANTS
    ReadCount,      \* count of one read
    QueueMaxlen,    \* INFLUX_QUEUE_MAXLEN
    BatchSize,      \* INFLUX_BATCH_SIZE
    MaxEntries,     \* bound: entries of the stream
    MaxDeaths       \* bound: deaths of the process

ASSUME ArchiveAssumption ==
    {ReadCount, QueueMaxlen, BatchSize, MaxEntries} \subseteq Nat \ {0}

VARIABLES
    archived,  \* the stream and its consumer group
    inHand,    \* entries read and not yet acknowledged by the loop, in order
    isQueued,  \* the first of them is in the queue
    queue,     \* the bounded queue
    batch,     \* what the thread has drained and not yet handed over
    counts,    \* enqueued, written, dropped; and lost, points in failed batches
    influx,    \* "none" (no token), "up" or "down"
    stored,    \* what InfluxDB holds
    archiver,  \* the process: "up" or "down"
    deaths

archiveVars == <<archived, inHand, isQueued, queue, batch, counts, influx,
                 stored, archiver, deaths>>

ArchiveInit ==
    /\ archived = EmptyGroup
    /\ inHand = <<>> /\ isQueued = FALSE /\ queue = <<>> /\ batch = <<>>
    /\ counts = [enqueued |-> 0, written |-> 0, dropped |-> 0, lost |-> 0]
    /\ influx \in {"none", "up", "down"}
    /\ stored = {} /\ archiver = "up" /\ deaths = 0

-----------------------------------------------------------------------------

ArchivedEntry ==
    /\ Len(archived.log) < MaxEntries
    /\ archived' = XAdd(archived, Len(archived.log) + 1)
    /\ UNCHANGED <<inHand, isQueued, queue, batch, counts, influx, stored,
                   archiver, deaths>>

(* MultiStreamConsumer.read: what is new, and never what another process   *)
(* read and left unacknowledged.                                           *)
ReadArchived ==
    /\ archiver = "up" /\ inHand = <<>>
    /\ archived' = XReadGroup(archived, ReadCount)
    /\ inHand' = [k \in 1..(archived'.cursor - archived.cursor) |-> archived.cursor + k]
    /\ inHand' # <<>>
    /\ UNCHANGED <<isQueued, queue, batch, counts, influx, stored, archiver, deaths>>

(* Mutant: the count of drops looks at the queue after the append.         *)
OverflowsLate(q) == Len(q) + 1 >= QueueMaxlen

Overflows(q) == Len(q) = QueueMaxlen

(* A deque of bounded length evicts its oldest.                            *)
Queued(q, e) == IF Len(q) = QueueMaxlen THEN Append(Tail(q), e) ELSE Append(q, e)

(* Mutant: a queue that blocks when it is full.                            *)
RoomFirst == Len(queue) < QueueMaxlen

Room == TRUE

(* BatchingInfluxWriter.write, under its lock.                             *)
QueuesPoint ==
    /\ archiver = "up" /\ inHand # <<>> /\ ~isQueued /\ Room
    /\ queue' = Queued(queue, Head(inHand))
    /\ counts' = [enqueued |-> counts.enqueued + 1, written |-> counts.written,
                  dropped |-> counts.dropped + (IF Overflows(queue) THEN 1 ELSE 0),
                  lost |-> counts.lost]
    /\ isQueued' = TRUE
    /\ UNCHANGED <<archived, inHand, batch, influx, stored, archiver, deaths>>

AcksPoint ==
    /\ archiver = "up" /\ isQueued
    /\ archived' = XAck(archived, Head(inHand))
    /\ inHand' = Tail(inHand) /\ isQueued' = FALSE
    /\ UNCHANGED <<queue, batch, counts, influx, stored, archiver, deaths>>

-----------------------------------------------------------------------------

Least(m, n) == IF m < n THEN m ELSE n

(* _drain, under the lock.                                                 *)
Drains ==
    /\ archiver = "up" /\ batch = <<>> /\ queue # <<>>
    /\ LET n == Least(BatchSize, Len(queue)) IN
          /\ batch' = SubSeq(queue, 1, n)
          /\ queue' = SubSeq(queue, n + 1, Len(queue))
    /\ UNCHANGED <<archived, inHand, isQueued, counts, influx, stored, archiver, deaths>>

Elements(s) == {s[k] : k \in DOMAIN s}

(* _write_batch: the client writes in the background, so that what the     *)
(* backend refuses is counted as written; only a batch that cannot be      *)
(* handed over fails here, and is not queued again.                        *)
WritesBatch ==
    /\ archiver = "up" /\ batch # <<>>
    /\ batch' = <<>>
    /\ \/ /\ counts' = [counts EXCEPT !.written = @ + Len(batch)]
          /\ stored' = IF influx = "up" THEN stored \cup Elements(batch) ELSE stored
       \/ /\ influx # "none"
          /\ counts' = [counts EXCEPT !.lost = @ + Len(batch)]
          /\ UNCHANGED stored
    /\ UNCHANGED <<archived, inHand, isQueued, queue, influx, archiver, deaths>>

InfluxTurns ==
    /\ influx # "none"
    /\ influx' = IF influx = "up" THEN "down" ELSE "up"
    /\ UNCHANGED <<archived, inHand, isQueued, queue, batch, counts, stored,
                   archiver, deaths>>

-----------------------------------------------------------------------------

(* The loop raises (a call to Redis failed): close() waits a little for    *)
(* the thread, drains the queue, and the process ends.                     *)
ArchiverCloses ==
    /\ archiver = "up" /\ deaths < MaxDeaths
    /\ archiver' = "down" /\ deaths' = deaths + 1
    /\ queue' = <<>> /\ batch' = <<>> /\ inHand' = <<>> /\ isQueued' = FALSE
    /\ counts' = [counts EXCEPT !.written = @ + Len(queue)]
    /\ stored' = IF influx = "up" THEN stored \cup Elements(queue) ELSE stored
    /\ UNCHANGED <<archived, influx>>

(* It is killed: what is queued goes with it.                              *)
ArchiverDies ==
    /\ archiver = "up" /\ deaths < MaxDeaths
    /\ archiver' = "down" /\ deaths' = deaths + 1
    /\ queue' = <<>> /\ batch' = <<>> /\ inHand' = <<>> /\ isQueued' = FALSE
    /\ UNCHANGED <<archived, counts, influx, stored>>

ArchiverStarts ==
    /\ archiver = "down"
    /\ archiver' = "up"
    /\ counts' = [enqueued |-> 0, written |-> 0, dropped |-> 0, lost |-> 0]
    /\ UNCHANGED <<archived, inHand, isQueued, queue, batch, influx, stored, deaths>>

ArchiveLoop == ReadArchived \/ QueuesPoint \/ AcksPoint

ArchiveNext ==
    \/ ArchiveLoop \/ Drains \/ WritesBatch \/ ArchivedEntry \/ InfluxTurns
    \/ ArchiverCloses \/ ArchiverDies \/ ArchiverStarts

(* The loop runs on; nothing is asked of the thread or of InfluxDB.        *)
ArchiveFairness == WF_archiveVars(ArchiveLoop)

ArchiveSpec == ArchiveInit /\ [][ArchiveNext]_archiveVars /\ ArchiveFairness

-----------------------------------------------------------------------------

(* The counts the archiver reports account for every point queued, with    *)
(* the loop and the thread interleaved anyhow: a hole of the archive shows *)
(* in dropped or in a failed batch, and never nowhere.                     *)
CountsAddUp ==
    archiver = "up" =>
        counts.enqueued = counts.written + counts.dropped + counts.lost
                            + Len(queue) + Len(batch)

(* Read by a process that died with them: nobody claims these.             *)
Abandoned == {e \in archived.pending : e \notin Elements(inHand)}

(* Falling behind never costs consumer progress: every entry is settled,   *)
(* whatever InfluxDB and the thread do, unless the process is down or died *)
(* with the entry in hand (influx_writer.py:14).                           *)
KeepsConsuming ==
    \A e \in 1..MaxEntries :
        (Len(archived.log) >= e)
            ~> (Settled(archived, e) \/ e \in Abandoned \/ archiver = "down")

(* Restarts leave no gap in the record (storage_logger.py:45-48).          *)
NothingAbandoned == Abandoned = {}

============================================================================
