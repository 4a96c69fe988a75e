------------------------------ MODULE Downloads ------------------------------
(***************************************************************************)
(* The download of one model: its row in the catalogue, the files of its   *)
(* shards, the list of DownloadStates the manager keeps in memory, and the *)
(* background tasks that fetch one shard after another (_download_shards   *)
(* of api/discovery.py, each shard by download_model of                    *)
(* core/downloader.py, in a thread). The endpoints run on the event loop   *)
(* without an await and talk to a task only through the flags of its       *)
(* states.                                                                 *)
(*                                                                         *)
(* A file is the sequence of chunks it holds, 0 where nothing was written. *)
(***************************************************************************)
EXTENDS Integers, Sequences

CONSTANTS
    Shards,       \* files of the model
    Chunks,       \* chunks of a file
    Tasks,        \* tasks that may run at a time
    Generations,  \* lists of states: one more than tasks is enough
    MaxOps,       \* bound: requests after the start
    Checksum      \* the caller knows the SHA-256 of a model of one shard

VARIABLES
    catalog,   \* models: "absent", "known", "downloaded" or "archived"
    file,      \* per shard: the chunks of its file, Gone without one
    list,      \* downloads: the generation in it, 0 when it has none
    state,     \* per generation and shard: the DownloadState
    task,      \* per slot: the task, and the call of download_model it awaits
    deleting,  \* a deletion waits for its instances to stop
    ops,       \* requests so far
    excuse     \* history: what ran at once, see DownloadsSound

vars == <<catalog, file, list, state, task, deleting, ops, excuse>>

Files == 1 .. Shards
Whole == [i \in 1 .. Chunks |-> i]
Gone == <<-1>>

Active == {"queued", "downloading", "verifying"}

Queued == [status |-> "queued", cancel |-> FALSE, pause |-> FALSE]

\* cancel, pause: the thread's own copies of the flags. from: the Range asked
\* for. at: chunks written. open, linked: whether the file is open, and is
\* still the one at that path.
Idle == [pc |-> "idle", gen |-> 0, shard |-> 0, first |-> FALSE, resume |-> FALSE,
         cancel |-> FALSE, pause |-> FALSE, from |-> 0, at |-> 0, append |-> FALSE,
         open |-> FALSE, linked |-> FALSE, failed |-> FALSE]

Init ==
    /\ catalog = "absent"
    /\ file = [s \in Files |-> Gone]
    /\ list = 0
    /\ state = [g \in 1 .. Generations |-> [s \in Files |-> Queued]]
    /\ task = [t \in Tasks |-> Idle]
    /\ deleting = FALSE
    /\ ops = 0
    /\ excuse = {}

-----------------------------------------------------------------------------
Live == {t \in Tasks : task[t].pc # "idle"}

Known == catalog \in {"known", "downloaded"}

\* Lists of states that neither a task nor downloads refers to.
Unused == (1 .. Generations) \ ({list} \cup {task[t].gen : t \in Live})

\* asyncio.create_task: the task will look at the shards of its list in order.
Spawn(t, g, first) ==
    /\ task[t].pc = "idle"
    /\ task' = [task EXCEPT ![t] = [Idle EXCEPT !.pc = "next", !.gen = g, !.first = first]]

Request(why) ==
    /\ ops < MaxOps
    /\ ops' = ops + 1
    /\ excuse' = excuse \cup (IF Live # {} THEN why ELSE {})

\* start_download: 409 when the id was ever used.
Start(t) ==
    /\ catalog = "absent"
    /\ catalog' = "known"
    /\ list' = 1
    /\ Spawn(t, 1, TRUE)
    /\ UNCHANGED <<file, state, deleting, ops, excuse>>

\* retry_download: nothing is asked of the tasks that run, nor of the status.
Retry(t) ==
    /\ Known
    /\ \E g \in Unused :
          /\ \A h \in Unused : g <= h
          /\ Spawn(t, g, FALSE)
          /\ list' = g
          /\ state' = [state EXCEPT ![g] = [s \in Files |-> Queued]]
    /\ ops < MaxOps
    /\ ops' = ops + 1
    /\ excuse' = excuse \cup (IF Live # {} THEN {"overlap"} ELSE {})
                        \cup (IF catalog = "downloaded" THEN {"again"} ELSE {})
    /\ UNCHANGED <<catalog, file, deleting>>

\* resume_download: some state of the list says paused.
Resume(t) ==
    /\ Request({"overlap"})
    /\ Known /\ list > 0
    /\ \E s \in Files : state[list][s].status = "paused"
    /\ Spawn(t, list, FALSE)
    /\ UNCHANGED <<catalog, file, list, state, deleting>>

\* cancel_download and pause_download: a flag in every active state.
Flag(flag) ==
    /\ Request({})
    /\ list > 0
    /\ \E s \in Files : state[list][s].status \in Active
    /\ state' = [state EXCEPT ![list] =
                   [s \in Files |-> IF @[s].status \in Active
                                     THEN [@[s] EXCEPT ![flag] = TRUE] ELSE @[s]]]
    /\ UNCHANGED <<catalog, file, list, task, deleting>>

Cancel == Flag("cancel")
Pause == Flag("pause")

\* delete_downloaded_model: the checks, then the scan and the cascade ...
Delete ==
    /\ Request({})
    /\ catalog = "downloaded" /\ ~deleting
    /\ deleting' = TRUE
    /\ UNCHANGED <<catalog, file, list, state, task>>

\* ... then the row is archived, the files are unlinked and the list is cleared.
Unlink(shards) ==
    [t \in Tasks |-> IF task[t].shard \in shards THEN [task[t] EXCEPT !.linked = FALSE]
                                                 ELSE task[t]]

Deleted ==
    /\ deleting
    /\ deleting' = FALSE
    /\ catalog' = "archived"
    /\ file' = [s \in Files |-> Gone]
    /\ task' = Unlink(Files)
    /\ list' = 0
    /\ UNCHANGED <<state, ops, excuse>>

-----------------------------------------------------------------------------
\* What the loop of _download_shards does next: the first shard that is not
\* done, those cancelled on the way being marked so.
Pending(g) == {s \in Files : state[g][s].status # "done" /\ ~state[g][s].cancel}

Skipped(g, upto) ==
    [s \in Files |-> IF s < upto /\ state[g][s].cancel /\ state[g][s].status # "done"
                     THEN [state[g][s] EXCEPT !.status = "cancelled"] ELSE state[g][s]]

\* The loop goes on: the pause flag is cleared and a thread is started.
NextShard(t) ==
    LET g == task[t].gen
    IN  /\ task[t].pc = "next"
        /\ \E s \in Pending(g) :
              /\ s > task[t].shard
              /\ \A r \in Pending(g) : r > task[t].shard => s <= r
              /\ state' = [state EXCEPT ![g] = [Skipped(g, s) EXCEPT ![s].pause = FALSE]]
              /\ task' = [task EXCEPT ![t] =
                            [Idle EXCEPT !.pc = "begin", !.gen = g, !.shard = s, !.first = task[t].first,
                                         !.resume = state[g][s].status = "paused"]]
        /\ UNCHANGED <<catalog, file, list, deleting, ops, excuse>>

\* The loop is over: update_catalog, if everything is done. On a row that was
\* archived meanwhile it raises KeyError, and only the task is lost.
LoopEnds(t) ==
    LET g == task[t].gen
    IN  /\ task[t].pc = "next"
        /\ {s \in Pending(g) : s > task[t].shard} = {}
        /\ state' = [state EXCEPT ![g] = Skipped(g, Shards + 1)]
        /\ catalog' = IF Known /\ \A s \in Files : state[g][s].status = "done"
                      THEN "downloaded" ELSE catalog
        /\ task' = [task EXCEPT ![t] = Idle]
        /\ UNCHANGED <<file, list, deleting, ops, excuse>>

\* on_progress: the state takes the thread's status, and the thread the flags.
Reports(t, status) ==
    state' = [state EXCEPT ![task[t].gen][task[t].shard].status = status]

Flags(t) ==
    LET ds == state[task[t].gen][task[t].shard]
    IN  [task[t] EXCEPT !.cancel = @ \/ ds.cancel, !.pause = @ \/ ds.pause]

\* download_model begins: how much of the file is there, if it resumes.
Begins(t) ==
    /\ task[t].pc = "begin"
    /\ LET there == file[task[t].shard]
       IN  task' = [task EXCEPT ![t] =
                      [Flags(t) EXCEPT !.pc = "request",
                                       !.from = IF task[t].resume /\ there # Gone
                                                THEN Len(there) ELSE 0]]
    /\ Reports(t, "downloading")
    /\ UNCHANGED <<catalog, file, list, deleting, ops, excuse>>

\* Fault: a file that is there is continued, whatever the server answered.
OpensAppending(t) ==
    LET s == task[t].shard
    IN  /\ task[t].pc = "request"
        /\ task[t].from < Chunks
        /\ file' = [file EXCEPT ![s] = IF @ # Gone THEN @ ELSE <<>>]
        /\ task' = [task EXCEPT ![t] =
                      [@ EXCEPT !.pc = "stream", !.open = TRUE, !.linked = TRUE, !.append = TRUE]]
        /\ UNCHANGED <<catalog, list, state, deleting, ops, excuse>>

\* The answer: 206 and the file is appended to, or 200 and it is begun anew.
Opens(t) ==
    LET s == task[t].shard
    IN  /\ task[t].pc = "request"
        /\ task[t].from < Chunks
        /\ \E resumed \in {FALSE, task[t].from > 0} :
              /\ file' = [file EXCEPT ![s] = IF resumed /\ @ # Gone THEN @ ELSE <<>>]
              /\ task' = [task EXCEPT ![t] =
                            [@ EXCEPT !.pc = "stream", !.open = TRUE, !.linked = TRUE,
                                      !.append = resumed,
                                      !.from = IF resumed THEN task[t].from ELSE 0]]
        /\ UNCHANGED <<catalog, list, state, deleting, ops, excuse>>

Returns(t, failed) ==
    [task EXCEPT ![t] = [@ EXCEPT !.pc = "returned", !.failed = failed, !.open = FALSE]]

\* No answer, or a status of an error (416 for a range past the end): the file
\* stays as it is.
Unanswered(t) ==
    /\ task[t].pc = "request"
    /\ task' = Returns(t, TRUE)
    /\ Reports(t, "failed")
    /\ UNCHANGED <<catalog, file, list, deleting, ops, excuse>>

Put(content, i, c) ==
    [j \in 1 .. (IF i > Len(content) THEN i ELSE Len(content)) |->
        IF j = i THEN c ELSE IF j <= Len(content) THEN content[j] ELSE 0]

Streaming(t) == task[t].pc = "stream" /\ task[t].from + task[t].at < Chunks

\* A chunk is written, and the flags are read if half a second has passed.
Writes(t) ==
    LET s == task[t].shard
        chunk == task[t].from + task[t].at + 1
    IN  /\ Streaming(t) /\ ~task[t].cancel /\ ~task[t].pause
        /\ file' = IF ~task[t].linked THEN file
                   ELSE [file EXCEPT ![s] = IF task[t].append THEN Append(@, chunk)
                                            ELSE Put(@, task[t].at + 1, chunk)]
        /\ \/ /\ task' = [task EXCEPT ![t].at = @ + 1]
              /\ UNCHANGED state
           \/ /\ task' = [task EXCEPT ![t] = [Flags(t) EXCEPT !.at = @ + 1]]
              /\ Reports(t, "downloading")
        /\ UNCHANGED <<catalog, list, deleting, ops, excuse>>

\* The file is unlinked: the other writers of that path write to no path.
Removes(t, status, failed) ==
    /\ file' = [file EXCEPT ![task[t].shard] = Gone]
    /\ task' = [[r \in Tasks |-> IF r = t THEN task[r] ELSE Unlink({task[t].shard})[r]]
                 EXCEPT ![t] = Returns(t, failed)[t]]
    /\ Reports(t, status)
    /\ UNCHANGED <<catalog, list, deleting, ops, excuse>>

Cancelled(t) ==
    /\ Streaming(t) /\ task[t].cancel
    /\ Removes(t, "cancelled", FALSE)

Paused(t) ==
    /\ Streaming(t) /\ task[t].pause /\ ~task[t].cancel
    /\ task' = Returns(t, FALSE)
    /\ Reports(t, "paused")
    /\ UNCHANGED <<catalog, file, list, deleting, ops, excuse>>

\* The connection breaks, or ends before its Content-Length.
Breaks(t) ==
    /\ Streaming(t)
    /\ Removes(t, "failed", TRUE)

\* expected_sha256 is passed by the start alone, for a model of one shard: the
\* catalogue row it makes has none.
Verified(t) == Checksum /\ Shards = 1 /\ task[t].first

\* An error that no except clause catches: the task is lost, and the state that
\* nothing will touch again says what it said.
Lost(t) ==
    /\ task' = [task EXCEPT ![t] = Idle]
    /\ excuse' = excuse \cup {"lost"}
    /\ UNCHANGED <<catalog, file, list, state, deleting, ops>>

\* mkdir() or stat() fails before there is a request, or an answer's length is
\* not a number: neither is a DownloadError.
Stumbles(t) ==
    /\ task[t].pc \in {"begin", "request"}
    /\ Lost(t)

\* The stream is complete. A file that is gone makes stat() raise.
Completes(t) ==
    LET s == task[t].shard
    IN  /\ task[t].pc = "stream" /\ task[t].from + task[t].at >= Chunks
        /\ IF file[s] = Gone
           THEN Lost(t)
           ELSE IF Verified(t) /\ file[s] # Whole
           THEN Removes(t, "failed", TRUE)
           ELSE /\ task' = Returns(t, FALSE)
                /\ Reports(t, "done")
                /\ UNCHANGED <<catalog, file, list, deleting, ops, excuse>>

\* The thread is over and the coroutine looks at the state it shares: an error
\* or a cancellation cancels what is queued, a pause leaves it.
Resumes(t) ==
    LET g == task[t].gen
        ended == [s \in Files |-> IF state[g][s].status = "queued"
                                  THEN [state[g][s] EXCEPT !.status = "cancelled"]
                                  ELSE state[g][s]]
        status == state[g][task[t].shard].status
    IN  /\ task[t].pc = "returned"
        /\ IF task[t].failed \/ status = "cancelled"
           THEN /\ state' = [state EXCEPT ![g] =
                               [ended EXCEPT ![task[t].shard].status =
                                  IF task[t].failed THEN "failed" ELSE @]]
                /\ task' = [task EXCEPT ![t] = Idle]
           ELSE /\ task' = [task EXCEPT ![t] =
                              IF status = "paused" THEN Idle ELSE [@ EXCEPT !.pc = "next"]]
                /\ UNCHANGED state
        /\ UNCHANGED <<catalog, file, list, deleting, ops, excuse>>

\* The manager restarts: the list and the tasks were in its memory.
Restart ==
    /\ Request({})
    /\ list' = 0
    /\ task' = [t \in Tasks |-> Idle]
    /\ deleting' = FALSE
    /\ UNCHANGED <<catalog, file, state>>

Next ==
    \/ \E t \in Tasks : Start(t) \/ Retry(t) \/ Resume(t)
    \/ Cancel \/ Pause \/ Delete \/ Deleted
    \/ \E t \in Tasks :
          \/ NextShard(t) \/ LoopEnds(t) \/ Begins(t) \/ Opens(t) \/ Unanswered(t)
          \/ Writes(t) \/ Cancelled(t) \/ Paused(t) \/ Breaks(t) \/ Stumbles(t) \/ Completes(t)
          \/ Resumes(t)
    \/ Restart

Spec == Init /\ [][Next]_vars

-----------------------------------------------------------------------------
\* A model that the catalogue calls downloaded has all its files, whole.
WholeWhenDownloaded ==
    catalog = "downloaded" => \A s \in Files : file[s] = Whole

\* While nothing runs, no state says that something does, one is queued only
\* behind a pause, a paused file is a proper part that a Range can continue, and
\* a file that is done is whole.
SettledWhenIdle ==
    Live = {} /\ list > 0 =>
        \A s \in Files :
            LET status == state[list][s].status
            IN  /\ status \notin Active \ {"queued"}
                /\ status = "queued" => \E r \in 1 .. s : state[list][r].status = "paused"
                /\ status = "paused" => /\ file[s] # Gone /\ Len(file[s]) < Chunks
                                        /\ \A i \in DOMAIN file[s] : file[s][i] = i
                /\ status = "done" => file[s] = Whole

(* Whatever is cancelled, paused, resumed, broken off, retried or restarted:
   what the catalogue and the list say of the files is true. It is not once a
   second task was started on a model that had one: neither resume nor retry
   looks for it (discovery.py:632, 693), two writers then share a path, and the
   checksum that would tell is not passed again. Nor once a model that was
   downloaded is retried, which keeps the row saying so. Nor once a task was
   lost to an error that nothing catches: the list goes on saying that it
   downloads (downloader.py:137, 211, 283), until a retry puts another before
   it. *)
DownloadsSound == excuse = {} => WholeWhenDownloaded /\ SettledWhenIdle
=============================================================================
