---------------------------- MODULE ExportService ----------------------------
(***************************************************************************)
(* The asynchronous exports of packages/api/src/export: ExportService and  *)
(* the routes that read it.  A job lives in the memory of the API and, as  *)
(* a best-effort copy, in Redis; its file is on the local disk.            *)
(*                                                                         *)
(* The commands of the one Redis connection are in `wire` until Redis      *)
(* answers them, in order; a restart of the API loses those that are       *)
(* there, the jobs in memory and the generations in progress.              *)
(***************************************************************************)
EXTENDS Naturals, Sequences

CONSTANTS Export,       \* exports that may be created
          Reader,       \* concurrent GET requests
          MaxRestarts,  \* bound: restarts of the API
          MaxFaults     \* bound: rejected Redis commands

ASSUME BoundsAssumption == MaxRestarts \in Nat /\ MaxFaults \in Nat

VARIABLES mem,       \* status of the job in memory, "none" if it is not there
          redis,     \* status of the copy in Redis
          disk,      \* exports whose file is on disk
          gen,       \* the generation in progress
          wire,      \* Redis commands that have no answer yet
          reader,    \* the GET requests
          late,      \* exports whose expiresAt has passed
          told,      \* last status a client was told of an export
          restarts, faults

vars == <<mem, redis, disk, gen, wire, reader, late, told, restarts, faults>>

Running == {"queued", "processing"}
Status == Running \cup {"ready", "failed"}
Known == Status \cup {"none"}

\* A GET that awaits: the answer of Redis, the set of persist, rm of the file,
\* the del of the key, or the file it serves.
Stage == {"idle", "get", "persist", "rm", "del", "read"}

Idle == [stage |-> "idle", kind |-> "status", id |-> "none"]

\* The callers that wait for Redis: a GET, or the generation of an export.
Gen == "generate"
Set(e, s, who) == [op |-> "set", id |-> e, val |-> s, by |-> who]
Del(e, who) == [op |-> "del", id |-> e, val |-> "none", by |-> who]
Get(e, who) == [op |-> "get", id |-> e, val |-> "none", by |-> who]
Command == [op : {"set", "del", "get"}, id : Export, val : Known, by : Reader \cup {Gen}]
Request == [stage : Stage, kind : {"status", "download"}, id : Export \cup {"none"}]

TypeOK ==
  /\ mem \in [Export -> Known]
  /\ redis \in [Export -> Known]
  /\ disk \subseteq Export
  /\ gen \in [Export -> {"none", "first", "written"}]
  /\ wire \in Seq(Command)
  /\ reader \in [Reader -> Request]
  /\ late \subseteq Export
  /\ told \in [Export -> Known \cup {"404", "410"}]
  /\ restarts \in 0..MaxRestarts
  /\ faults \in 0..MaxFaults

Init ==
  /\ mem = [e \in Export |-> "none"]
  /\ redis = [e \in Export |-> "none"]
  /\ disk = {}
  /\ gen = [e \in Export |-> "none"]
  /\ wire = <<>>
  /\ reader = [r \in Reader |-> Idle]
  /\ late = {}
  /\ told = [e \in Export |-> "none"]
  /\ restarts = 0
  /\ faults = 0

\* The caller still waits for an answer of Redis about e.
Awaits(who, e) == \E i \in DOMAIN wire : wire[i].by = who /\ wire[i].id = e

-----------------------------------------------------------------------------
(* create and generate *)

\* POST /export: create and the first stretch of generate are one tick, which
\* sends two copies to Redis; the 202 carries the status of the shared object.
Create(e) ==
  /\ told[e] = "none"
  /\ mem' = [mem EXCEPT ![e] = "processing"]
  /\ gen' = [gen EXCEPT ![e] = "first"]
  /\ wire' = wire \o <<Set(e, "queued", Gen), Set(e, "processing", Gen)>>
  /\ told' = [told EXCEPT ![e] = "processing"]
  /\ UNCHANGED <<redis, disk, reader, late, restarts, faults>>

\* Mutant of WriteFile: the job is reported ready and written afterwards.
ReadyThenWrite(e) ==
  /\ gen[e] = "first"
  /\ ~Awaits(Gen, e)
  /\ mem' = [mem EXCEPT ![e] = "ready"]
  /\ gen' = [gen EXCEPT ![e] = "written"]
  /\ UNCHANGED <<redis, disk, wire, reader, late, told, restarts, faults>>

\* The rows are collected and writeFile ends.
WriteFile(e) ==
  /\ gen[e] = "first"
  /\ ~Awaits(Gen, e)
  /\ disk' = disk \cup {e}
  /\ gen' = [gen EXCEPT ![e] = "written"]
  /\ UNCHANGED <<mem, redis, wire, reader, late, told, restarts, faults>>

\* Mutant of Finish: the final copy is not sent.
FinishUnsaved(e) ==
  /\ gen[e] = "written"
  /\ mem' = [mem EXCEPT ![e] = "ready"]
  /\ gen' = [gen EXCEPT ![e] = "none"]
  /\ UNCHANGED <<redis, disk, wire, reader, late, told, restarts, faults>>

Finish(e) ==
  /\ gen[e] = "written"
  /\ mem' = [mem EXCEPT ![e] = "ready"]
  /\ gen' = [gen EXCEPT ![e] = "none"]
  /\ wire' = Append(wire, Set(e, "ready", Gen))
  /\ UNCHANGED <<redis, disk, reader, late, told, restarts, faults>>

\* Mutant of Fail: the exception ends the generation unnoticed.
FailSilently(e) ==
  /\ gen[e] = "first"
  /\ ~Awaits(Gen, e)
  /\ gen' = [gen EXCEPT ![e] = "none"]
  /\ UNCHANGED <<mem, redis, disk, wire, reader, late, told, restarts, faults>>

\* A query or writeFile rejects; part of the file may be on disk.
Fail(e) ==
  /\ gen[e] = "first"
  /\ ~Awaits(Gen, e)
  /\ disk' \in {disk, disk \cup {e}}
  /\ mem' = [mem EXCEPT ![e] = "failed"]
  /\ gen' = [gen EXCEPT ![e] = "none"]
  /\ wire' = Append(wire, Set(e, "failed", Gen))
  /\ UNCHANGED <<redis, reader, late, told, restarts, faults>>

Generate(e) == WriteFile(e) \/ Finish(e) \/ Fail(e)

-----------------------------------------------------------------------------
(* get, and the routes that answer with it *)

\* Mutant of Expired: a ready job is removed by whoever asks for it.
AlwaysExpired(e, s) == s = "ready"

Expired(e, s) == s = "ready" /\ e \in late

Await(r, stage) == reader' = [reader EXCEPT ![r].stage = stage]

Tell(r, e, answer) ==
  /\ told' = [told EXCEPT ![e] = answer]
  /\ reader' = [reader EXCEPT ![r] = Idle]

\* What the routes do with a job that has not expired: the status route answers
\* it, the download goes on to read the file of a ready one (else it is a 400).
Serve(r, kind, e, s) ==
  \/ kind = "status" /\ Tell(r, e, s)
  \/ /\ kind = "download" /\ s = "ready"
     /\ reader' = [reader EXCEPT ![r] = [stage |-> "read", kind |-> kind, id |-> e]]
     /\ UNCHANGED told
  \/ /\ kind = "download" /\ s # "ready"
     /\ reader' = [reader EXCEPT ![r] = Idle]
     /\ UNCHANGED told

\* The last stretch of get, from a job in status s.
Conclude(r, kind, e, s) ==
  \/ ~Expired(e, s) /\ Serve(r, kind, e, s)
  \/ /\ Expired(e, s)
     /\ reader' = [reader EXCEPT ![r] = [stage |-> "rm", kind |-> kind, id |-> e]]
     /\ UNCHANGED told

\* A request arrives for an export the client knows: with the job in memory
\* there is nothing to await.
Arrive(r, e, kind) ==
  /\ reader[r].stage = "idle"
  /\ told[e] # "none"
  /\ \/ /\ mem[e] # "none"
        /\ Conclude(r, kind, e, mem[e])
        /\ UNCHANGED wire
     \/ /\ mem[e] = "none"
        /\ reader' = [reader EXCEPT ![r] = [stage |-> "get", kind |-> kind, id |-> e]]
        /\ wire' = Append(wire, Get(e, r))
        /\ UNCHANGED told
  /\ UNCHANGED <<mem, redis, disk, gen, late, restarts, faults>>

\* Mutant of Recover: the copy in Redis is answered as it is.
RecoverAsIs(r, e, s) ==
  /\ IF s = "none" THEN Tell(r, e, "404") ELSE Conclude(r, reader[r].kind, e, s)
  /\ wire' = Tail(wire)
  /\ UNCHANGED mem

\* The answer of Redis to the get of r.  A job that runs in Redis and is not in
\* memory was interrupted by a restart: it becomes a failed one.
Recover(r, e, s) ==
  \/ /\ s = "none"
     /\ Tell(r, e, "404")
     /\ wire' = Tail(wire)
     /\ UNCHANGED mem
  \/ /\ s \in Running
     /\ mem' = [mem EXCEPT ![e] = "failed"]
     /\ wire' = Append(Tail(wire), Set(e, "failed", r))
     /\ Await(r, "persist")
     /\ UNCHANGED told
  \/ /\ s \in {"ready", "failed"}
     /\ Conclude(r, reader[r].kind, e, s)
     /\ wire' = Tail(wire)
     /\ UNCHANGED mem

Persisted(r) ==
  LET e == reader[r].id IN
  /\ reader[r].stage = "persist"
  /\ ~Awaits(r, e)
  /\ Serve(r, reader[r].kind, e, "failed")
  /\ UNCHANGED <<mem, redis, disk, gen, wire, late, restarts, faults>>

\* rm ends: the job is forgotten and its key deleted.
Removed(r) ==
  LET e == reader[r].id IN
  /\ reader[r].stage = "rm"
  /\ disk' = disk \ {e}
  /\ mem' = [mem EXCEPT ![e] = "none"]
  /\ wire' = Append(wire, Del(e, r))
  /\ Await(r, "del")
  /\ UNCHANGED <<redis, gen, late, told, restarts, faults>>

Deleted(r) ==
  LET e == reader[r].id IN
  /\ reader[r].stage = "del"
  /\ ~Awaits(r, e)
  /\ Tell(r, e, "410")
  /\ UNCHANGED <<mem, redis, disk, gen, wire, late, restarts, faults>>

\* readFile ends, with the file or (it is gone) with an error.
Read(r) ==
  /\ reader[r].stage = "read"
  /\ reader' = [reader EXCEPT ![r] = Idle]
  /\ UNCHANGED <<mem, redis, disk, gen, wire, late, told, restarts, faults>>

Continue(r) == Persisted(r) \/ Removed(r) \/ Deleted(r) \/ Read(r)

\* GET /export: the jobs in memory that have not expired.
List ==
  /\ told' = [e \in Export |-> IF mem[e] = "none" \/ Expired(e, mem[e])
                               THEN told[e] ELSE mem[e]]
  /\ UNCHANGED <<mem, redis, disk, gen, wire, reader, late, restarts, faults>>

-----------------------------------------------------------------------------
(* Redis, time and restarts *)

\* What a write leaves in Redis.
Written(c) == [redis EXCEPT ![c.id] = c.val]

RedisReplies ==
  LET c == Head(wire) IN
  /\ wire # <<>>
  /\ \/ /\ c.op = "get"
        /\ Recover(c.by, c.id, redis[c.id])
        /\ UNCHANGED redis
     \/ /\ c.op # "get"
        /\ redis' = Written(c)
        /\ wire' = Tail(wire)
        /\ UNCHANGED <<mem, reader, told>>
  /\ UNCHANGED <<disk, gen, late, restarts, faults>>

\* The command is rejected (applied or not), which every caller takes for an
\* answer: the catch of persist, of readFromRedis and of the del.
RedisRejects ==
  LET c == Head(wire) IN
  /\ faults < MaxFaults
  /\ wire # <<>>
  /\ faults' = faults + 1
  /\ wire' = Tail(wire)
  /\ \/ c.op = "get" /\ Tell(c.by, c.id, "404") /\ UNCHANGED redis
     \/ c.op # "get" /\ redis' \in {redis, Written(c)} /\ UNCHANGED <<reader, told>>
  /\ UNCHANGED <<mem, disk, gen, late, restarts>>

\* The clock passes expiresAt.
Expire(e) ==
  /\ told[e] # "none"
  /\ e \notin late
  /\ late' = late \cup {e}
  /\ UNCHANGED <<mem, redis, disk, gen, wire, reader, told, restarts, faults>>

\* The key was written with the rest of the TTL, rounded up.
RedisExpires(e) ==
  /\ e \in late
  /\ redis[e] # "none"
  /\ redis' = [redis EXCEPT ![e] = "none"]
  /\ UNCHANGED <<mem, disk, gen, wire, reader, late, told, restarts, faults>>

\* The API process restarts on the same disk; the requests under way fail.
Restart ==
  /\ restarts < MaxRestarts
  /\ restarts' = restarts + 1
  /\ mem' = [e \in Export |-> "none"]
  /\ gen' = [e \in Export |-> "none"]
  /\ wire' = <<>>
  /\ reader' = [r \in Reader |-> Idle]
  /\ UNCHANGED <<redis, disk, late, told, faults>>

-----------------------------------------------------------------------------
Next ==
  \/ \E e \in Export : \/ Create(e) \/ WriteFile(e) \/ Finish(e) \/ Fail(e)
                       \/ Expire(e) \/ RedisExpires(e)
                       \/ \E r \in Reader, kind \in {"status", "download"} :
                             Arrive(r, e, kind)
  \/ \E r \in Reader : Continue(r)
  \/ List
  \/ RedisReplies
  \/ RedisRejects
  \/ Restart

\* The event loop and Redis go on; a client that was told a running status
\* asks again every ten seconds.
Fairness ==
  /\ \A e \in Export : WF_vars(Generate(e))
  /\ \A r \in Reader : WF_vars(Continue(r))
  /\ WF_vars(RedisReplies)
  /\ \A e \in Export : SF_vars(\E r \in Reader : Arrive(r, e, "status"))

Spec == Init /\ [][Next]_vars
FairSpec == Spec /\ Fairness

-----------------------------------------------------------------------------
(* Properties *)

\* An export known as ready, in memory or in Redis, has its file until its TTL
\* has passed: the status is set after writeFile (generate), and only an expired
\* job is removed (get), whatever restarts and lost copies come between.
ReadyIsDownloadable ==
  \A e \in Export \ late : "ready" \in {mem[e], redis[e]} => e \in disk

\* A download past its checks finds the file, unless the TTL passed meanwhile:
\* no other request, retry or restart takes it away between the two awaits.
DownloadBreaksOnlyPastTTL ==
  \A r \in Reader :
    reader[r].stage = "read" => reader[r].id \in disk \cup late

\* A client that was told an export is over (ready, failed, expired or unknown)
\* is never told it runs, and a failed export never becomes a ready one: what a
\* restart recovers from Redis, which can be older than what memory answered,
\* goes through the transition to failed in get.
AnswersNeverGoBack ==
  [][\A e \in Export :
       /\ told'[e] \in Running => told[e] \in Running \cup {"none"}
       /\ told[e] = "failed" => told'[e] # "ready"]_vars

\* With no rejected command, once Redis has answered every write of an export
\* its copy is what memory holds, until the key's TTL.
RedisMirrorsMemory ==
  \A e \in Export :
    \/ faults > 0 \/ mem[e] = "none" \/ e \in late
    \/ \E i \in DOMAIN wire : wire[i].id = e /\ wire[i].op # "get"
    \/ redis[e] = mem[e]

\* The client of a running export is told something else in the end, across
\* restarts of the API and lost copies (ADR-5 in get: no eternal polling).
PollingEnds ==
  \A e \in Export : told[e] \in Running ~> told[e] \notin Running
=============================================================================
