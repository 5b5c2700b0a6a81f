---------------------------- MODULE ExportProofs ----------------------------
(***************************************************************************)
(* The safety properties of ExportService, for any number of exports and   *)
(* requests, restarts of the API and rejected commands.                    *)
(***************************************************************************)
EXTENDS ExportService, ExportWatcher, SequenceTheorems, TLAPS

Sent == 1 .. Len(wire)

-----------------------------------------------------------------------------
(* The invariant is one of six parts.                                      *)

\* What is or will be known as ready has its file or is past its TTL; only an
\* expired file is removed.
ReadyHasItsFile ==
  /\ \A e \in Export : "ready" \in {mem[e], redis[e]} \/ gen[e] = "written" => e \in disk \cup late
  /\ \A i \in Sent : wire[i].val = "ready" => wire[i].id \in disk \cup late
  /\ \A r \in Reader : /\ reader[r].stage = "rm" => reader[r].id \in late
                       /\ reader[r].stage = "read" => reader[r].id \in disk \cup late

\* An export nobody was told of is nowhere, and a request is about an export.
UntoldIsNowhere ==
  /\ \A e \in Export : told[e] = "none" =>
       /\ mem[e] = "none" /\ redis[e] = "none" /\ gen[e] = "none"
       /\ \A i \in Sent : wire[i].id # e
       /\ \A r \in Reader : reader[r].id = e => reader[r].stage = "idle"
  /\ \A r \in Reader : reader[r].stage # "idle" => reader[r].id \in Export

\* While an export is generated memory answers for it: no request awaits and Redis has
\* nothing but running copies.
GenerationIsAlone ==
  \A e \in Export :
    /\ mem[e] \in Running => gen[e] # "none"
    /\ gen[e] # "none" =>
         /\ mem[e] = "processing" /\ told[e] = "processing" /\ redis[e] \in Running \cup {"none"}
         /\ \A i \in Sent : wire[i].id = e => wire[i].op = "set" /\ wire[i].val \in Running
         /\ \A r \in Reader : reader[r].id = e => reader[r].stage = "idle"

\* A get is of one request, about an export that memory has lost, and no ready copy is
\* behind it in the connection.
GetsAreLate ==
  /\ \A i \in Sent : wire[i].op = "get" =>
       /\ wire[i].val = "none" /\ wire[i].by \in Reader
       /\ reader[wire[i].by].stage = "get" /\ reader[wire[i].by].id = wire[i].id
       /\ mem[wire[i].id] \in {"none", "failed"}
       /\ \A j \in Sent : j > i /\ wire[j].id = wire[i].id => wire[j].val # "ready"
  /\ \A i, j \in Sent : wire[i].op = "get" /\ wire[j].op = "get" /\ wire[i].by = wire[j].by => i = j

\* An export ends in one way.
Succeeded(e) ==
  "ready" \in {mem[e], redis[e]} \/ \E i \in Sent : wire[i].id = e /\ wire[i].val = "ready"
Broken(e) ==
  \/ "failed" \in {mem[e], redis[e], told[e]}
  \/ \E i \in Sent : wire[i].id = e /\ wire[i].val = "failed"
  \/ \E r \in Reader : reader[r].stage = "persist" /\ reader[r].id = e
EndsOneWay == \A e \in Export : ~(Succeeded(e) /\ Broken(e))

\* With no rejected command the last write on its way is what memory holds, and with none
\* on its way the copy is.
Write(i, e) == wire[i].id = e /\ wire[i].op # "get"
LastWriteIsMemory ==
  \A e \in Export \ late : faults = 0 /\ mem[e] # "none" =>
    \/ \E i \in Sent : /\ Write(i, e) /\ wire[i].val = mem[e]
                       /\ \A j \in Sent : j > i => ~Write(j, e)
    \/ redis[e] = mem[e] /\ \A i \in Sent : ~Write(i, e)

IInv ==
  /\ TypeOK
  /\ ReadyHasItsFile
  /\ UntoldIsNowhere
  /\ GenerationIsAlone
  /\ GetsAreLate
  /\ EndsOneWay
  /\ LastWriteIsMemory

\* The service starts with no export at all.
LEMMA Initially == Init => IInv
<1> SUFFICES ASSUME Init PROVE IInv
  OBVIOUS
<1>1. TypeOK
  BY BoundsAssumption DEF Init, TypeOK, Known, Status, Running, Request, Idle, Stage
<1>2. Sent = {} /\ \A r \in Reader : reader[r].stage = "idle"
  BY DEF Init, Sent, Idle
<1>3. ReadyHasItsFile /\ UntoldIsNowhere /\ GenerationIsAlone /\ GetsAreLate /\ EndsOneWay /\ LastWriteIsMemory
  BY <1>2 DEF Init, ReadyHasItsFile, UntoldIsNowhere, GenerationIsAlone, GetsAreLate, EndsOneWay, Succeeded, Broken,
              LastWriteIsMemory, Running
<1> QED
  BY <1>1, <1>3 DEF IInv

-----------------------------------------------------------------------------
(* The connection                                                          *)

\* A command that is appended comes after the ones that are there.
LEMMA Appended ==
  ASSUME TypeOK, NEW c \in Command, wire' = Append(wire, c)
  PROVE  /\ wire' \in Seq(Command)
         /\ Len(wire) \in Nat /\ Len(wire') = Len(wire) + 1
         /\ wire'[Len(wire) + 1] = c
         /\ \A i \in Sent : i \in Sent' /\ wire'[i] = wire[i]
         /\ \A i \in Sent' : i \in Sent \/ i = Len(wire) + 1
         /\ \A i \in Sent : wire[i] \in Command
<1>1. wire \in Seq(Command)
  BY DEF TypeOK
<1> QED
  BY <1>1, AppendProperties, LenProperties, ElementOfSeq DEF Sent

\* An answer takes the first command away.
Shift ==
  /\ wire' \in Seq(Command)
  /\ 1 \in Sent /\ Head(wire) = wire[1] /\ wire[1] \in Command
  /\ \A i \in Sent' : i \in Nat /\ i + 1 \in Sent /\ wire'[i] = wire[i + 1]
  /\ \A i \in Sent : i \in Nat /\ (i # 1 => i - 1 \in Sent' /\ wire'[i - 1] = wire[i])

\* An answer shifts the commands that wait.
LEMMA Answered ==
  ASSUME TypeOK, wire # << >>, wire' = Tail(wire)
  PROVE  Shift
<1>1. wire \in Seq(Command)
  BY DEF TypeOK
<1>2. Len(wire) \in Nat \ {0} /\ Len(wire') = Len(wire) - 1 /\ wire' \in Seq(Command)
  BY <1>1, HeadTailProperties, EmptySeq
<1>3. \A i \in 1 .. Len(wire) : wire[i] \in Command
  BY <1>1, ElementOfSeq
<1>4. \A i \in 1 .. Len(wire') : wire'[i] = wire[i + 1]
  BY <1>1, HeadTailProperties
<1> QED
  BY <1>1, <1>2, <1>3, <1>4 DEF Sent, Shift

-----------------------------------------------------------------------------
(* The steps that leave the connection alone                               *)

\* A request moves on, or ends, and may tell its client a status.
LEMMA ReaderMoves ==
  ASSUME IInv, NEW r \in Reader, NEW e \in Export, NEW q \in Request, NEW s \in Status \cup {"404", "410"},
         reader' = [reader EXCEPT ![r] = q], told' \in {told, [told EXCEPT ![e] = s]},
         UNCHANGED <<mem, redis, disk, gen, wire, late, restarts, faults>>,
         reader[r].stage # "get", told[e] # "none",
         q.stage \in {"idle", "rm", "read"}, q.stage # "idle" => q.id = e,
         q.stage = "rm" => e \in late, q.stage = "read" => e \in disk \cup late,
         gen[e] # "none" => q.stage = "idle" /\ (told' = told \/ s = "processing"),
         s = "failed" => Broken(e)
  PROVE  IInv'
<1>1. reader \in [Reader -> Request] /\ told \in [Export -> Known \cup {"404", "410"}]
  BY DEF IInv, TypeOK
<1>2. \A p \in Reader : reader'[p] = IF p = r THEN q ELSE reader[p]
  BY <1>1
<1>3. \A d \in Export : told'[d] = told[d] \/ (d = e /\ told'[d] = s)
  BY <1>1
<1>4. reader' \in [Reader -> Request] /\ told' \in [Export -> Known \cup {"404", "410"}]
  <2>1. s \in Known \cup {"404", "410"}
    BY DEF Known
  <2>2. [told EXCEPT ![e] = s] \in [Export -> Known \cup {"404", "410"}]
    BY <1>1, <2>1
  <2> QED
    BY <1>1, <2>2
<1>5. TypeOK'
  BY <1>4 DEF IInv, TypeOK
<1>6. ReadyHasItsFile'
  BY <1>2 DEF IInv, ReadyHasItsFile, Sent
<1>7. UntoldIsNowhere'
  BY <1>2, <1>3 DEF IInv, UntoldIsNowhere, Sent, Status, Running
<1>8. GenerationIsAlone'
  BY <1>2, <1>3 DEF IInv, GenerationIsAlone, Sent
<1>9. GetsAreLate'
  BY <1>2 DEF IInv, GetsAreLate, Sent
<1>10. EndsOneWay'
  BY <1>2, <1>3 DEF IInv, EndsOneWay, Succeeded, Broken, Sent
<1>11. LastWriteIsMemory'
  BY DEF IInv, LastWriteIsMemory, Write, Sent
<1> QED
  BY <1>5, <1>6, <1>7, <1>8, <1>9, <1>10, <1>11 DEF IInv

\* What is left of a request about a job in a known status.
LEMMA Concluded ==
  ASSUME NEW r \in Reader, NEW e \in Export, NEW s \in Status, NEW kind \in {"status", "download"},
         s = "ready" => e \in disk \cup late, Conclude(r, kind, e, s)
  PROVE  \E q \in Request : /\ reader' = [reader EXCEPT ![r] = q]
                            /\ told' = told \/ (q.stage = "idle" /\ told' = [told EXCEPT ![e] = s])
                            /\ q.stage \in {"idle", "rm", "read"}
                            /\ q.stage # "idle" => q.id = e /\ s = "ready"
                            /\ q.stage = "rm" => e \in late
                            /\ q.stage = "read" => e \in disk \cup late
<1> DEFINE On(stage) == [stage |-> stage, kind |-> kind, id |-> e]
           Left(q) == /\ reader' = [reader EXCEPT ![r] = q]
                      /\ told' = told \/ (q.stage = "idle" /\ told' = [told EXCEPT ![e] = s])
                      /\ q.stage \in {"idle", "rm", "read"}
                      /\ q.stage # "idle" => q.id = e /\ s = "ready"
                      /\ q.stage = "rm" => e \in late
                      /\ q.stage = "read" => e \in disk \cup late
<1>1. Idle \in Request /\ On("rm") \in Request /\ On("read") \in Request
  BY DEF Idle, Request, Stage
<1>2. CASE Expired(e, s)
  <2>1. Left(On("rm"))
    BY <1>2 DEF Conclude, Expired
  <2> QED
    BY <1>1, <2>1
<1>3. CASE ~Expired(e, s)
  <2>1. \/ reader' = [reader EXCEPT ![r] = Idle] /\ (told' = told \/ told' = [told EXCEPT ![e] = s])
        \/ s = "ready" /\ reader' = [reader EXCEPT ![r] = On("read")] /\ told' = told /\ kind = "download"
    BY <1>3 DEF Conclude, Serve, Tell
  <2>2. Left(Idle) \/ Left(On("read"))
    BY <2>1 DEF Idle
  <2> QED
    BY <1>1, <2>2
<1> QED
  BY <1>2, <1>3

\* A request about a job that memory holds is answered at once.
LEMMA ArriveAnswered ==
  ASSUME IInv, NEW r \in Reader, NEW e \in Export, NEW kind \in {"status", "download"},
         Arrive(r, e, kind), mem[e] # "none"
  PROVE  IInv'
<1>1. mem[e] \in Status /\ Status \subseteq Status \cup {"404", "410"}
  BY DEF IInv, TypeOK, Known
<1>2. Conclude(r, kind, e, mem[e]) /\ UNCHANGED wire
  BY DEF Arrive
<1>3. mem[e] = "ready" => e \in disk \cup late
  BY DEF IInv, ReadyHasItsFile
<1>4. PICK q \in Request : /\ reader' = [reader EXCEPT ![r] = q]
                           /\ told' = told \/ (q.stage = "idle" /\ told' = [told EXCEPT ![e] = mem[e]])
                           /\ q.stage \in {"idle", "rm", "read"}
                           /\ q.stage # "idle" => q.id = e /\ mem[e] = "ready"
                           /\ q.stage = "rm" => e \in late
                           /\ q.stage = "read" => e \in disk \cup late
  BY <1>1, <1>2, <1>3, Concluded
<1>5. gen[e] # "none" => mem[e] = "processing"
  BY DEF IInv, GenerationIsAlone
<1>6. mem[e] = "failed" => Broken(e)
  BY DEF Broken
<1>7. UNCHANGED <<mem, redis, disk, gen, wire, late, restarts, faults>> /\ reader[r].stage # "get" /\ told[e] # "none"
  BY <1>2 DEF Arrive
<1>8. gen[e] # "none" => q.stage = "idle" /\ (told' = told \/ mem[e] = "processing")
  BY <1>4, <1>5
<1> QED
  BY <1>1, <1>4, <1>6, <1>7, <1>8, ReaderMoves

\* The other steps of a request that leave the connection alone.
LEMMA RequestEnds ==
  ASSUME IInv, NEW r \in Reader, Persisted(r) \/ Deleted(r) \/ Read(r)
  PROVE  IInv'
<1>1. Idle \in Request /\ Idle.stage = "idle"
  BY DEF Idle, Request, Stage
<1>2. /\ UNCHANGED <<mem, redis, disk, gen, wire, late, restarts, faults>>
      /\ reader[r].stage \in {"persist", "del", "read"}
  BY DEF Persisted, Deleted, Read
<1>3. PICK e \in Export : e = reader[r].id
  BY <1>2 DEF IInv, UntoldIsNowhere
<1>4. reader' = [reader EXCEPT ![r] = Idle]
  BY DEF Persisted, Deleted, Read, Serve, Tell
<1>5. told[e] # "none" /\ gen[e] = "none"
  BY <1>2, <1>3 DEF IInv, UntoldIsNowhere, GenerationIsAlone
<1>6. PICK s \in {"failed", "410"} : told' \in {told, [told EXCEPT ![e] = s]} /\ (s = "failed" => Broken(e))
  BY <1>3 DEF Persisted, Deleted, Read, Serve, Tell, Broken
<1>7. s \in Status \cup {"404", "410"}
  BY DEF Status
<1> QED
  BY <1>1, <1>2, <1>4, <1>5, <1>6, <1>7, ReaderMoves

\* The file is on disk before the status says so.
LEMMA WriteFilePreserves ==
  ASSUME IInv, NEW e \in Export, WriteFile(e)
  PROVE  IInv'
<1>1. TypeOK'
  BY DEF WriteFile, IInv, TypeOK
<1>2. \A d \in Export : gen[d] \in {"none", "first", "written"} /\ gen'[d] = IF d = e THEN "written" ELSE gen[d]
  BY DEF WriteFile, IInv, TypeOK
<1>3. gen[e] = "first" /\ disk' = disk \cup {e} /\ UNCHANGED <<mem, redis, wire, reader, late, told, faults>>
  BY DEF WriteFile
<1>4. ReadyHasItsFile'
  BY <1>2, <1>3 DEF IInv, ReadyHasItsFile, Sent
<1>5. UntoldIsNowhere'
  BY <1>2, <1>3 DEF IInv, UntoldIsNowhere, Sent
<1>6. GenerationIsAlone'
  BY <1>2, <1>3 DEF IInv, GenerationIsAlone, Sent
<1>7. GetsAreLate' /\ EndsOneWay' /\ LastWriteIsMemory'
  BY <1>3 DEF IInv, GetsAreLate, EndsOneWay, Succeeded, Broken, LastWriteIsMemory, Write, Sent
<1> QED
  BY <1>1, <1>4, <1>5, <1>6, <1>7 DEF IInv

\* A client that lists is told what memory holds.
LEMMA ListPreserves ==
  ASSUME IInv, List
  PROVE  IInv'
<1>1. UNCHANGED <<mem, redis, disk, gen, wire, reader, late, restarts, faults>>
  BY DEF List
<1>2. mem \in [Export -> Known] /\ told \in [Export -> Known \cup {"404", "410"}]
  BY DEF IInv, TypeOK
<1>3. \A e \in Export : told'[e] = told[e] \/ (mem[e] # "none" /\ told'[e] = mem[e])
  BY DEF List
<1>4. told' \in [Export -> Known \cup {"404", "410"}]
  BY <1>2 DEF List
<1>5. TypeOK'
  BY <1>1, <1>4 DEF IInv, TypeOK
<1>6. UntoldIsNowhere'
  BY <1>1, <1>3 DEF IInv, UntoldIsNowhere, Sent
<1>7. GenerationIsAlone'
  BY <1>1, <1>3 DEF IInv, GenerationIsAlone, Sent
<1>8. EndsOneWay'
  BY <1>1, <1>3 DEF IInv, EndsOneWay, Succeeded, Broken, Sent
<1>9. ReadyHasItsFile' /\ GetsAreLate' /\ LastWriteIsMemory'
  BY <1>1 DEF IInv, ReadyHasItsFile, GetsAreLate, LastWriteIsMemory, Write, Sent
<1> QED
  BY <1>5, <1>6, <1>7, <1>8, <1>9 DEF IInv

\* Time passes, in the API or in Redis.
LEMMA ExpiryPreserves ==
  ASSUME IInv, NEW e \in Export, Expire(e) \/ RedisExpires(e)
  PROVE  IInv'
<1>1. UNCHANGED <<mem, disk, gen, wire, reader, told, restarts, faults>>
  BY DEF Expire, RedisExpires
<1>2. e \in late' /\ late \subseteq late' /\ late' \subseteq Export
  BY DEF Expire, RedisExpires, IInv, TypeOK
<1>3. \A d \in Export : redis'[d] = redis[d] \/ (d = e /\ redis'[d] = "none")
  BY DEF Expire, RedisExpires, IInv, TypeOK
<1>4. TypeOK'
  BY <1>1, <1>2 DEF Expire, RedisExpires, IInv, TypeOK, Known
<1>5. ReadyHasItsFile'
  BY <1>1, <1>2, <1>3 DEF IInv, ReadyHasItsFile, Sent
<1>6. UntoldIsNowhere'
  BY <1>1, <1>3 DEF IInv, UntoldIsNowhere, Sent
<1>7. GenerationIsAlone'
  BY <1>1, <1>3 DEF IInv, GenerationIsAlone, Sent
<1>8. EndsOneWay'
  BY <1>1, <1>3 DEF IInv, EndsOneWay, Succeeded, Broken, Sent
<1>9. LastWriteIsMemory'
  BY <1>1, <1>2, <1>3 DEF IInv, LastWriteIsMemory, Write, Sent
<1>10. GetsAreLate'
  BY <1>1 DEF IInv, GetsAreLate, Sent
<1> QED
  BY <1>4, <1>5, <1>6, <1>7, <1>8, <1>9, <1>10 DEF IInv

\* A restart forgets all but the disk and Redis.
LEMMA RestartPreserves ==
  ASSUME IInv, Restart
  PROVE  IInv'
<1>1. UNCHANGED <<redis, disk, late, told, faults>> /\ Sent' = {}
  BY DEF Restart, Sent
<1>2. \A e \in Export : mem'[e] = "none" /\ gen'[e] = "none"
  BY DEF Restart
<1>3. \A r \in Reader : reader'[r].stage = "idle"
  BY DEF Restart, Idle
<1>4. TypeOK'
  BY BoundsAssumption DEF Restart, IInv, TypeOK, Known, Request, Idle, Stage
<1>5. ReadyHasItsFile' /\ UntoldIsNowhere'
  BY <1>1, <1>2, <1>3 DEF IInv, ReadyHasItsFile, UntoldIsNowhere
<1>6. GenerationIsAlone' /\ GetsAreLate' /\ LastWriteIsMemory'
  BY <1>1, <1>2, <1>3 DEF GenerationIsAlone, GetsAreLate, LastWriteIsMemory, Running
<1>7. EndsOneWay'
  BY <1>1, <1>2, <1>3 DEF IInv, EndsOneWay, Succeeded, Broken
<1> QED
  BY <1>4, <1>5, <1>6, <1>7 DEF IInv

-----------------------------------------------------------------------------
(* The steps that send a command                                           *)

\* A generation ends with the status in memory and its copy behind all other commands.
LEMMA GenerationEnds ==
  ASSUME IInv, NEW e \in Export, Finish(e) \/ Fail(e)
  PROVE  IInv'
<1>1. PICK s \in {"ready", "failed"} :
        /\ gen[e] \in {"first", "written"} /\ (s = "ready" => gen[e] = "written")
        /\ mem' = [mem EXCEPT ![e] = s] /\ gen' = [gen EXCEPT ![e] = "none"]
        /\ wire' = Append(wire, Set(e, s, Gen))
  BY DEF Finish, Fail
<1>2. UNCHANGED <<redis, reader, late, told, restarts, faults>> /\ disk \subseteq disk' /\ disk' \subseteq Export
  BY DEF Finish, Fail, IInv, TypeOK
<1>3. Set(e, s, Gen) \in Command /\ s \in Known
  BY DEF Set, Command, Known, Status
<1>4. /\ wire' \in Seq(Command) /\ Len(wire) \in Nat /\ Len(wire') = Len(wire) + 1
      /\ wire'[Len(wire) + 1] = Set(e, s, Gen)
      /\ \A i \in Sent : i \in Sent' /\ wire'[i] = wire[i]
      /\ \A i \in Sent' : i \in Sent \/ i = Len(wire) + 1
      /\ \A i \in Sent : wire[i].id \in Export
  BY <1>1, <1>3, Appended DEF IInv, Command
<1>5. \A d \in Export : mem'[d] = (IF d = e THEN s ELSE mem[d]) /\ gen'[d] = (IF d = e THEN "none" ELSE gen[d])
  BY <1>1 DEF IInv, TypeOK
<1>6. Len(wire) + 1 \in Sent' /\ \A i \in Sent' : i \in Int /\ (i # Len(wire) + 1 => i < Len(wire) + 1)
  BY <1>4 DEF Sent
<1>7. /\ mem[e] = "processing" /\ told[e] = "processing" /\ redis[e] \in Running \cup {"none"}
      /\ \A i \in Sent : wire[i].id = e => wire[i].op = "set" /\ wire[i].val \in Running
      /\ \A r \in Reader : reader[r].id = e => reader[r].stage = "idle"
  BY <1>1 DEF IInv, GenerationIsAlone
<1>8. wire'[Len(wire) + 1].id = e /\ wire'[Len(wire) + 1].op = "set" /\ wire'[Len(wire) + 1].val = s
  BY <1>4 DEF Set
<1>9. TypeOK'
  <2>1. mem' \in [Export -> Known] /\ gen' \in [Export -> {"none", "first", "written"}]
    BY <1>1, <1>3 DEF IInv, TypeOK
  <2> QED
    BY <1>2, <1>4, <2>1 DEF IInv, TypeOK
<1>10. ReadyHasItsFile'
  <2>1. s = "ready" => e \in disk \cup late
    BY <1>1 DEF IInv, ReadyHasItsFile
  <2> QED
    BY <1>2, <1>4, <1>5, <1>8, <2>1 DEF IInv, ReadyHasItsFile
<1>11. UntoldIsNowhere'
  BY <1>2, <1>4, <1>5, <1>7, <1>8 DEF IInv, UntoldIsNowhere
<1>12. GenerationIsAlone'
  BY <1>2, <1>4, <1>5, <1>8 DEF IInv, GenerationIsAlone, Running
<1>13. GetsAreLate'
  <2>1. \A i \in Sent' : wire'[i].op = "get" => i \in Sent /\ wire[i].id # e
    BY <1>4, <1>7, <1>8
  <2>2. \A i, j \in Sent' : wire'[i].op = "get" /\ j > i /\ wire'[j].id = wire'[i].id => j \in Sent
    BY <1>4, <1>8, <2>1
  <2> QED
    BY <1>2, <1>4, <1>5, <2>1, <2>2 DEF IInv, GetsAreLate
<1>14. EndsOneWay'
  BY <1>2, <1>4, <1>5, <1>7, <1>8 DEF IInv, EndsOneWay, Succeeded, Broken, Running
<1>15. LastWriteIsMemory'
  <2> SUFFICES ASSUME NEW d \in Export \ late, faults = 0, mem'[d] # "none"
               PROVE  \/ \E i \in Sent' : /\ Write(i, d)' /\ wire'[i].val = mem'[d]
                                          /\ \A j \in Sent' : j > i => ~Write(j, d)'
                      \/ redis[d] = mem'[d] /\ \A i \in Sent' : ~Write(i, d)'
    BY <1>2 DEF LastWriteIsMemory
  <2>1. CASE d = e
    BY <1>4, <1>5, <1>6, <1>8, <2>1 DEF Write
  <2>2. CASE d # e
    <3>1. \A i \in Sent' : Write(i, d)' <=> i \in Sent /\ Write(i, d)
      BY <1>4, <1>8, <2>2 DEF Write
    <3> QED
      BY <1>4, <1>5, <2>2, <3>1 DEF IInv, LastWriteIsMemory
  <2> QED
    BY <2>1, <2>2
<1> QED
  BY <1>9, <1>10, <1>11, <1>12, <1>13, <1>14, <1>15 DEF IInv

\* A new export sends two running copies.
LEMMA CreatePreserves ==
  ASSUME IInv, NEW e \in Export, Create(e)
  PROVE  IInv'
<1> DEFINE n == Len(wire)
           two == <<Set(e, "queued", Gen), Set(e, "processing", Gen)>>
<1>1. wire \in Seq(Command) /\ two \in Seq(Command)
  BY DEF IInv, TypeOK, Set, Command, Known, Status, Running
<1>2. /\ wire' \in Seq(Command) /\ n \in Nat /\ Len(wire') = n + 2
      /\ wire'[n + 1] = Set(e, "queued", Gen) /\ wire'[n + 2] = Set(e, "processing", Gen)
      /\ \A i \in Sent : i \in Sent' /\ wire'[i] = wire[i] /\ wire[i].id \in Export
      /\ \A i \in Sent' : i \in Sent \/ i = n + 1 \/ i = n + 2
  <2>1. wire' = wire \o two
    BY DEF Create
  <2>2. wire' \in Seq(Command) /\ Len(wire') = n + 2 /\ n \in Nat
    BY <1>1, <2>1, ConcatProperties, LenProperties
  <2>3. \A i \in 1 .. n + 2 : wire'[i] = IF i <= n THEN wire[i] ELSE two[i - n]
    BY <1>1, <2>1, ConcatProperties, LenProperties
  <2>4. \A i \in 1 .. n : wire[i] \in Command
    BY <1>1, ElementOfSeq
  <2> QED
    BY <2>2, <2>3, <2>4 DEF Sent, Command
<1>3. UNCHANGED <<redis, disk, reader, late, restarts, faults>>
  BY DEF Create
<1>4. \A d \in Export : /\ mem'[d] = (IF d = e THEN "processing" ELSE mem[d])
                        /\ gen'[d] = (IF d = e THEN "first" ELSE gen[d])
                        /\ told'[d] = (IF d = e THEN "processing" ELSE told[d])
  BY DEF Create, IInv, TypeOK
<1>5. /\ mem[e] = "none" /\ redis[e] = "none" /\ gen[e] = "none"
      /\ \A i \in Sent : wire[i].id # e
      /\ \A r \in Reader : reader[r].id = e => reader[r].stage = "idle"
  BY DEF Create, IInv, UntoldIsNowhere
<1>6. /\ wire'[n + 1].id = e /\ wire'[n + 1].op = "set" /\ wire'[n + 1].val = "queued"
      /\ wire'[n + 2].id = e /\ wire'[n + 2].op = "set" /\ wire'[n + 2].val = "processing"
  BY <1>2 DEF Set
<1>7. n + 2 \in Sent' /\ \A i \in Sent' : i \in Int /\ i <= n + 2
  BY <1>2 DEF Sent
<1>8. TypeOK'
  <2>1. /\ mem' \in [Export -> Known] /\ gen' \in [Export -> {"none", "first", "written"}]
        /\ told' \in [Export -> Known \cup {"404", "410"}]
    BY DEF Create, IInv, TypeOK, Known, Status, Running
  <2> QED
    BY <1>2, <1>3, <2>1 DEF IInv, TypeOK
<1> HIDE DEF two
<1>9. ReadyHasItsFile'
  BY <1>2, <1>3, <1>4, <1>6, <1>5 DEF IInv, ReadyHasItsFile
<1>10. UntoldIsNowhere'
  BY <1>2, <1>3, <1>4, <1>6 DEF IInv, UntoldIsNowhere
<1>11. GenerationIsAlone'
  BY <1>2, <1>3, <1>4, <1>5, <1>6 DEF IInv, GenerationIsAlone, Running
<1>12. GetsAreLate'
  <2>1. \A i \in Sent' : wire'[i].op = "get" => i \in Sent /\ wire[i].id # e
    BY <1>2, <1>5, <1>6
  <2>2. \A i, j \in Sent' : wire'[i].op = "get" /\ j > i /\ wire'[j].id = wire'[i].id => j \in Sent
    BY <1>2, <1>6, <2>1
  <2> QED
    BY <1>2, <1>3, <1>4, <2>1, <2>2 DEF IInv, GetsAreLate
<1>13. EndsOneWay'
  BY <1>2, <1>3, <1>4, <1>5, <1>6 DEF IInv, EndsOneWay, Succeeded, Broken
<1>14. LastWriteIsMemory'
  <2> SUFFICES ASSUME NEW d \in Export \ late, faults = 0, mem'[d] # "none"
               PROVE  \/ \E i \in Sent' : /\ Write(i, d)' /\ wire'[i].val = mem'[d]
                                          /\ \A j \in Sent' : j > i => ~Write(j, d)'
                      \/ redis[d] = mem'[d] /\ \A i \in Sent' : ~Write(i, d)'
    BY <1>3 DEF LastWriteIsMemory
  <2>1. CASE d = e
    BY <1>2, <1>4, <1>6, <1>7, <2>1 DEF Write
  <2>2. CASE d # e
    <3>1. \A i \in Sent' : Write(i, d)' <=> i \in Sent /\ Write(i, d)
      BY <1>2, <1>6, <2>2 DEF Write
    <3> QED
      BY <1>2, <1>4, <2>2, <3>1 DEF IInv, LastWriteIsMemory
  <2> QED
    BY <2>1, <2>2
<1> QED
  BY <1>8, <1>9, <1>10, <1>11, <1>12, <1>13, <1>14 DEF IInv

\* A request about a job that memory has not asks Redis.
LEMMA ArriveAsks ==
  ASSUME IInv, NEW r \in Reader, NEW e \in Export, NEW kind \in {"status", "download"},
         Arrive(r, e, kind), mem[e] = "none"
  PROVE  IInv'
<1> DEFINE n == Len(wire)
           q == [stage |-> "get", kind |-> kind, id |-> e]
<1>1. /\ UNCHANGED <<mem, redis, disk, gen, late, told, restarts, faults>>
      /\ reader' = [reader EXCEPT ![r] = q] /\ wire' = Append(wire, Get(e, r))
      /\ reader[r].stage = "idle" /\ told[e] # "none"
  BY DEF Arrive
<1>same. UNCHANGED <<mem, redis, disk, gen, late, told, faults>> /\ reader[r].stage = "idle" /\ told[e] # "none"
  BY <1>1
<1>2. Get(e, r) \in Command
  BY DEF Get, Command, Known
<1>3. /\ wire' \in Seq(Command) /\ n \in Nat /\ Len(wire') = n + 1
      /\ wire'[n + 1] = Get(e, r)
      /\ \A i \in Sent : i \in Sent' /\ wire'[i] = wire[i]
      /\ \A i \in Sent' : i \in Sent \/ i = n + 1
      /\ \A i \in Sent : wire[i].id \in Export
  BY <1>1, <1>2, Appended DEF IInv, Command
<1>4. \A p \in Reader : IF p = r THEN reader'[p].stage = "get" /\ reader'[p].id = e ELSE reader'[p] = reader[p]
  BY <1>1 DEF IInv, TypeOK
<1>5. n + 1 \in Sent' /\ \A i \in Sent' : i \in Int /\ (i # n + 1 => i < n + 1)
  BY <1>3 DEF Sent
<1>6. /\ wire'[n + 1].id = e /\ wire'[n + 1].op = "get" /\ wire'[n + 1].val = "none" /\ wire'[n + 1].by = r
  BY <1>3 DEF Get
<1>7. gen[e] = "none"
  BY DEF IInv, GenerationIsAlone, Arrive
<1>8. TypeOK'
  <2>1. q \in Request
    BY DEF Request, Stage
  <2>2. reader' \in [Reader -> Request]
    BY <1>1, <2>1 DEF IInv, TypeOK
  <2> QED
    BY <1>1, <1>3, <2>2 DEF IInv, TypeOK
<1> HIDE DEF q
<1>9. ReadyHasItsFile'
  BY <1>same, <1>3, <1>4, <1>6 DEF IInv, ReadyHasItsFile
<1>10. UntoldIsNowhere'
  BY <1>same, <1>3, <1>4, <1>6 DEF IInv, UntoldIsNowhere
<1>11. GenerationIsAlone'
  BY <1>same, <1>3, <1>4, <1>6, <1>7 DEF IInv, GenerationIsAlone
<1>12. GetsAreLate'
  <2>1. \A i \in Sent : wire[i].op = "get" => wire[i].by # r
    BY <1>same DEF IInv, GetsAreLate
  <2>2. \A i, j \in Sent' : wire'[i].op = "get" /\ wire'[j].op = "get" /\ wire'[i].by = wire'[j].by => i = j
    BY <1>3, <1>6, <2>1 DEF IInv, GetsAreLate
  <2>3. ASSUME NEW i \in Sent', wire'[i].op = "get"
        PROVE  /\ wire'[i].val = "none" /\ wire'[i].by \in Reader
               /\ reader'[wire'[i].by].stage = "get" /\ reader'[wire'[i].by].id = wire'[i].id
               /\ mem'[wire'[i].id] \in {"none", "failed"}
               /\ \A j \in Sent' : j > i /\ wire'[j].id = wire'[i].id => wire'[j].val # "ready"
    <3>1. CASE i = n + 1
      BY <1>same, <1>4, <1>5, <1>6, <3>1
    <3>2. CASE i \in Sent
      BY <1>same, <1>3, <1>4, <1>6, <2>1, <2>3, <3>2 DEF IInv, GetsAreLate
    <3> QED
      BY <1>3, <3>1, <3>2
  <2> QED
    BY <2>2, <2>3 DEF GetsAreLate
<1>13. EndsOneWay'
  BY <1>same, <1>3, <1>4, <1>6 DEF IInv, EndsOneWay, Succeeded, Broken
<1>14. LastWriteIsMemory'
  <2>1. \A d \in Export, i \in Sent' : Write(i, d)' <=> i \in Sent /\ Write(i, d)
    BY <1>3, <1>6 DEF Write
  <2> QED
    BY <1>same, <1>3, <2>1 DEF IInv, LastWriteIsMemory
<1> QED
  BY <1>8, <1>9, <1>10, <1>11, <1>12, <1>13, <1>14 DEF IInv

\* The file of an expired job is gone: so is the job, and its key is deleted.
LEMMA RemovedPreserves ==
  ASSUME IInv, NEW r \in Reader, Removed(r)
  PROVE  IInv'
<1> DEFINE n == Len(wire)
<1>1. PICK e \in Export : e = reader[r].id
  BY DEF Removed, IInv, UntoldIsNowhere
<1>2. /\ UNCHANGED <<redis, gen, late, told, restarts, faults>> /\ disk' = disk \ {e}
      /\ mem' = [mem EXCEPT ![e] = "none"] /\ wire' = Append(wire, Del(e, r))
      /\ reader' = [reader EXCEPT ![r].stage = "del"] /\ reader[r].stage = "rm"
  BY <1>1 DEF Removed, Await
<1>same. UNCHANGED <<redis, gen, late, told, faults>> /\ disk' = disk \ {e} /\ reader[r].stage = "rm"
  BY <1>2
<1>3. Del(e, r) \in Command
  BY DEF Del, Command, Known
<1>4. /\ wire' \in Seq(Command) /\ n \in Nat /\ Len(wire') = n + 1
      /\ wire'[n + 1] = Del(e, r)
      /\ \A i \in Sent : i \in Sent' /\ wire'[i] = wire[i]
      /\ \A i \in Sent' : i \in Sent \/ i = n + 1
      /\ \A i \in Sent : wire[i].id \in Export
  BY <1>2, <1>3, Appended DEF IInv, Command
<1>5. \A p \in Reader : /\ reader'[p].id = reader[p].id
                        /\ reader'[p].stage = IF p = r THEN "del" ELSE reader[p].stage
  BY <1>2 DEF IInv, TypeOK, Request
<1>6. e \in late /\ gen[e] = "none" /\ told[e] # "none"
  BY <1>1, <1>2 DEF IInv, ReadyHasItsFile, GenerationIsAlone, UntoldIsNowhere
<1>7. wire'[n + 1].id = e /\ wire'[n + 1].op = "del" /\ wire'[n + 1].val = "none"
  BY <1>4 DEF Del
<1>8. \A d \in Export : mem'[d] = IF d = e THEN "none" ELSE mem[d]
  BY <1>2 DEF IInv, TypeOK
<1>9. TypeOK'
  <2>1. mem' \in [Export -> Known] /\ disk' \subseteq Export
    BY <1>2 DEF IInv, TypeOK, Known
  <2>2. reader' \in [Reader -> Request]
    BY <1>2 DEF IInv, TypeOK, Request, Stage
  <2> QED
    BY <1>2, <1>4, <2>1, <2>2 DEF IInv, TypeOK
<1>10. ReadyHasItsFile'
  <2>1. \A d \in Export : "ready" \in {mem'[d], redis'[d]} \/ gen'[d] = "written" => d \in disk' \cup late'
    BY <1>2, <1>6, <1>8 DEF IInv, ReadyHasItsFile
  <2>2. \A i \in Sent' : wire'[i].val = "ready" => wire'[i].id \in disk' \cup late'
    BY <1>2, <1>4, <1>6, <1>7 DEF IInv, ReadyHasItsFile
  <2>3. \A p \in Reader : /\ reader'[p].stage = "rm" => reader'[p].id \in late'
                          /\ reader'[p].stage = "read" => reader'[p].id \in disk' \cup late'
    BY <1>2, <1>5, <1>6 DEF IInv, ReadyHasItsFile
  <2> QED
    BY <2>1, <2>2, <2>3 DEF ReadyHasItsFile
<1>11. UntoldIsNowhere'
  BY <1>1, <1>same, <1>4, <1>5, <1>6, <1>7, <1>8 DEF IInv, UntoldIsNowhere
<1>12. GenerationIsAlone'
  BY <1>same, <1>4, <1>5, <1>6, <1>7, <1>8 DEF IInv, GenerationIsAlone, Running
<1>13. GetsAreLate'
  <2>1. \A i \in Sent' : wire'[i].op = "get" => i \in Sent /\ wire[i].by # r
    BY <1>2, <1>4, <1>7 DEF IInv, GetsAreLate
  <2>2. \A i \in Sent' : wire'[i].val = "ready" => i \in Sent
    BY <1>4, <1>7
  <2> QED
    BY <1>4, <1>5, <1>8, <2>1, <2>2 DEF IInv, GetsAreLate
<1>14. EndsOneWay'
  BY <1>same, <1>4, <1>5, <1>7, <1>8 DEF IInv, EndsOneWay, Succeeded, Broken
<1>15. LastWriteIsMemory'
  <2>1. \A d \in Export \ late, i \in Sent' : Write(i, d)' <=> i \in Sent /\ Write(i, d)
    BY <1>4, <1>6, <1>7 DEF Write
  <2> QED
    BY <1>same, <1>4, <1>6, <1>8, <2>1 DEF IInv, LastWriteIsMemory
<1> QED
  BY <1>9, <1>10, <1>11, <1>12, <1>13, <1>14, <1>15 DEF IInv

-----------------------------------------------------------------------------
(* The steps that answer a command                                         *)

\* What is behind the first command stays behind it.
LEMMA GetsShift ==
  ASSUME Shift, GetsAreLate, UNCHANGED mem,
         \A p \in Reader : reader'[p] = reader[p] \/ (wire[1].op = "get" /\ p = wire[1].by)
  PROVE  GetsAreLate'
<1>1. 1 \in Sent
  BY DEF Shift
<1>2. \A i \in Sent' : i \in Nat /\ i + 1 \in Sent /\ wire'[i] = wire[i + 1]
  BY DEF Shift
<1>3. ASSUME NEW i \in Sent', wire'[i].op = "get"
      PROVE  /\ wire'[i].val = "none" /\ wire'[i].by \in Reader
             /\ reader'[wire'[i].by].stage = "get" /\ reader'[wire'[i].by].id = wire'[i].id
             /\ mem'[wire'[i].id] \in {"none", "failed"}
             /\ \A j \in Sent' : j > i /\ wire'[j].id = wire'[i].id => wire'[j].val # "ready"
  <2>1. i + 1 \in Sent /\ wire[i + 1] = wire'[i] /\ \A j \in Sent' : j > i => j + 1 \in Sent /\ j + 1 > i + 1
    BY <1>2
  <2>2. wire[1].op = "get" => wire[1].by # wire'[i].by
    <3> SUFFICES ASSUME wire[1].op = "get", wire[1].by = wire[i + 1].by
                 PROVE  FALSE
      BY <2>1
    <3>1. wire[i + 1].op = "get"
      BY <1>3, <2>1
    <3>2. \A k \in Sent : wire[k].op = "get" /\ wire[k].by = wire[1].by => k = 1
      BY <1>1 DEF GetsAreLate
    <3>3. i + 1 = 1
      BY <2>1, <3>1, <3>2
    <3> QED
      BY <3>3 DEF Sent
  <2> QED
    BY <1>2, <1>3, <2>1, <2>2 DEF GetsAreLate
<1>4. ASSUME NEW i \in Sent', NEW j \in Sent', wire'[i].op = "get", wire'[j].op = "get", wire'[i].by = wire'[j].by
      PROVE  i = j
  <2>1. i + 1 = j + 1
    BY <1>2, <1>4 DEF GetsAreLate
  <2> QED
    BY <1>2, <2>1
<1> QED
  BY <1>3, <1>4 DEF GetsAreLate

\* A write is answered: it was applied or, when it is counted as a fault, may have been.
LEMMA WriteAnswered ==
  ASSUME IInv, Shift, NEW e \in Export, NEW s \in Known,
         wire[1].id = e, wire[1].val = s, wire[1].op # "get",
         \A d \in Export : redis'[d] = redis[d] \/ (d = e /\ redis'[d] = s),
         redis' \in [Export -> Known], faults' \in 0 .. MaxFaults,
         faults' = 0 => faults = 0 /\ redis'[e] = s,
         UNCHANGED <<mem, disk, gen, reader, late, told, restarts>>
  PROVE  IInv'
<1>1. 1 \in Sent
  BY DEF Shift
<1>2. \A i \in Sent' : i \in Nat /\ i + 1 \in Sent /\ wire'[i] = wire[i + 1]
  BY DEF Shift
<1>3. \A i \in Sent : i \in Nat /\ (i # 1 => i - 1 \in Sent' /\ wire'[i - 1] = wire[i])
  BY DEF Shift
<1>left. \A i \in Sent' : \E k \in Sent : wire'[i] = wire[k]
  BY <1>2
<1>4. TypeOK'
  BY DEF IInv, TypeOK, Shift
<1>5. ReadyHasItsFile'
  BY <1>1, <1>left DEF IInv, ReadyHasItsFile
<1>6. UntoldIsNowhere'
  BY <1>1, <1>left DEF IInv, UntoldIsNowhere
<1>7. GenerationIsAlone'
  BY <1>1, <1>left DEF IInv, GenerationIsAlone
<1>8. GetsAreLate'
  BY GetsShift DEF IInv
<1>9. EndsOneWay'
  BY <1>1, <1>left DEF IInv, EndsOneWay, Succeeded, Broken
<1>10. LastWriteIsMemory'
  <2> SUFFICES ASSUME NEW d \in Export \ late, faults' = 0, mem[d] # "none"
               PROVE  \/ \E i \in Sent' : /\ Write(i, d)' /\ wire'[i].val = mem[d]
                                          /\ \A j \in Sent' : j > i => ~Write(j, d)'
                      \/ redis'[d] = mem[d] /\ \A i \in Sent' : ~Write(i, d)'
    BY DEF LastWriteIsMemory
  <2>2. \A i \in Sent' : Write(i, d)' <=> Write(i + 1, d)
    BY <1>2 DEF Write
  <2>3. CASE \E i \in Sent : Write(i, d) /\ wire[i].val = mem[d] /\ \A j \in Sent : j > i => ~Write(j, d)
    <3>1. PICK i \in Sent : Write(i, d) /\ wire[i].val = mem[d] /\ \A j \in Sent : j > i => ~Write(j, d)
      BY <2>3
    <3>2. CASE i = 1
      <4>1. d = e /\ redis'[d] = mem[d]
        BY <3>1, <3>2 DEF Write
      <4>2. \A k \in Sent' : ~Write(k, d)'
        BY <1>2, <2>2, <3>1, <3>2 DEF Sent
      <4> QED
        BY <4>1, <4>2
    <3>3. CASE i # 1
      <4>1. i - 1 \in Sent' /\ Write(i - 1, d)' /\ wire'[i - 1].val = mem[d]
        BY <1>3, <3>1, <3>3 DEF Write
      <4>2. \A k \in Sent' : k > i - 1 => ~Write(k, d)'
        BY <1>2, <1>3, <2>2, <3>1
      <4> QED
        BY <4>1, <4>2
    <3> QED
      BY <3>2, <3>3
  <2>4. CASE redis[d] = mem[d] /\ \A i \in Sent : ~Write(i, d)
    <3>1. d # e
      BY <1>1, <2>4 DEF Write
    <3>2. \A i \in Sent' : ~Write(i, d)'
      BY <1>2, <2>2, <2>4
    <3> QED
      BY <2>4, <3>1, <3>2
  <2> QED
    BY <2>3, <2>4 DEF IInv, LastWriteIsMemory
<1> QED
  BY <1>4, <1>5, <1>6, <1>7, <1>8, <1>9, <1>10 DEF IInv

\* A get is answered and the request goes on, or ends.
LEMMA GetAnswered ==
  ASSUME IInv, Shift, NEW r \in Reader, NEW e \in Export, NEW q \in Request, NEW s \in Status \cup {"404"},
         wire[1].id = e, wire[1].op = "get", wire[1].by = r,
         reader' = [reader EXCEPT ![r] = q], told' = told \/ told' = [told EXCEPT ![e] = s],
         q.stage \in {"idle", "rm", "read"}, q.stage # "idle" => q.id = e,
         q.stage = "rm" => e \in late, q.stage = "read" => e \in disk \cup late,
         s = "failed" => Broken(e), faults' \in 0 .. MaxFaults, faults' = 0 => faults = 0,
         UNCHANGED <<mem, redis, disk, gen, late, restarts>>
  PROVE  IInv'
<1>1. 1 \in Sent
  BY DEF Shift
<1>2. \A i \in Sent' : i \in Nat /\ i + 1 \in Sent /\ wire'[i] = wire[i + 1]
  BY DEF Shift
<1>3. \A i \in Sent : i \in Nat /\ (i # 1 => i - 1 \in Sent' /\ wire'[i - 1] = wire[i])
  BY DEF Shift
<1>4. \A i \in Sent' : \E k \in Sent : wire'[i] = wire[k]
  BY <1>2
<1>5. told[e] # "none" /\ gen[e] = "none"
  BY <1>1 DEF IInv, UntoldIsNowhere, GenerationIsAlone
<1>6. reader \in [Reader -> Request] /\ told \in [Export -> Known \cup {"404", "410"}]
  BY DEF IInv, TypeOK
<1>7. \A p \in Reader : reader'[p] = IF p = r THEN q ELSE reader[p]
  BY <1>6
<1>8. \A d \in Export : told'[d] = told[d] \/ (d = e /\ told'[d] = s)
  BY <1>6
<1>9. TypeOK'
  <2>1. s \in Known \cup {"404", "410"}
    BY DEF Known
  <2>2. told' \in [Export -> Known \cup {"404", "410"}] /\ reader' \in [Reader -> Request]
    BY <1>6, <2>1
  <2> QED
    BY <2>2 DEF IInv, TypeOK, Shift
<1>10. ReadyHasItsFile'
  BY <1>4, <1>7 DEF IInv, ReadyHasItsFile
<1>11. UntoldIsNowhere'
  BY <1>4, <1>5, <1>7, <1>8 DEF IInv, UntoldIsNowhere, Status, Running
<1>12. GenerationIsAlone'
  BY <1>4, <1>5, <1>7, <1>8 DEF IInv, GenerationIsAlone
<1>13. GetsAreLate'
  BY <1>7, GetsShift DEF IInv
<1>14. EndsOneWay'
  BY <1>4, <1>7, <1>8 DEF IInv, EndsOneWay, Succeeded, Broken
<1>15. LastWriteIsMemory'
  <2> SUFFICES ASSUME NEW d \in Export \ late, faults = 0, mem[d] # "none"
               PROVE  \/ \E i \in Sent' : /\ Write(i, d)' /\ wire'[i].val = mem[d]
                                          /\ \A j \in Sent' : j > i => ~Write(j, d)'
                      \/ redis[d] = mem[d] /\ \A i \in Sent' : ~Write(i, d)'
    BY DEF LastWriteIsMemory
  <2>1. \A i \in Sent' : Write(i, d)' <=> Write(i + 1, d)
    BY <1>2 DEF Write
  <2>2. CASE \E i \in Sent : Write(i, d) /\ wire[i].val = mem[d] /\ \A j \in Sent : j > i => ~Write(j, d)
    <3>1. PICK i \in Sent : Write(i, d) /\ wire[i].val = mem[d] /\ \A j \in Sent : j > i => ~Write(j, d)
      BY <2>2
    <3>2. i # 1
      BY <3>1 DEF Write
    <3>3. i - 1 \in Sent' /\ Write(i - 1, d)' /\ wire'[i - 1].val = mem[d]
      BY <1>3, <3>1, <3>2 DEF Write
    <3>4. \A k \in Sent' : k > i - 1 => ~Write(k, d)'
      BY <1>2, <1>3, <2>1, <3>1
    <3> QED
      BY <3>3, <3>4
  <2>3. CASE redis[d] = mem[d] /\ \A i \in Sent : ~Write(i, d)
    BY <1>2, <2>1, <2>3
  <2> QED
    BY <2>2, <2>3 DEF IInv, LastWriteIsMemory
<1> QED
  BY <1>9, <1>10, <1>11, <1>12, <1>13, <1>14, <1>15 DEF IInv

\* An answer takes the first command away and sends c, which is the n-th now.
Turn(c, n) ==
  /\ wire' \in Seq(Command)
  /\ 1 \in Sent /\ n \in Sent' /\ wire'[n] = c
  /\ \A i \in Sent' : i \in Nat /\ (i # n => i < n /\ i + 1 \in Sent /\ wire'[i] = wire[i + 1])
  /\ \A i \in Sent : i \in Nat /\ (i # 1 => i - 1 \in Sent' /\ i - 1 # n /\ wire'[i - 1] = wire[i])

\* The command that an answer sends takes the last place.
LEMMA AnsweredInTurn ==
  ASSUME TypeOK, wire # << >>, NEW c \in Command, wire' = Append(Tail(wire), c)
  PROVE  Head(wire) = wire[1] /\ \E n \in Nat : Turn(c, n)
<1> DEFINE rest == Tail(wire)
           n == Len(wire)
<1>1. wire \in Seq(Command)
  BY DEF TypeOK
<1>2. n \in Nat \ {0} /\ Len(rest) = n - 1 /\ rest \in Seq(Command) /\ Head(wire) = wire[1]
  BY <1>1, HeadTailProperties, EmptySeq
<1>3. \A i \in 1 .. n - 1 : rest[i] = wire[i + 1]
  BY <1>1, <1>2, HeadTailProperties
<1> HIDE DEF rest
<1>4. wire' \in Seq(Command) /\ Len(wire') = n /\ wire'[n] = c /\ \A i \in 1 .. n - 1 : wire'[i] = rest[i]
  BY <1>2, AppendProperties DEF rest
<1>5. Turn(c, n)
  BY <1>2, <1>3, <1>4 DEF Sent, Turn
<1> QED
  BY <1>2, <1>5

\* A get finds a running copy: the job becomes a failed one, in memory and in the
\* command that is sent.
LEMMA RunningIsBroken ==
  ASSUME IInv, NEW r \in Reader, NEW e \in Export, NEW n \in Nat, Turn(Set(e, "failed", r), n),
         wire[1].op = "get", wire[1].by = r, wire[1].id = e, redis[e] \in Running,
         mem' = [mem EXCEPT ![e] = "failed"], reader' = [reader EXCEPT ![r].stage = "persist"],
         UNCHANGED <<redis, disk, gen, late, told, restarts, faults>>
  PROVE  IInv'
<1>1. 1 \in Sent
  BY DEF Turn
<1>2. \A i \in Sent' : i \in Nat /\ (i # n => i < n /\ i + 1 \in Sent /\ wire'[i] = wire[i + 1])
  BY DEF Turn
<1>3. \A i \in Sent : i \in Nat /\ (i # 1 => i - 1 \in Sent' /\ i - 1 # n /\ wire'[i - 1] = wire[i])
  BY DEF Turn
<1>4. n \in Sent' /\ wire'[n].id = e /\ wire'[n].op = "set" /\ wire'[n].val = "failed"
  BY DEF Turn, Set
<1>5. \A i \in Sent' : i = n \/ \E k \in Sent : k # 1 /\ wire'[i] = wire[k]
  <2>1. \A i \in Sent' : i # n => i + 1 # 1
    BY <1>2 DEF Sent
  <2> QED
    BY <1>2, <2>1
<1>6. /\ mem[e] \in {"none", "failed"} /\ told[e] # "none" /\ gen[e] = "none"
      /\ reader[r].stage = "get" /\ reader[r].id = e
      /\ \A k \in Sent : k # 1 /\ wire[k].id = e => wire[k].val # "ready"
  <2>1. \A k \in Sent : k # 1 => k > 1
    BY DEF Sent
  <2>2. told[e] # "none" /\ gen[e] = "none"
    BY <1>1 DEF IInv, UntoldIsNowhere, GenerationIsAlone
  <2> QED
    BY <1>1, <2>1, <2>2 DEF IInv, GetsAreLate
<1>7. \A p \in Reader : /\ reader'[p].id = reader[p].id
                        /\ reader'[p].stage = IF p = r THEN "persist" ELSE reader[p].stage
  BY DEF IInv, TypeOK, Request
<1>8. \A d \in Export : mem'[d] = IF d = e THEN "failed" ELSE mem[d]
  BY DEF IInv, TypeOK
<1>9. TypeOK'
  <2>1. mem \in [Export -> Known] /\ reader \in [Reader -> Request]
    BY DEF IInv, TypeOK
  <2>2. mem' \in [Export -> Known]
    BY <2>1 DEF Known, Status
  <2>3. reader' \in [Reader -> Request]
    BY <2>1 DEF Request, Stage
  <2> QED
    BY <2>2, <2>3 DEF IInv, TypeOK, Turn
<1>10. ReadyHasItsFile'
  BY <1>4, <1>5, <1>7, <1>8 DEF IInv, ReadyHasItsFile
<1>11. UntoldIsNowhere'
  BY <1>4, <1>5, <1>6, <1>7, <1>8 DEF IInv, UntoldIsNowhere
<1>12. GenerationIsAlone'
  BY <1>4, <1>5, <1>6, <1>7, <1>8 DEF IInv, GenerationIsAlone, Running
<1>13. EndsOneWay'
  <2>1. ~Succeeded(e)'
    BY <1>4, <1>5, <1>6, <1>8 DEF Succeeded, Running
  <2>2. \A d \in Export \ {e} : (Succeeded(d)' => Succeeded(d)) /\ (Broken(d)' => Broken(d))
    BY <1>4, <1>5, <1>6, <1>7, <1>8 DEF Succeeded, Broken
  <2> QED
    BY <2>1, <2>2 DEF IInv, EndsOneWay
<1>14. GetsAreLate'
  <2>1. \A i \in Sent' : wire'[i].op = "get" => i + 1 \in Sent /\ i + 1 > 1 /\ wire'[i] = wire[i + 1] /\ i # n
    BY <1>2, <1>4 DEF Sent
  <2>2. \A k \in Sent : k # 1 /\ wire[k].op = "get" => wire[k].by # r
    BY <1>1 DEF IInv, GetsAreLate
  <2>3. ASSUME NEW i \in Sent', wire'[i].op = "get"
        PROVE  /\ wire'[i].val = "none" /\ wire'[i].by \in Reader
               /\ reader'[wire'[i].by].stage = "get" /\ reader'[wire'[i].by].id = wire'[i].id
               /\ mem'[wire'[i].id] \in {"none", "failed"}
               /\ \A j \in Sent' : j > i /\ wire'[j].id = wire'[i].id => wire'[j].val # "ready"
    <3> DEFINE k == i + 1
    <3>1. k \in Sent /\ k # 1 /\ wire'[i] = wire[k] /\ wire[k].op = "get" /\ wire[k].by # r
      BY <2>1, <2>2, <2>3
    <3>2. wire[k].id \in Export
      <4>1. wire \in Seq(Command)
        BY DEF IInv, TypeOK
      <4>2. wire[k] \in Command
        BY <3>1, <4>1, ElementOfSeq DEF Sent
      <4> QED
        BY <4>2 DEF Command
    <3>3. \A j \in Sent' : j > i /\ j # n => j + 1 \in Sent /\ j + 1 > k /\ wire'[j] = wire[j + 1]
      BY <1>2
    <3> HIDE DEF k
    <3> QED
      BY <1>4, <1>7, <1>8, <3>1, <3>2, <3>3 DEF IInv, GetsAreLate
  <2>4. ASSUME NEW i \in Sent', NEW j \in Sent', wire'[i].op = "get", wire'[j].op = "get", wire'[i].by = wire'[j].by
        PROVE  i = j
    <3>1. i + 1 = j + 1
      BY <2>1, <2>4 DEF IInv, GetsAreLate
    <3> QED
      BY <1>2, <3>1
  <2> QED
    BY <2>3, <2>4 DEF GetsAreLate
<1>15. LastWriteIsMemory'
  <2> SUFFICES ASSUME NEW d \in Export \ late, faults = 0, mem'[d] # "none"
               PROVE  \/ \E i \in Sent' : /\ Write(i, d)' /\ wire'[i].val = mem'[d]
                                          /\ \A j \in Sent' : j > i => ~Write(j, d)'
                      \/ redis[d] = mem'[d] /\ \A i \in Sent' : ~Write(i, d)'
    BY DEF LastWriteIsMemory
  <2>1. CASE d = e
    <3>1. Write(n, d)' /\ wire'[n].val = mem'[d]
      BY <1>4, <1>8, <2>1 DEF Write
    <3>2. \A j \in Sent' : ~(j > n)
      BY <1>2, <1>4
    <3> QED
      BY <1>4, <3>1, <3>2
  <2>2. CASE d # e
    <3>1. \A i \in Sent' : Write(i, d)' => i # n /\ Write(i + 1, d)
      BY <1>2, <1>4, <2>2 DEF Write
    <3>2. CASE \E i \in Sent : Write(i, d) /\ wire[i].val = mem[d] /\ \A j \in Sent : j > i => ~Write(j, d)
      <4>1. PICK i \in Sent : Write(i, d) /\ wire[i].val = mem[d] /\ \A j \in Sent : j > i => ~Write(j, d)
        BY <3>2
      <4>2. i # 1
        BY <2>2, <4>1 DEF Write
      <4>3. i - 1 \in Sent' /\ Write(i - 1, d)' /\ wire'[i - 1].val = mem'[d]
        BY <1>3, <1>8, <2>2, <4>1, <4>2 DEF Write
      <4>4. \A k \in Sent' : k > i - 1 => ~Write(k, d)'
        BY <1>2, <1>3, <3>1, <4>1
      <4> QED
        BY <4>3, <4>4
    <3>3. CASE redis[d] = mem[d] /\ \A i \in Sent : ~Write(i, d)
      BY <1>2, <1>8, <2>2, <3>1, <3>3
    <3> QED
      BY <1>8, <2>2, <3>2, <3>3 DEF IInv, LastWriteIsMemory
  <2> QED
    BY <2>1, <2>2
<1> QED
  BY <1>9, <1>10, <1>11, <1>12, <1>13, <1>14, <1>15 DEF IInv

\* Redis rejects a command, which the caller takes for an answer.
LEMMA RejectPreserves ==
  ASSUME IInv, RedisRejects
  PROVE  IInv'
<1> DEFINE c == Head(wire)
<1>1. Shift /\ c = wire[1] /\ c \in Command
  BY Answered DEF RedisRejects, IInv, Shift
<1>2. /\ faults' \in 0 .. MaxFaults /\ faults' # 0
      /\ UNCHANGED <<mem, disk, gen, late, restarts>>
  BY BoundsAssumption DEF RedisRejects, IInv, TypeOK
<1>3. CASE c.op # "get" /\ redis' \in {redis, Written(c)} /\ UNCHANGED <<reader, told>>
  <2>1. PICK e \in Export, s \in Known : c.id = e /\ c.val = s
    BY <1>1 DEF Command
  <2>2. redis \in [Export -> Known] /\ redis' \in {redis, [redis EXCEPT ![e] = s]}
    BY <1>3, <2>1 DEF Written, IInv, TypeOK
  <2>3. redis' \in [Export -> Known] /\ \A d \in Export : redis'[d] = redis[d] \/ (d = e /\ redis'[d] = s)
    BY <2>2
  <2> HIDE DEF c
  <2> QED
    BY <1>1, <1>2, <1>3, <2>1, <2>3, WriteAnswered
<1>4. CASE c.op = "get" /\ Tell(c.by, c.id, "404") /\ UNCHANGED redis
  <2>1. c.by \in Reader /\ c.id \in Export
    BY <1>1, <1>4 DEF IInv, GetsAreLate, Shift, Command
  <2>2. Idle \in Request /\ Idle.stage = "idle"
    BY DEF Idle, Request, Stage
  <2>3. reader' = [reader EXCEPT ![c.by] = Idle] /\ told' = [told EXCEPT ![c.id] = "404"]
    BY <1>4 DEF Tell
  <2> HIDE DEF c
  <2> QED
    BY <1>1, <1>2, <1>4, <2>1, <2>2, <2>3, GetAnswered
<1> QED
  BY <1>3, <1>4 DEF RedisRejects

\* Redis answers a command.
LEMMA ReplyPreserves ==
  ASSUME IInv, RedisReplies
  PROVE  IInv'
<1> DEFINE c == Head(wire)
<1>1. c = wire[1] /\ c \in Command /\ wire # << >> /\ 1 \in Sent
  <2>1. wire \in Seq(Command) /\ wire # << >>
    BY DEF RedisReplies, IInv, TypeOK
  <2>2. Len(wire) \in Nat \ {0} /\ wire[1] = Head(wire)
    BY <2>1, HeadTailProperties, EmptySeq
  <2> QED
    BY <2>1, <2>2, ElementOfSeq DEF Sent
<1>2. UNCHANGED <<disk, gen, late, restarts, faults>> /\ faults \in 0 .. MaxFaults
  BY DEF RedisReplies, IInv, TypeOK
<1>3. redis \in [Export -> Known]
  BY DEF IInv, TypeOK
<1>4. CASE c.op # "get" /\ redis' = Written(c) /\ wire' = Tail(wire) /\ UNCHANGED <<mem, reader, told>>
  <2>1. PICK e \in Export, s \in Known : c.id = e /\ c.val = s
    BY <1>1 DEF Command
  <2>2. redis' \in [Export -> Known] /\ redis'[e] = s
        /\ \A d \in Export : redis'[d] = redis[d] \/ (d = e /\ redis'[d] = s)
    BY <1>3, <1>4, <2>1 DEF Written
  <2>3. Shift
    BY <1>1, <1>4, Answered DEF IInv
  <2> HIDE DEF c
  <2> QED
    BY <1>1, <1>2, <1>4, <2>1, <2>2, <2>3, WriteAnswered
<1>5. CASE c.op = "get" /\ Recover(c.by, c.id, redis[c.id]) /\ UNCHANGED redis
  <2>1. PICK r \in Reader, e \in Export : r = c.by /\ e = c.id
    BY <1>1, <1>5 DEF IInv, GetsAreLate, Command
  <2>2. PICK s \in Known : s = redis[e]
    BY <1>3
  <2>3. Recover(r, e, s)
    BY <1>5, <2>1, <2>2
  <2>4. Idle \in Request /\ Idle.stage = "idle"
    BY DEF Idle, Request, Stage
  <2>5. CASE s = "none" /\ Tell(r, e, "404") /\ wire' = Tail(wire) /\ UNCHANGED mem
    <3>1. reader' = [reader EXCEPT ![r] = Idle] /\ told' = [told EXCEPT ![e] = "404"]
      BY <2>5 DEF Tell
    <3>2. Shift
      BY <1>1, <2>5, Answered DEF IInv
    <3> HIDE DEF c
    <3> QED
      BY <1>1, <1>2, <1>5, <2>1, <2>4, <2>5, <3>1, <3>2, GetAnswered
  <2>6. CASE /\ s \in Running /\ mem' = [mem EXCEPT ![e] = "failed"]
             /\ wire' = Append(Tail(wire), Set(e, "failed", r)) /\ Await(r, "persist") /\ UNCHANGED told
    <3>1. Set(e, "failed", r) \in Command
      BY DEF Set, Command, Known, Status
    <3>2. PICK n \in Nat : Turn(Set(e, "failed", r), n)
      BY <1>1, <2>6, <3>1, AnsweredInTurn DEF IInv
    <3>3. reader' = [reader EXCEPT ![r].stage = "persist"]
      BY <2>6 DEF Await
    <3> HIDE DEF c
    <3> QED
      BY <1>1, <1>2, <1>5, <2>1, <2>2, <2>6, <3>2, <3>3, RunningIsBroken
  <2>7. CASE s \in {"ready", "failed"} /\ Conclude(r, reader[r].kind, e, s) /\ wire' = Tail(wire) /\ UNCHANGED mem
    <3>1. reader[r].kind \in {"status", "download"} /\ s \in Status
      BY <2>7 DEF IInv, TypeOK, Request, Status
    <3>2. s = "ready" => e \in disk \cup late
      BY <2>2 DEF IInv, ReadyHasItsFile
    <3>3. s = "failed" => Broken(e)
      BY <2>2 DEF Broken
    <3>4. PICK q \in Request : /\ reader' = [reader EXCEPT ![r] = q]
                               /\ told' = told \/ (q.stage = "idle" /\ told' = [told EXCEPT ![e] = s])
                               /\ q.stage \in {"idle", "rm", "read"}
                               /\ q.stage # "idle" => q.id = e /\ s = "ready"
                               /\ q.stage = "rm" => e \in late
                               /\ q.stage = "read" => e \in disk \cup late
      BY <2>7, <3>1, <3>2, Concluded
    <3>5. Shift
      BY <1>1, <2>7, Answered DEF IInv
    <3> HIDE DEF c
    <3> QED
      BY <1>1, <1>2, <1>5, <2>1, <2>7, <3>1, <3>3, <3>4, <3>5, GetAnswered
  <2> QED
    BY <2>3, <2>5, <2>6, <2>7 DEF Recover
<1> QED
  BY <1>4, <1>5 DEF RedisReplies

-----------------------------------------------------------------------------
(* The theorems                                                            *)

\* The invariant is inductive.
LEMMA StepPreserves ==
  ASSUME IInv, [Next]_vars
  PROVE  IInv'
<1>1. CASE UNCHANGED vars
  BY <1>1 DEF vars, IInv, TypeOK, ReadyHasItsFile, UntoldIsNowhere, GenerationIsAlone, GetsAreLate, EndsOneWay,
              Succeeded, Broken, LastWriteIsMemory, Write, Sent
<1>2. CASE \E e \in Export : Create(e) \/ WriteFile(e) \/ Finish(e) \/ Fail(e) \/ Expire(e) \/ RedisExpires(e)
  BY <1>2, CreatePreserves, WriteFilePreserves, GenerationEnds, ExpiryPreserves
<1>3. CASE \E e \in Export, r \in Reader, kind \in {"status", "download"} : Arrive(r, e, kind)
  BY <1>3, ArriveAnswered, ArriveAsks
<1>4. CASE \E r \in Reader : Continue(r)
  BY <1>4, RequestEnds, RemovedPreserves DEF Continue
<1>5. CASE List \/ Restart
  BY <1>5, ListPreserves, RestartPreserves
<1>6. CASE RedisReplies \/ RedisRejects
  BY <1>6, ReplyPreserves, RejectPreserves
<1> QED
  BY <1>1, <1>2, <1>3, <1>4, <1>5, <1>6 DEF Next

\* The variables keep their types and the parts of the invariant hold.
THEOREM ExportInvariance == Spec => []IInv
<1> QED
  BY Initially, StepPreserves, PTL DEF Spec

\* A ready export has its file until its TTL: what a restart, a lost copy or another
\* request does between two awaits never leaves a status without it.
THEOREM ReadyDownloadable == Spec => []ReadyIsDownloadable
<1>1. IInv => ReadyIsDownloadable
  BY DEF IInv, ReadyHasItsFile, ReadyIsDownloadable
<1> QED
  BY <1>1, ExportInvariance, PTL

\* A download that passed its checks finds its file or the TTL passed meanwhile.
THEOREM DownloadFindsFile == Spec => []DownloadBreaksOnlyPastTTL
<1>1. IInv => DownloadBreaksOnlyPastTTL
  BY DEF IInv, ReadyHasItsFile, DownloadBreaksOnlyPastTTL
<1> QED
  BY <1>1, ExportInvariance, PTL

\* With no rejected command the copy in Redis is what memory holds once the writes of
\* the export are answered.
THEOREM RedisIsMemory == Spec => []RedisMirrorsMemory
<1>1. IInv => RedisMirrorsMemory
  <2>1. ASSUME IInv PROVE DOMAIN wire = Sent /\ faults \in Nat
    BY <2>1, LenProperties, BoundsAssumption DEF IInv, TypeOK, Sent
  <2> SUFFICES ASSUME IInv, NEW e \in Export, ~(faults > 0), mem[e] # "none", e \notin late,
                      ~\E i \in Sent : Write(i, e)
               PROVE  redis[e] = mem[e]
    BY <2>1 DEF RedisMirrorsMemory, Write
  <2>2. faults = 0
    BY <2>1
  <2> QED
    BY <2>2 DEF IInv, LastWriteIsMemory
<1> QED
  BY <1>1, ExportInvariance, PTL

\* Where the status a client is told comes from.
Source(e) ==
  \/ told'[e] = told[e]
  \/ told'[e] \in {"404", "410", "failed"}
  \/ told[e] = "none" /\ told'[e] = "processing"
  \/ mem[e] # "none" /\ told'[e] = mem[e]
  \/ redis[e] = "ready" /\ told'[e] = "ready"

\* Nothing else is ever told.
LEMMA ToldFromSource ==
  ASSUME IInv, [Next]_vars
  PROVE  \A e \in Export : Source(e)
<1>1. told \in [Export -> Known \cup {"404", "410"}]
  BY DEF IInv, TypeOK
<1>2. CASE told' = told
  BY <1>2 DEF Source
<1>3. CASE \E e \in Export : Create(e)
  BY <1>1, <1>3 DEF Create, Source
<1>4. CASE List
  BY <1>4 DEF List, Source
<1>5. ASSUME NEW r \in Reader, NEW e \in Export, NEW kind \in {"status", "download"}, Arrive(r, e, kind)
      PROVE  \A d \in Export : Source(d)
  <2>1. told' = told \/ (mem[e] # "none" /\ told' = [told EXCEPT ![e] = mem[e]])
    BY <1>5 DEF Arrive, Conclude, Serve, Tell
  <2> QED
    BY <1>1, <2>1 DEF Source
<1>6. ASSUME NEW r \in Reader, Continue(r)
      PROVE  \A d \in Export : Source(d)
  <2>1. \/ told' = told
        \/ \E s \in {"failed", "410"} : told' = [told EXCEPT ![reader[r].id] = s]
    BY <1>6 DEF Continue, Persisted, Removed, Deleted, Read, Serve, Tell
  <2> QED
    BY <1>1, <2>1 DEF Source
<1>7. CASE RedisRejects
  <2>1. told' = told \/ told' = [told EXCEPT ![Head(wire).id] = "404"]
    BY <1>7 DEF RedisRejects, Tell
  <2> QED
    BY <1>1, <2>1 DEF Source
<1>8. CASE RedisReplies
  <2> DEFINE e == Head(wire).id
  <2>1. \/ told' = told \/ told' = [told EXCEPT ![e] = "404"]
        \/ redis[e] \in {"ready", "failed"} /\ told' = [told EXCEPT ![e] = redis[e]]
    BY <1>8 DEF RedisReplies, Recover, Conclude, Serve, Tell
  <2> HIDE DEF e
  <2> QED
    BY <1>1, <2>1 DEF Source
<1>9. \/ told' = told \/ (\E e \in Export : Create(e)) \/ List \/ RedisRejects \/ RedisReplies
      \/ \E e \in Export, r \in Reader, kind \in {"status", "download"} : Arrive(r, e, kind)
      \/ \E r \in Reader : Continue(r)
  BY DEF Next, vars, WriteFile, Finish, Fail, Expire, RedisExpires, Restart
<1> QED
  BY <1>2, <1>3, <1>4, <1>5, <1>6, <1>7, <1>8, <1>9

\* A client that was told an export is over is never told it runs, nor one that was told
\* it failed that it is ready.
THEOREM AnswersGoForward == Spec => AnswersNeverGoBack
<1> DEFINE Forward(e) == /\ told'[e] \in Running => told[e] \in Running \cup {"none"}
                         /\ told[e] = "failed" => told'[e] # "ready"
<1>1. ASSUME IInv, [Next]_vars
      PROVE  [\A e \in Export : Forward(e)]_vars
  <2>1. \A e \in Export : Source(e)
    BY <1>1, ToldFromSource
  <2>2. ASSUME NEW e \in Export PROVE Forward(e)
    <3>1. mem[e] \in Running => told[e] \in Running
      BY <1>1 DEF IInv, GenerationIsAlone, Running
    <3>2. told[e] = "failed" => mem[e] # "ready" /\ redis[e] # "ready"
      BY <1>1 DEF IInv, EndsOneWay, Succeeded, Broken
    <3>3. Source(e)
      BY <2>1
    <3> QED
      BY <3>1, <3>2, <3>3 DEF Source, Running
  <2> QED
    BY <2>2
<1> QED
  BY <1>1, ExportInvariance, PTL DEF Spec, AnswersNeverGoBack

-----------------------------------------------------------------------------
(* The watch of the dashboard over an export: WatchInv is inductive, for any *)
(* number of exports and of polls that are lost, late and out of order.      *)

Asked == {e \in Job : server[e] # "none"}
Others(e) == \E f \in Job \ {e} : server[f] # "none"

\* An export passes from its request to the active job, its notice and the closed ones,
\* and does not come back.
NoticesGoOneWay ==
  /\ requested \cup toasts \cup closed \subseteq Asked
  /\ requested \cap (toasts \cup closed) = {}
  /\ jobAtivo # NoJob => jobAtivo.id \in Asked \ (requested \cup closed)

\* A poll has the answer of its export, and the active job is ready
\* because it is, or by an answer of another one.
AnswersAreTrue ==
  /\ \A p \in polls : p.id \in Asked /\ (p.answer = "ready" => server[p.id] = "ready")
  /\ jobAtivo # NoJob /\ jobAtivo.status = "ready" => server[jobAtivo.id] = "ready" \/ Others(jobAtivo.id)

WatchInv ==
  /\ WatchTypeOK
  /\ NoticesGoOneWay
  /\ ClosedToastStaysClosed
  /\ AnswersAreTrue
  /\ LoneToastIsTrue

\* Nothing has been asked for.
LEMMA WatchStarts == WatchInit => WatchInv
  BY DEF WatchInit, WatchInv, WatchTypeOK, NoticesGoOneWay, ClosedToastStaysClosed, AnswersAreTrue, LoneToastIsTrue, Asked

-----------------------------------------------------------------------------
(* Steps                                                                   *)

\* The server only moves forward: what was ready or asked for stays so.
LEMMA ServerKeeps ==
  ASSUME WatchInv, NEW e \in Job, Gerar(e) \/ ServerEnds(e)
  PROVE  WatchInv'
<1>1. /\ UNCHANGED <<jobAtivo, polls, toasts, closed>>
      /\ server' \in [Job -> ExportStatus \cup {"none"}]
      /\ \A f \in Job : /\ server[f] # "none" => server'[f] # "none"
                        /\ server[f] = "ready" => server'[f] = "ready"
      /\ requested' \in {requested, requested \cup {e}}
      /\ server'[e] # "none"
  BY DEF WatchInv, WatchTypeOK, Gerar, ServerEnds, ExportStatus, Pending
<1>2. Asked \subseteq Asked' /\ e \in Asked'
  BY <1>1 DEF Asked
<1>3. WatchTypeOK'
  BY <1>1 DEF WatchInv, WatchTypeOK
<1>4. NoticesGoOneWay'
  <2>1. CASE Gerar(e)
    <3>1. e \notin Asked
      BY <2>1 DEF Gerar, Asked
    <3> QED
      BY <1>1, <1>2, <3>1 DEF WatchInv, NoticesGoOneWay
  <2>2. CASE ServerEnds(e)
    BY <1>1, <1>2, <2>2 DEF WatchInv, NoticesGoOneWay, ServerEnds
  <2> QED
    BY <2>1, <2>2
<1>5. ClosedToastStaysClosed'
  BY <1>1 DEF WatchInv, ClosedToastStaysClosed
<1>6. \A f \in Job : Others(f) => Others(f)'
  BY <1>1 DEF Others
<1>7. AnswersAreTrue'
  BY <1>1, <1>2, <1>6 DEF WatchInv, WatchTypeOK, AnswersAreTrue
<1>8. LoneToastIsTrue'
  BY <1>1 DEF WatchInv, WatchTypeOK, LoneToastIsTrue
<1> QED
  BY <1>3, <1>4, <1>5, <1>7, <1>8 DEF WatchInv

\* The reply of the POST names an export that has had no notice yet.
LEMMA ReplyKeeps ==
  ASSUME WatchInv, NEW e \in Job, GerarReply(e) \/ GerarFails(e)
  PROVE  WatchInv'
<1>1. /\ UNCHANGED <<server, polls, toasts, closed>>
      /\ e \in requested /\ requested' = requested \ {e}
      /\ jobAtivo' \in {jobAtivo, [id |-> e, status |-> "queued"]}
  BY DEF GerarReply, GerarFails
<1>2. Asked' = Asked
  BY <1>1 DEF Asked
<1>3. WatchTypeOK'
  BY <1>1 DEF WatchInv, WatchTypeOK, ExportStatus, Pending
<1>4. NoticesGoOneWay' /\ ClosedToastStaysClosed'
  BY <1>1, <1>2 DEF WatchInv, NoticesGoOneWay, ClosedToastStaysClosed
<1>5. AnswersAreTrue' /\ LoneToastIsTrue'
  BY <1>1, <1>2 DEF WatchInv, AnswersAreTrue, LoneToastIsTrue, Others
<1> QED
  BY <1>3, <1>4, <1>5 DEF WatchInv

\* A poll leaves, is answered with what the server knows, or is lost.
LEMMA PollsKeep ==
  ASSUME WatchInv, Tick \/ (\E p \in polls : ServerAnswers(p) \/ PollFails(p))
  PROVE  WatchInv'
<1>1. UNCHANGED <<server, requested, jobAtivo, toasts, closed>>
  BY DEF Tick, ServerAnswers, PollFails
<1>2. Asked' = Asked
  BY <1>1 DEF Asked
<1>3. \A p \in polls' : /\ p \in [id : Job, answer : ExportStatus \cup {"awaited"}]
                        /\ p.id \in Asked
                        /\ p.answer = "ready" => server[p.id] = "ready"
  <2>1. CASE Tick
    <3>1. jobAtivo # NoJob /\ jobAtivo.id \in Asked
      BY <2>1 DEF Tick, Pendente, WatchInv, NoticesGoOneWay
    <3>2. polls' = polls \cup {[id |-> jobAtivo.id, answer |-> "awaited"]}
      BY <2>1 DEF Tick
    <3> QED
      BY <3>1, <3>2 DEF WatchInv, WatchTypeOK, AnswersAreTrue, Asked
  <2>2. ASSUME NEW p \in polls, ServerAnswers(p)
        PROVE  \A q \in polls' : /\ q \in [id : Job, answer : ExportStatus \cup {"awaited"}]
                                 /\ q.id \in Asked
                                 /\ q.answer = "ready" => server[q.id] = "ready"
    <3>1. p \in [id : Job, answer : ExportStatus \cup {"awaited"}] /\ p.id \in Asked
      BY DEF WatchInv, WatchTypeOK, AnswersAreTrue
    <3>2. /\ [p EXCEPT !.answer = server[p.id]] \in [id : Job, answer : ExportStatus \cup {"awaited"}]
          /\ [p EXCEPT !.answer = server[p.id]].id = p.id
          /\ [p EXCEPT !.answer = server[p.id]].answer = server[p.id]
      BY <3>1 DEF WatchInv, WatchTypeOK, Asked
    <3>3. \A q \in polls' : q \in polls \/ q = [p EXCEPT !.answer = server[p.id]]
      BY <2>2 DEF ServerAnswers
    <3> QED
      BY <3>1, <3>2, <3>3 DEF WatchInv, WatchTypeOK, AnswersAreTrue
  <2>3. ASSUME NEW p \in polls, PollFails(p) PROVE polls' \subseteq polls
    BY <2>3 DEF PollFails
  <2> QED
    BY <2>1, <2>2, <2>3 DEF WatchInv, WatchTypeOK, AnswersAreTrue
<1>4. WatchTypeOK'
  BY <1>1, <1>3 DEF WatchInv, WatchTypeOK
<1>5. NoticesGoOneWay' /\ ClosedToastStaysClosed'
  BY <1>1, <1>2 DEF WatchInv, NoticesGoOneWay, ClosedToastStaysClosed
<1>6. AnswersAreTrue' /\ LoneToastIsTrue'
  BY <1>1, <1>2, <1>3 DEF WatchInv, AnswersAreTrue, LoneToastIsTrue, Others
<1> QED
  BY <1>4, <1>5, <1>6 DEF WatchInv

\* An answer of another export is an other one that was asked for.
LEMMA DeliverKeeps ==
  ASSUME WatchInv, NEW p \in polls, Deliver(p)
  PROVE  WatchInv'
<1>1. /\ UNCHANGED <<server, requested, closed>> /\ polls' = polls \ {p}
      /\ p \in [id : Job, answer : ExportStatus \cup {"awaited"}] /\ p.answer \in ExportStatus
      /\ p.id \in Asked /\ (p.answer = "ready" => server[p.id] = "ready")
  BY DEF WatchInv, WatchTypeOK, AnswersAreTrue, Deliver
<1>2. Asked' = Asked
  BY <1>1 DEF Asked
<1>3. CASE jobAtivo = NoJob
  <2>1. UNCHANGED <<jobAtivo, toasts>>
    BY <1>3 DEF Deliver
  <2> QED
    BY <1>1, <1>2, <2>1 DEF WatchInv, WatchTypeOK, NoticesGoOneWay, ClosedToastStaysClosed, AnswersAreTrue,
                            LoneToastIsTrue, Others
<1>4. CASE jobAtivo # NoJob
  <2> DEFINE e == jobAtivo.id
  <2>1. e \in Asked \ (requested \cup closed) /\ e \in Job
    BY <1>4 DEF WatchInv, NoticesGoOneWay, Asked
  <2>2. jobAtivo \in [id : Job, status : ExportStatus]
    BY <1>4 DEF WatchInv, WatchTypeOK
  <2>3. jobAtivo' = [id |-> e, status |-> p.answer] /\ toasts' = IF p.answer = "ready" THEN toasts \cup {e} ELSE toasts
    BY <1>4, <2>2 DEF Deliver, Announced
  <2>4. p.answer = "ready" => server[e] = "ready" \/ Others(e)
    <3>1. CASE p.id = e
      BY <1>1, <3>1
    <3>2. CASE p.id # e
      BY <1>1, <3>2 DEF Others, Asked
    <3> QED
      BY <3>1, <3>2
  <2>5. WatchTypeOK'
    BY <1>1, <2>1, <2>3 DEF WatchInv, WatchTypeOK
  <2>6. NoticesGoOneWay' /\ ClosedToastStaysClosed'
    BY <1>1, <1>2, <2>1, <2>3 DEF WatchInv, NoticesGoOneWay, ClosedToastStaysClosed
  <2>7. AnswersAreTrue' /\ LoneToastIsTrue'
    BY <1>1, <1>2, <2>3, <2>4 DEF WatchInv, AnswersAreTrue, LoneToastIsTrue, Others
  <2> QED
    BY <2>5, <2>6, <2>7 DEF WatchInv
<1> QED
  BY <1>3, <1>4

\* Closing a notice clears the active job, so no answer can bring it back.
LEMMA CloseKeeps ==
  ASSUME WatchInv, NEW e \in Job, Close(e)
  PROVE  WatchInv'
<1>1. /\ UNCHANGED <<server, requested, polls>> /\ jobAtivo' = NoJob
      /\ e \in toasts /\ toasts' = toasts \ {e} /\ closed' = closed \cup {e}
  BY DEF Close
<1> QED
  BY <1>1 DEF WatchInv, WatchTypeOK, NoticesGoOneWay, ClosedToastStaysClosed, AnswersAreTrue, LoneToastIsTrue, Others, Asked

\* The invariant is inductive.
LEMMA WatchSteps == WatchInv /\ [WatchNext]_watch => WatchInv'
<1> SUFFICES ASSUME WatchInv, [WatchNext]_watch PROVE WatchInv'
  OBVIOUS
<1>1. ASSUME NEW e \in Job, Gerar(e) \/ ServerEnds(e) PROVE WatchInv'
  BY <1>1, ServerKeeps
<1>2. ASSUME NEW e \in Job, GerarReply(e) \/ GerarFails(e) PROVE WatchInv'
  BY <1>2, ReplyKeeps
<1>3. ASSUME NEW e \in Job, Close(e) PROVE WatchInv'
  BY <1>3, CloseKeeps
<1>4. CASE Tick \/ (\E p \in polls : ServerAnswers(p) \/ PollFails(p))
  BY <1>4, PollsKeep
<1>5. ASSUME NEW p \in polls, Deliver(p) PROVE WatchInv'
  BY <1>5, DeliverKeeps
<1>6. CASE UNCHANGED watch
  BY <1>6 DEF watch, WatchInv, WatchTypeOK, NoticesGoOneWay, ClosedToastStaysClosed, AnswersAreTrue, LoneToastIsTrue, Others, Asked
<1> QED
  BY <1>1, <1>2, <1>3, <1>4, <1>5, <1>6 DEF WatchNext

-----------------------------------------------------------------------------
(* Theorems                                                                *)

\* WatchInv holds in every state of the watcher.
THEOREM WatcherInvariance == WatchSpec => []WatchInv
  BY WatchStarts, WatchSteps, PTL DEF WatchSpec

\* A closed notice does not return, whatever polls are in flight (ExportWatcher.tsx:37-40).
THEOREM ClosedStaysClosed == WatchSpec => []ClosedToastStaysClosed
<1>1. WatchInv => ClosedToastStaysClosed
  BY DEF WatchInv
<1> QED
  BY <1>1, WatcherInvariance, PTL

\* The notice of an export is true while no other one was asked for.
THEOREM LoneIsTrue == WatchSpec => []LoneToastIsTrue
<1>1. WatchInv => LoneToastIsTrue
  BY DEF WatchInv
<1> QED
  BY <1>1, WatcherInvariance, PTL
=============================================================================
