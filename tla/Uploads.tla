-------------------------------- MODULE Uploads --------------------------------
(***************************************************************************)
(* A phone sends a session a file in pieces over the hub (hub_file.go):    *)
(* put_begin, put_chunk and put_commit are handled by the read loop of the *)
(* connection, one request after the other, while fileLoop collects what   *)
(* nobody goes on with.  A request or its reply may be lost, and the phone *)
(* may ask again; the daemon may die between any two steps of a handler.   *)
(* Upload identifiers are random: one is never used twice.                 *)
(***************************************************************************)
EXTENDS Hub

CONSTANTS
    UploadIds,  \* identifiers put_begin will mint
    Chunks      \* pieces of a file

ASSUME UploadsAssumption == None \notin UploadIds /\ None \notin Chunks

VARIABLES
    begun,      \* identifiers put_begin has minted
    uploads,    \* hubClient.uploads
    got,        \* hubUpload.got
    idle,       \* uploads that have not moved for 15 minutes
    disk,       \* the pieces in the temporary file
    files,      \* temporary files in hub_uploads
    rpc,        \* where the read loop is in a handler
    queued,     \* uploads whose file is in the inbox and whose turn is queued
    heard       \* uploads of which the phone heard "queued"

transfer == <<begun, uploads, got, idle, disk, files, rpc, queued, heard>>
uploadVars == <<vars, transfer>>

Free == [pc |-> "read", id |-> None, c |-> None]

\* The types of the uploads and of the request in work; the rest is Hub's.
UploadsTypeOK ==
    /\ TypeOK
    /\ begun \subseteq UploadIds /\ uploads \subseteq begun /\ idle \subseteq begun
    /\ got \in [UploadIds -> SUBSET Chunks] /\ disk \in [UploadIds -> SUBSET Chunks]
    /\ files \subseteq begun /\ queued \subseteq begun /\ heard \subseteq begun
    /\ rpc \in [pc : {"read", "write", "note", "check", "load", "ingest", "reply"},
                id : UploadIds \cup {None}, c : Chunks \cup {None}]

UploadsInit ==
    /\ Init
    /\ begun = {} /\ uploads = {} /\ idle = {} /\ files = {} /\ queued = {} /\ heard = {}
    /\ got = [u \in UploadIds |-> {}] /\ disk = [u \in UploadIds |-> {}]
    /\ rpc = Free
-----------------------------------------------------------------------------
\* A request of a device is read by an idle read loop.
Request == rpc = Free /\ answering = Idle /\ \E p \in Phones : Served(p)
Do(pc, u, c) == rpc' = [pc |-> pc, id |-> u, c |-> c]
Done == rpc' = Free

\* rpcPutBegin: a file of the full size is made, and an entry.
rpcPutBegin(u) ==
    /\ Request /\ u \notin begun
    /\ Event
    /\ begun' = begun \cup {u}
    /\ uploads' = uploads \cup {u}
    /\ files' = files \cup {u}
    /\ UNCHANGED <<relay, link, pairing, asking, got, idle, disk, rpc, queued, heard>>

\* rpcPutChunk: the entry is looked up under the lock, the file is written without it, and the
\* piece is noted on the entry that was looked up.
rpcPutChunk(u, c) ==
    /\ Request /\ u \in uploads
    /\ Do("write", u, c)
    /\ UNCHANGED <<vars, begun, uploads, got, idle, disk, files, queued, heard>>

\* The file may be gone by now, or the disk full.
writeAt ==
    /\ rpc.pc = "write"
    /\ \/ /\ rpc.id \in files
          /\ disk' = [disk EXCEPT ![rpc.id] = @ \cup {rpc.c}]
          /\ Do("note", rpc.id, rpc.c)
       \/ Done /\ UNCHANGED disk
    /\ UNCHANGED <<vars, begun, uploads, got, idle, files, queued, heard>>

noteChunk ==
    /\ rpc.pc = "note"
    /\ got' = [got EXCEPT ![rpc.id] = @ \cup {rpc.c}]
    /\ idle' = idle \ {rpc.id}
    /\ Done
    /\ UNCHANGED <<vars, begun, uploads, disk, files, queued, heard>>

\* rpcPutCommit: the entry is taken out first, so that nobody else can collect or commit it.
rpcPutCommit(u) ==
    /\ Request /\ u \in uploads
    /\ uploads' = uploads \ {u}
    /\ Do("check", u, None)
    /\ UNCHANGED <<vars, begun, got, idle, disk, files, queued, heard>>

\* Mutant of checkWhole: the last piece is not waited for.
checkWholeMutant ==
    /\ rpc.pc = "check"
    /\ \/ Cardinality(got[rpc.id]) >= Cardinality(Chunks) - 1 /\ Do("load", rpc.id, None) /\ UNCHANGED files
       \/ files' = files \ {rpc.id} /\ Done
    /\ UNCHANGED <<vars, begun, uploads, got, idle, disk, queued, heard>>

\* Pieces missing, or the session archived: the file is removed.
checkWhole ==
    /\ rpc.pc = "check"
    /\ \/ got[rpc.id] = Chunks /\ Do("load", rpc.id, None) /\ UNCHANGED files
       \/ files' = files \ {rpc.id} /\ Done
    /\ UNCHANGED <<vars, begun, uploads, got, idle, disk, queued, heard>>

\* The file is read and removed, and its length compared.
readUpload ==
    /\ rpc.pc = "load"
    /\ files' = files \ {rpc.id}
    /\ \/ rpc.id \in files /\ Do("ingest", rpc.id, None)
       \/ Done
    /\ UNCHANGED <<vars, begun, uploads, got, idle, disk, queued, heard>>

\* ingestOwnerBytes: a file in the inbox under a name of its own, then the turn; either fails.
ingestOwnerBytes ==
    /\ rpc.pc = "ingest"
    /\ \/ queued' = queued \cup {rpc.id} /\ Do("reply", rpc.id, None)
       \/ Done /\ UNCHANGED queued
    /\ UNCHANGED <<vars, begun, uploads, got, idle, disk, files, heard>>

\* sendBox: the reply goes out over the connection there is now, and may get lost on its way.
sendReply ==
    /\ rpc.pc = "reply"
    /\ \/ Reaches /\ heard' = heard \cup {rpc.id}
       \/ UNCHANGED heard
    /\ Done
    /\ UNCHANGED <<vars, begun, uploads, got, idle, disk, files, queued>>

\* 15 minutes without a chunk.
growsOld(u) ==
    /\ u \in uploads \ idle
    /\ idle' = idle \cup {u}
    /\ UNCHANGED <<vars, begun, uploads, got, disk, files, rpc, queued, heard>>

\* gcUploads, in fileLoop, under the lock.
gcUploads ==
    /\ flush.pc = "rest"
    /\ uploads \cap idle # {}
    /\ uploads' = uploads \ idle
    /\ files' = files \ (uploads \cap idle)
    /\ UNCHANGED <<vars, begun, got, idle, disk, rpc, queued, heard>>
-----------------------------------------------------------------------------
\* The daemon dies: the temporary files stay.
die ==
    /\ restart
    /\ uploads' = {} /\ idle' = {}
    /\ got' = [u \in UploadIds |-> {}]
    /\ Done
    /\ UNCHANGED <<begun, disk, files, queued, heard>>

Requests ==
    \E u \in UploadIds : rpcPutBegin(u) \/ rpcPutCommit(u) \/ \E c \in Chunks : rpcPutChunk(u, c)
Handling == writeAt \/ noteChunk \/ checkWhole \/ readUpload \/ ingestOwnerBytes \/ sendReply
Collecting == gcUploads \/ \E u \in UploadIds : growsOld(u)

\* What Hub does beside the uploads: the read loop only between two requests.
Reading == rpc = Free /\ ReadLoop /\ UNCHANGED transfer
Aside == Beside /\ UNCHANGED transfer

UploadsNext == Reading \/ Aside \/ Requests \/ Handling \/ Collecting \/ die

UploadsSpec == UploadsInit /\ [][UploadsNext]_uploadVars

\* Goroutines that can go on do; a dead connection is noticed and dialled again.
Registering(s) == register(s) /\ UNCHANGED transfer
Leaving(s) == leave(s) /\ UNCHANGED transfer
Reconnecting == ((rpc = Free /\ dial) \/ hungUp) /\ UNCHANGED transfer
Watching == FileLoop /\ UNCHANGED transfer
Replying == Answering /\ UNCHANGED transfer

UploadsFairSpec ==
    /\ UploadsSpec
    /\ \A s \in Sockets : WF_uploadVars(Registering(s)) /\ WF_uploadVars(Leaving(s))
    /\ WF_uploadVars(Reconnecting) /\ WF_uploadVars(Handling)
    /\ WF_uploadVars(Watching) /\ WF_uploadVars(Replying)
-----------------------------------------------------------------------------
InHand(u) == rpc.id = u /\ rpc.pc \in {"check", "load", "ingest"}

Fate(u) ==
    IF u \notin begun THEN "new"
    ELSE IF u \in queued THEN "delivered"
    ELSE IF u \in uploads \/ InHand(u) THEN "open" ELSE "dropped"

Delivery == INSTANCE FileDelivery WITH
    Uploads <- UploadIds, have <- disk, fate <- [u \in UploadIds |-> Fate(u)]

\* The handlers of hub_file.go, with the collector beside them, lost replies and restarts, do
\* what FileDelivery promises.
WholeFile == Delivery!Spec
=============================================================================
