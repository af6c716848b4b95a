----------------------------- MODULE UploadsProofs -----------------------------
(* Proofs about Uploads for every set of uploads, pieces, phones, sockets.    *)
EXTENDS Uploads, TLAPS

\* The types of the uploads alone, and what a request in work has made sure of.
Types ==
    /\ begun \subseteq UploadIds /\ uploads \subseteq begun /\ idle \subseteq begun
    /\ got \in [UploadIds -> SUBSET Chunks] /\ disk \in [UploadIds -> SUBSET Chunks]
    /\ files \subseteq begun /\ queued \subseteq begun /\ heard \subseteq begun
    /\ rpc \in [pc : {"read", "write", "note", "check", "load", "ingest", "reply"},
                id : UploadIds \cup {None}, c : Chunks \cup {None}]

\* A piece that was noted is in the file, and the file of a chunk in work goes with its entry.
NotedIsWritten ==
    /\ \A u \in UploadIds : got[u] \subseteq disk[u]
    /\ rpc.pc \in {"write", "note"} => rpc.id \in begun /\ rpc.c \in Chunks
    /\ rpc.pc = "write" /\ rpc.id \in files => rpc.id \in uploads
    /\ rpc.pc = "note" => rpc.c \in disk[rpc.id]

\* Who commits an upload has it alone, and it has not been delivered.
CommitIsAlone ==
    /\ uploads \cap queued = {}
    /\ rpc.pc \in {"check", "load", "ingest"} =>
           rpc.id \in begun /\ rpc.id \notin uploads /\ rpc.id \notin queued
    /\ rpc.pc \in {"load", "ingest"} => got[rpc.id] = Chunks
    /\ rpc.pc = "reply" => rpc.id \in queued

IInv == Types /\ NotedIsWritten /\ CommitIsAlone

\* What neither the read loop's Hub part nor anything beside it touches.
Calm == UNCHANGED transfer
-----------------------------------------------------------------------------
LEMMA InitIInv == UploadsInit => IInv
BY DEF UploadsInit, IInv, Types, NotedIsWritten, CommitIsAlone, Free

\* Every step is one of Hub's, with the uploads as they are, or one of those below.
LEMMA Steps ==
    ASSUME [UploadsNext]_uploadVars
    PROVE  \/ Calm
           \/ \E u \in UploadIds : rpcPutBegin(u) \/ rpcPutCommit(u) \/ growsOld(u)
           \/ \E u \in UploadIds, c \in Chunks : rpcPutChunk(u, c)
           \/ Handling \/ gcUploads \/ die
BY DEF UploadsNext, Reading, Aside, Requests, Collecting, uploadVars, Calm

LEMMA BeginIInv == ASSUME IInv, NEW u \in UploadIds, rpcPutBegin(u) PROVE IInv'
BY DEF IInv, Types, NotedIsWritten, CommitIsAlone, rpcPutBegin, Request, Free

LEMMA ChunkIInv ==
    ASSUME IInv, NEW u \in UploadIds, NEW c \in Chunks, rpcPutChunk(u, c) PROVE IInv'
BY DEF IInv, Types, NotedIsWritten, CommitIsAlone, rpcPutChunk, Request, Free, Do

LEMMA CommitIInv == ASSUME IInv, NEW u \in UploadIds, rpcPutCommit(u) PROVE IInv'
BY DEF IInv, Types, NotedIsWritten, CommitIsAlone, rpcPutCommit, Request, Free, Do

LEMMA HandlingIInv == ASSUME IInv, Handling PROVE IInv'
<1> USE DEF IInv, Types, NotedIsWritten, CommitIsAlone, Do, Done, Free
<1>1. CASE writeAt
  BY <1>1 DEF writeAt
<1>2. CASE noteChunk
  BY <1>2 DEF noteChunk
<1>3. CASE checkWhole
  BY <1>3 DEF checkWhole
<1>4. CASE readUpload
  BY <1>4 DEF readUpload
<1>5. CASE ingestOwnerBytes
  BY <1>5 DEF ingestOwnerBytes
<1>6. CASE sendReply
  BY <1>6 DEF sendReply
<1> QED BY <1>1, <1>2, <1>3, <1>4, <1>5, <1>6 DEF Handling

LEMMA CollectIInv ==
    ASSUME IInv, gcUploads \/ \E u \in UploadIds : growsOld(u) PROVE IInv'
BY DEF IInv, Types, NotedIsWritten, CommitIsAlone, gcUploads, growsOld

LEMMA DieIInv == ASSUME IInv, die PROVE IInv'
BY DEF IInv, Types, NotedIsWritten, CommitIsAlone, die, Done, Free

LEMMA NextIInv == IInv /\ [UploadsNext]_uploadVars => IInv'
<1> SUFFICES ASSUME IInv, [UploadsNext]_uploadVars PROVE IInv'
  OBVIOUS
<1>1. CASE Calm
  BY <1>1 DEF Calm, transfer, IInv, Types, NotedIsWritten, CommitIsAlone
<1> QED BY <1>1, Steps, BeginIInv, ChunkIInv, CommitIInv, HandlingIInv, CollectIInv, DieIInv

LEMMA Invariance == UploadsSpec => []IInv
BY InitIInv, NextIInv, PTL DEF UploadsSpec
-----------------------------------------------------------------------------
\* The fate of an upload, as a definition by cases.
LEMMA FateCases ==
    ASSUME IInv, NEW u \in UploadIds
    PROVE  /\ u \notin begun => Fate(u) = "new"
           /\ u \in queued => Fate(u) = "delivered"
           /\ u \in begun \ queued /\ (u \in uploads \/ InHand(u)) => Fate(u) = "open"
           /\ u \in begun \ queued /\ u \notin uploads /\ ~InHand(u) => Fate(u) = "dropped"
BY DEF IInv, Types, NotedIsWritten, CommitIsAlone, Fate, InHand

LEMMA FateCasesNext ==
    ASSUME IInv', NEW u \in UploadIds
    PROVE  /\ u \notin begun' => Fate(u)' = "new"
           /\ u \in queued' => Fate(u)' = "delivered"
           /\ u \in begun' \ queued' /\ (u \in uploads' \/ InHand(u)') => Fate(u)' = "open"
           /\ u \in begun' \ queued' /\ u \notin uploads' /\ ~InHand(u)' => Fate(u)' = "dropped"
BY DEF IInv, Types, NotedIsWritten, CommitIsAlone, Fate, InHand

LEMMA InitMaps == UploadsInit => Delivery!Init
BY DEF UploadsInit, Delivery!Init, Fate

\* A step that leaves every fate, every file and what was heard as they are is a stutter.
LEMMA Stutters ==
    ASSUME \A u \in UploadIds : Fate(u)' = Fate(u), UNCHANGED <<disk, heard>>
    PROVE  UNCHANGED Delivery!vars
BY DEF Delivery!vars

\* A step that gives up the uploads us, and nothing else.
LEMMA Drops ==
    ASSUME NEW us \in SUBSET UploadIds, us # {}, UNCHANGED <<disk, heard>>,
           \A u \in UploadIds : IF u \in us THEN Fate(u) = "open" /\ Fate(u)' = "dropped"
                                            ELSE Fate(u)' = Fate(u)
    PROVE  Delivery!Next
<1>1. Delivery!Drop(us)
  BY DEF Delivery!Drop
<1> QED BY <1>1 DEF Delivery!Next

LEMMA BeginMaps ==
    ASSUME IInv, IInv', NEW u \in UploadIds, rpcPutBegin(u) PROVE Delivery!Next
<1>1. \A v \in UploadIds : Fate(v)' = IF v = u THEN "open" ELSE Fate(v)
  BY FateCases, FateCasesNext DEF rpcPutBegin, InHand, Request, Free, IInv, Types
<1>2. Fate(u) = "new"
  BY FateCases DEF rpcPutBegin
<1>3. Delivery!Begin(u)
  BY <1>1, <1>2 DEF Delivery!Begin, rpcPutBegin
<1> QED BY <1>3 DEF Delivery!Next

LEMMA QuietMaps ==
    ASSUME IInv, IInv', NEW u \in UploadIds,
           rpcPutCommit(u) \/ growsOld(u) \/ \E c \in Chunks : rpcPutChunk(u, c)
    PROVE  UNCHANGED Delivery!vars
<1>1. \A v \in UploadIds : Fate(v)' = Fate(v)
  BY FateCases, FateCasesNext
  DEF rpcPutCommit, growsOld, rpcPutChunk, Do, InHand, Request, Free, IInv, Types
<1> QED BY <1>1, Stutters DEF rpcPutCommit, growsOld, rpcPutChunk

LEMMA HandlingMaps ==
    ASSUME IInv, IInv', Handling PROVE [Delivery!Next]_(Delivery!vars)
<1>0. PICK id : id = rpc.id
  OBVIOUS
<1> USE <1>0
<1>1. CASE writeAt
  <2>1. \A v \in UploadIds : Fate(v)' = Fate(v)
    BY <1>1, FateCases, FateCasesNext DEF writeAt, Do, Done, Free, InHand, IInv, Types
  <2>2. CASE UNCHANGED disk
    BY <1>1, <2>1, <2>2, Stutters DEF writeAt
  <2>3. CASE disk' # disk
    <3>1. id \in files /\ disk' = [disk EXCEPT ![id] = @ \cup {rpc.c}] /\ heard' = heard
      BY <1>1, <2>3 DEF writeAt
    <3>2. id \in UploadIds /\ rpc.c \in Chunks /\ id \in uploads /\ id \in begun \ queued
      BY <1>1, <3>1 DEF writeAt, IInv, Types, NotedIsWritten, CommitIsAlone
    <3>3. Fate(id) = "open"
      BY <3>2, FateCases
    <3>4. Delivery!Receive(id, rpc.c)
      BY <2>1, <3>1, <3>2, <3>3 DEF Delivery!Receive
    <3> QED BY <3>2, <3>4 DEF Delivery!Next
  <2> QED BY <2>2, <2>3
<1>2. CASE noteChunk
  <2>1. \A v \in UploadIds : Fate(v)' = Fate(v)
    BY <1>2, FateCases, FateCasesNext DEF noteChunk, Done, Free, InHand, IInv, Types
  <2> QED BY <1>2, <2>1, Stutters DEF noteChunk
<1>3. CASE checkWhole \/ readUpload \/ (ingestOwnerBytes /\ UNCHANGED queued)
  <2>0. /\ id \in begun \ queued /\ id \in UploadIds /\ id \notin uploads /\ InHand(id)
        /\ begun' = begun /\ uploads' = uploads /\ queued' = queued /\ UNCHANGED <<disk, heard>>
        /\ \A v \in UploadIds : InHand(v) => v = id
    BY <1>3 DEF checkWhole, readUpload, ingestOwnerBytes, IInv, Types, CommitIsAlone, InHand
  <2>1. CASE InHand(id)' /\ rpc'.id = id
    <3>1. \A v \in UploadIds : Fate(v)' = Fate(v)
      BY <2>0, <2>1, FateCases, FateCasesNext DEF InHand
    <3> QED BY <2>0, <3>1, Stutters
  <2>2. CASE rpc' = Free
    <3>1. Fate(id) = "open" /\ Fate(id)' = "dropped"
      BY <2>0, <2>2, FateCases, FateCasesNext DEF InHand, Free
    <3>2. \A v \in UploadIds : v # id => Fate(v)' = Fate(v)
      BY <2>0, <2>2, FateCases, FateCasesNext DEF InHand, Free
    <3>3. \A v \in UploadIds : IF v \in {id} THEN Fate(v) = "open" /\ Fate(v)' = "dropped"
                                            ELSE Fate(v)' = Fate(v)
      BY <3>1, <3>2
    <3>4. {id} \in SUBSET UploadIds /\ {id} # {} /\ UNCHANGED <<disk, heard>>
      BY <2>0
    <3> HIDE <1>0
    <3> QED BY <3>3, <3>4, Drops
  <2>3. (InHand(id)' /\ rpc'.id = id) \/ rpc' = Free
    BY <1>3, <2>0 DEF checkWhole, readUpload, ingestOwnerBytes, Do, Done, InHand, IInv, CommitIsAlone
  <2> QED BY <2>1, <2>2, <2>3
<1>4. CASE ingestOwnerBytes /\ queued' # queued
  <2>1. /\ queued' = queued \cup {id} /\ rpc' = [pc |-> "reply", id |-> id, c |-> None]
        /\ id \in begun \ queued /\ id \in UploadIds /\ InHand(id) /\ got[id] = Chunks
        /\ begun' = begun /\ uploads' = uploads /\ UNCHANGED <<disk, heard>>
    BY <1>4 DEF ingestOwnerBytes, Do, Done, InHand, IInv, Types, CommitIsAlone
  <2>2. Fate(id) = "open" /\ Fate(id)' = "delivered"
    BY <2>1, FateCases, FateCasesNext
  <2>3. \A v \in UploadIds : v # id => Fate(v)' = Fate(v)
    BY <2>1, FateCases, FateCasesNext DEF InHand
  <2>4. disk[id] = Chunks
    <3>1. disk[id] \subseteq Chunks
      BY <2>1 DEF IInv, Types
    <3>2. got[id] \subseteq disk[id]
      BY <2>1 DEF IInv, NotedIsWritten
    <3> QED BY <2>1, <3>1, <3>2
  <2>5. Delivery!Deliver(id)
    BY <2>1, <2>2, <2>3, <2>4 DEF Delivery!Deliver
  <2> QED BY <2>1, <2>5 DEF Delivery!Next
<1>5. CASE sendReply
  <2>1. \A v \in UploadIds : Fate(v)' = Fate(v)
    BY <1>5, FateCases, FateCasesNext DEF sendReply, Done, Free, InHand, IInv, Types
  <2>2. CASE UNCHANGED heard
    BY <1>5, <2>1, <2>2, Stutters DEF sendReply
  <2>3. CASE heard' # heard
    <3>1. heard' = heard \cup {id} /\ id \in queued /\ id \in UploadIds /\ disk' = disk
      BY <1>5, <2>3 DEF sendReply, IInv, Types, CommitIsAlone
    <3>2. Delivery!Hear(id)
      BY <2>1, <3>1, FateCases DEF Delivery!Hear
    <3> QED BY <3>1, <3>2 DEF Delivery!Next
  <2> QED BY <2>2, <2>3
<1> QED BY <1>1, <1>2, <1>3, <1>4, <1>5 DEF Handling

LEMMA CollectMaps == ASSUME IInv, IInv', gcUploads PROVE Delivery!Next
<1> DEFINE us == uploads \cap idle
<1>1. us # {} /\ us \in SUBSET UploadIds /\ UNCHANGED <<begun, queued, rpc, disk, heard>> /\ uploads' = uploads \ us
  BY DEF gcUploads, IInv, Types
<1>2. \A u \in us : Fate(u) = "open"
  BY <1>1, FateCases DEF IInv, Types, CommitIsAlone
<1>3. \A u \in us : u \in begun' \ queued' /\ u \notin uploads' /\ ~InHand(u)'
  BY <1>1 DEF IInv, Types, CommitIsAlone, InHand
<1>4. \A u \in us : Fate(u)' = "dropped"
  BY <1>1, <1>3, FateCasesNext
<1>5. \A u \in UploadIds \ us : Fate(u)' = Fate(u)
  BY <1>1, FateCases, FateCasesNext DEF InHand
<1> QED BY <1>1, <1>2, <1>4, <1>5, Drops

LEMMA DieMaps == ASSUME IInv, IInv', die PROVE [Delivery!Next]_(Delivery!vars)
<1> DEFINE us == {u \in begun \ queued : u \in uploads \/ InHand(u)}
<1>1. us \in SUBSET UploadIds /\ UNCHANGED <<begun, queued, disk, heard>> /\ uploads' = {} /\ rpc' = Free
  BY DEF die, Done, IInv, Types
<1>2. \A u \in us : Fate(u) = "open" /\ Fate(u)' = "dropped"
  BY <1>1, FateCases, FateCasesNext DEF InHand, Free
<1>3. \A u \in UploadIds \ us : Fate(u)' = Fate(u)
  BY <1>1, FateCases, FateCasesNext DEF InHand, Free
<1>4. CASE us = {}
  BY <1>1, <1>3, <1>4, Stutters
<1>5. CASE us # {}
  BY <1>1, <1>2, <1>3, <1>5, Drops
<1> QED BY <1>4, <1>5

LEMMA CalmMaps == ASSUME Calm PROVE UNCHANGED Delivery!vars
BY DEF Calm, transfer, Delivery!vars, Fate, InHand

LEMMA NextMaps ==
    ASSUME IInv, IInv', [UploadsNext]_uploadVars PROVE [Delivery!Next]_(Delivery!vars)
BY Steps, BeginMaps, QuietMaps, HandlingMaps, CollectMaps, DieMaps, CalmMaps

\* The handlers of an upload implement FileDelivery: a file reaches the session once and whole or
\* not at all, whatever is collected, lost or restarted in between.
THEOREM UploadsImplementDelivery == UploadsSpec => WholeFile
<1>1. IInv /\ IInv' /\ [UploadsNext]_uploadVars => [Delivery!Next]_(Delivery!vars)
  BY NextMaps
<1> QED BY Invariance, InitMaps, <1>1, PTL DEF UploadsSpec, WholeFile, Delivery!Spec
=============================================================================
