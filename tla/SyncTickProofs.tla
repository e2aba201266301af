--------------------------- MODULE SyncTickProofs ---------------------------
(***************************************************************************)
(* What the sync client promises, for every batch size, every set of parts *)
(* and every bound.  First the queue by itself: no event is ever lost,     *)
(* duplicates are paid for with faults, and every step of the queue is a   *)
(* step of EventDelivery; the argument needs to know what the batch in     *)
(* flight is: part of the queue, with nothing older left out of it, and    *)
(* with the backend once its reply has come.  Then the videos: what is     *)
(* recorded as current is whole on the disk, because a part in hand is     *)
(* never one that its row calls current.  Last the tick that does both:    *)
(* each of its steps is a step of the queue or leaves the queue alone, so  *)
(* it inherits what the queue promises.                                    *)
(***************************************************************************)
EXTENDS SyncTick, TLAPS

(* The batch in flight is still queued; once accepted, the backend has it. *)
BatchQueued ==
    /\ pc = "idle" => batch = {}
    /\ batch \subseteq pending
    /\ pc = "accepted" => batch \subseteq Got

(* Nothing older than an event of the batch is left out of the batch.      *)
BatchOldest == \A i \in pending, j \in batch : i < j => i \in batch

(* The backend has received an initial segment of what was queued.         *)
GotPrefix == \A i \in Got : i < nextId /\ \A j \in Id : j < i => j \in Got

(* An event is received once for nothing, and once more for each fault; a  *)
(* queued one whose reception is not acknowledged only for faults.         *)
ReceivedPaid ==
    \A e \in Id :
        /\ received[e] <= 1 + faults
        /\ e \in pending /\ ~(pc = "accepted" /\ e \in batch) => received[e] <= faults

IInv == TypeOK /\ NothingLost /\ BatchQueued /\ BatchOldest /\ GotPrefix /\ ReceivedPaid

-----------------------------------------------------------------------------
LEMMA InitInv == Init => IInv
  <1> SUFFICES ASSUME Init PROVE IInv
    OBVIOUS
  <1>1. TypeOK
    BY BoundAssumption DEF Init, TypeOK, Id
  <1>2. Got = {}
    BY DEF Init, Got, Id
  <1> QED
    BY <1>1, <1>2, BoundAssumption
    DEF Init, IInv, NothingLost, BatchQueued, BatchOldest, GotPrefix, ReceivedPaid, Id

(* A batch is a part of the queue that leaves out nothing older.           *)
LEMMA BatchIsOldest ==
    ASSUME NEW B \in Batches PROVE B \subseteq pending /\ \A i \in pending, j \in B : i < j => i \in B
  BY DEF Batches

(* Handing over the batch adds it to what the backend has, and nothing     *)
(* else.                                                                   *)
LEMMA HandedGot ==
    ASSUME TypeOK, received' = Handed
    PROVE  /\ received' \in [Id -> Nat]
           /\ Got' = Got \cup batch
           /\ \A e \in Id : received'[e] = received[e] + (IF e \in batch THEN 1 ELSE 0)
  <1>1. received \in [Id -> Nat] /\ batch \subseteq Id
    BY DEF TypeOK
  <1>2. received' \in [Id -> Nat]
    BY <1>1 DEF Handed
  <1>3. \A e \in Id : received'[e] = received[e] + (IF e \in batch THEN 1 ELSE 0)
    BY <1>1 DEF Handed
  <1>4. \A e \in Id : received'[e] > 0 <=> received[e] > 0 \/ e \in batch
    BY <1>1, <1>2, <1>3
  <1>5. Got' = Got \cup batch
    BY <1>1, <1>4 DEF Got, Id
  <1> QED
    BY <1>2, <1>3, <1>5

LEMMA QueueInv == ASSUME IInv, QueueEvent PROVE IInv'
  <1> USE BoundAssumption DEF IInv, QueueEvent
  <1>1. TypeOK'
    BY DEF TypeOK, Id
  <1>2. Got' = Got
    BY DEF Got, Id
  <1>3. nextId \in Id /\ nextId \notin Got
    BY DEF TypeOK, Id, GotPrefix
  <1>4. NothingLost'
    BY <1>2 DEF NothingLost, TypeOK
  <1>5. BatchQueued' /\ BatchOldest'
    BY <1>2 DEF BatchQueued, BatchOldest, TypeOK, Id
  <1>6. GotPrefix'
    BY <1>2 DEF GotPrefix, TypeOK, Id, Got
  <1>7. received[nextId] = 0
    BY <1>3 DEF Got, TypeOK
  <1>8. ReceivedPaid'
    BY <1>7, <1>3 DEF ReceivedPaid, TypeOK
  <1> QED
    BY <1>1, <1>4, <1>5, <1>6, <1>8

LEMMA QueuedIds == ASSUME TypeOK PROVE pending \subseteq Id
  BY BoundAssumption DEF TypeOK, Id

LEMMA ListInv == ASSUME IInv, ListBatch PROVE IInv'
  <1> USE DEF IInv, ListBatch
  <1>1. PICK B \in Batches : batch' = B
    OBVIOUS
  <1>2. B \subseteq pending /\ \A i \in pending, j \in B : i < j => i \in B
    BY BatchIsOldest
  <1>3. batch' \subseteq Id
    BY <1>1, <1>2, QueuedIds
  <1>5. TypeOK'
    BY <1>3 DEF TypeOK, Id
  <1>4. Got' = Got
    BY DEF Got, Id
  <1> QED
    BY <1>1, <1>2, <1>4, <1>5
    DEF NothingLost, BatchQueued, BatchOldest, GotPrefix, ReceivedPaid, TypeOK, Id

(* Both ways in which the backend takes the batch.                         *)
LEMMA TakenGot ==
    ASSUME IInv, received' = Handed, UNCHANGED <<nextId, pending>>
    PROVE  NothingLost' /\ GotPrefix'
  <1> USE DEF IInv
  <1>1. Got' = Got \cup batch
    BY HandedGot
  <1>2. batch \subseteq pending /\ pending \subseteq 1..(nextId - 1) /\ nextId \in 1..(MaxEvents + 1)
    BY DEF BatchQueued, TypeOK
  <1>3. NothingLost'
    BY <1>1, <1>2 DEF NothingLost
  <1>4. ASSUME NEW i \in Got', NEW j \in Id, j < i PROVE j \in Got'
    <2>1. CASE i \in Got
      BY <1>1, <1>4, <2>1 DEF GotPrefix
    <2>2. CASE i \in batch
      <3>1. j \in 1..(nextId - 1)
        BY <1>2, <1>4, <2>2, BoundAssumption DEF Id
      <3>2. j \in pending \cup Got
        BY <3>1 DEF NothingLost
      <3> QED
        BY <1>1, <1>4, <2>2, <3>2 DEF BatchOldest
    <2> QED
      BY <1>1, <2>1, <2>2
  <1>5. ASSUME NEW i \in Got' PROVE i < nextId
    <2>1. CASE i \in Got
      BY <2>1 DEF GotPrefix
    <2>2. CASE i \in batch
      BY <1>2, <2>2, BoundAssumption
    <2> QED
      BY <1>1, <2>1, <2>2
  <1> QED
    BY <1>3, <1>4, <1>5 DEF GotPrefix, Id

LEMMA AcceptedInv == ASSUME IInv, PostAccepted PROVE IInv'
  <1> USE DEF IInv, PostAccepted
  <1>1. NothingLost' /\ GotPrefix'
    BY TakenGot
  <1>2. Got' = Got \cup batch
    BY HandedGot
  <1>3. TypeOK'
    BY HandedGot DEF TypeOK, Id
  <1>4. ReceivedPaid'
    BY HandedGot DEF ReceivedPaid, BatchQueued, TypeOK
  <1> QED
    BY <1>1, <1>2, <1>3, <1>4 DEF BatchQueued, BatchOldest

LEMMA LostInv == ASSUME IInv, PostReplyLost PROVE IInv'
  <1> USE DEF IInv, PostReplyLost
  <1>1. NothingLost' /\ GotPrefix'
    BY TakenGot
  <1>2. TypeOK'
    BY HandedGot DEF TypeOK, Id
  <1>3. ReceivedPaid'
    BY HandedGot DEF ReceivedPaid, BatchQueued, TypeOK
  <1> QED
    BY <1>1, <1>2, <1>3 DEF BatchQueued, BatchOldest

(* The steps that leave the backend and the queue as they are.             *)
LEMMA GiveUpInv ==
    ASSUME IInv, UNCHANGED <<nextId, pending, received>>, pc' = "idle", batch' = {},
           faults' = faults + 1 \/ (faults' = faults /\ pc # "accepted")
    PROVE  IInv'
  <1> USE DEF IInv
  <1>1. Got' = Got
    BY DEF Got, Id
  <1>3. TypeOK'
    BY DEF TypeOK, Id
  <1>4. NothingLost' /\ GotPrefix' /\ BatchQueued' /\ BatchOldest'
    BY <1>1 DEF NothingLost, GotPrefix, BatchQueued, BatchOldest, Id
  <1> QED
    BY <1>3, <1>4 DEF ReceivedPaid, TypeOK

LEMMA DeleteInv == ASSUME IInv, DeleteBatch PROVE IInv'
  <1> USE DEF IInv, DeleteBatch
  <1>1. Got' = Got
    BY DEF Got, Id
  <1>2. TypeOK'
    BY DEF TypeOK, Id, Remaining
  <1>3. NothingLost' /\ GotPrefix'
    BY <1>1 DEF NothingLost, GotPrefix, Id, Remaining, BatchQueued
  <1>4. ReceivedPaid'
    BY DEF ReceivedPaid, TypeOK, Remaining
  <1> QED
    BY <1>2, <1>3, <1>4 DEF BatchQueued, BatchOldest

LEMMA NextInv == ASSUME IInv, [Next]_vars PROVE IInv'
  <1>1. CASE QueueEvent
    BY <1>1, QueueInv
  <1>2. CASE ListBatch
    BY <1>2, ListInv
  <1>3. CASE PostAccepted
    BY <1>3, AcceptedInv
  <1>4. CASE PostReplyLost
    BY <1>4, LostInv
  <1>5. CASE PostRefused
    <2>1. UNCHANGED <<nextId, pending, received>> /\ pc' = "idle" /\ batch' = {}
          /\ faults' = faults /\ pc # "accepted"
      BY <1>5 DEF PostRefused, AfterRefusal
    <2> QED
      BY <2>1, GiveUpInv
  <1>6. CASE DeleteBatch
    BY <1>6, DeleteInv
  <1>7. CASE Crash
    BY <1>7, GiveUpInv DEF Crash
  <1>8. CASE UNCHANGED vars
    BY <1>8 DEF vars, IInv, TypeOK, NothingLost, BatchQueued, BatchOldest, GotPrefix,
                ReceivedPaid, Got, Id
  <1> QED
    BY <1>1, <1>2, <1>3, <1>4, <1>5, <1>6, <1>7, <1>8 DEF Next, Flush

LEMMA InvHolds == Spec => []IInv
  <1>1. Init => IInv
    BY InitInv
  <1>2. IInv /\ [Next]_vars => IInv'
    BY NextInv
  <1> QED
    BY <1>1, <1>2, PTL DEF Spec

-----------------------------------------------------------------------------
(* The state of queue, flush and backend keeps its types.                  *)
THEOREM TypeCorrect == Spec => []TypeOK
  BY InvHolds, PTL DEF IInv

(* An event that was queued is in the queue or with the backend, whatever  *)
(* replies are lost and wherever the service crashes (flush_events deletes *)
(* only what was acknowledged, by id).                                     *)
THEOREM EventsKept == Spec => []NothingLost
  BY InvHolds, PTL DEF IInv

(* An event is received again only for a lost reply or a crash.            *)
THEOREM DuplicatesPaid == Spec => []DuplicatesNeedFaults
  <1>1. IInv => DuplicatesNeedFaults
    BY DEF IInv, ReceivedPaid, DuplicatesNeedFaults
  <1> QED
    BY <1>1, InvHolds, PTL

(* Taking the batch is Deliver, or nothing new if the backend had it all.  *)
LEMMA TakenDelivers ==
    ASSUME IInv, IInv', received' = Handed, UNCHANGED <<nextId, pending>>
    PROVE  [Delivery!Next]_<<nextId - 1, Got>>
  <1> USE DEF IInv
  <1>1. Got' = Got \cup batch
    BY HandedGot
  <1>2. CASE batch \subseteq Got
    BY <1>1, <1>2
  <1>3. CASE ~(batch \subseteq Got)
    <2>1. Got' \in SUBSET (1..(nextId - 1)) /\ Got \subseteq Got' /\ Got' # Got
      BY <1>1, <1>3 DEF GotPrefix, Got, Id, TypeOK
    <2>2. \A i \in Got' : \A j \in 1..(nextId - 1) : j < i => j \in Got'
      BY BoundAssumption DEF GotPrefix, TypeOK, Id
    <2> QED
      BY <2>1, <2>2 DEF Delivery!Next, Delivery!Deliver
  <1> QED
    BY <1>2, <1>3

(* Every step of the queue is an Enqueue, a Deliver or no step of the      *)
(* abstract queue: at least once and in order.                             *)
THEOREM Implements == Spec => Delivery!Init /\ [][Delivery!Next]_<<nextId - 1, Got>>
  <1>1. Init => Delivery!Init
    BY DEF Init, Delivery!Init, Got, Id
  <1>2. IInv /\ IInv' /\ [Next]_vars => [Delivery!Next]_<<nextId - 1, Got>>
    <2> SUFFICES ASSUME IInv, IInv', [Next]_vars PROVE [Delivery!Next]_<<nextId - 1, Got>>
      OBVIOUS
    <2>1. CASE QueueEvent
      BY <2>1, BoundAssumption DEF QueueEvent, Delivery!Next, Delivery!Enqueue, Got, Id, IInv, TypeOK
    <2>2. CASE PostAccepted \/ PostReplyLost
      BY <2>2, TakenDelivers DEF PostAccepted, PostReplyLost
    <2>3. CASE UNCHANGED <<nextId, received>>
      BY <2>3 DEF Got, Id
    <2> QED
      BY <2>1, <2>2, <2>3 DEF Next, Flush, ListBatch, PostRefused, DeleteBatch, Crash, vars
  <1> QED
    BY <1>1, <1>2, InvHolds, PTL DEF Spec

-----------------------------------------------------------------------------
(* The recorded version of a part is on the disk whole, unless its file was *)
(* damaged without an error or has been opened for another version since.  *)
RecordedOnDisk ==
    \A p \in Part :
        row[p] # 0 /\ file[p].v = row[p] /\ p \notin spoiled => file[p].size = "whole"

(* A row that names the backend's version is a row of the file, unless the *)
(* backend went back to that version after the file was opened.            *)
FreshOnDisk == \A p \in Part : Fresh(p) /\ p \notin returned => file[p].v = row[p]

(* A file is unlinked only after its row is gone.                          *)
UnlinkedUnrecorded == \A p \in unlinking : row[p] = 0

(* No file of the recorded version is there.                               *)
Opened(p) == row[p] = 0 \/ file[p].v # row[p]

(* The part in hand is opened for another version than its row's; once its *)
(* body has ended it is whole, or was cut short unnoticed.                 *)
InHand ==
    /\ vpc \in {"body", "stored"} =>
          part \in Part /\ unlinking = {} /\ Opened(part)
    /\ vpc = "stored" => file[part].size = "whole" \/ part \in spoiled

VideoInv ==
    VideoTypeOK /\ RecordedOnDisk /\ FreshOnDisk /\ UnlinkedUnrecorded /\ InHand

LEMMA Refetched == VideoInv => DamageIsRefetched
  <1> SUFFICES ASSUME VideoInv, NEW p \in Part, Fresh(p), p \notin spoiled \cup returned
               PROVE  file[p] = [v |-> version[p], size |-> "whole"]
    BY DEF DamageIsRefetched
  <1>1. file[p] \in [v : Version, size : {"none", "part", "whole"}]
    BY DEF VideoInv, VideoTypeOK
  <1>2. file[p].v = version[p] /\ file[p].size = "whole"
    BY DEF VideoInv, RecordedOnDisk, FreshOnDisk, Fresh
  <1> QED
    BY <1>1, <1>2

LEMMA VideoInitInv == VideoInit => VideoInv
  <1> SUFFICES ASSUME VideoInit PROVE VideoInv
    OBVIOUS
  <1>1. PICK s \in Starts : offered = s.listed /\ left = s.changes
    BY DEF VideoInit
  <1>2. offered \subseteq Part /\ left \in [Part -> Nat]
    BY <1>1, VideoBoundAssumption
  <1>3. version \in [Part -> Version] /\ row \in [Part -> Version]
    BY EtagAssumption DEF VideoInit, Version
  <1>4. file \in [Part -> [v : Version, size : {"none", "part", "whole"}]]
    BY DEF VideoInit, Version, NoFile
  <1>5. VideoTypeOK
    BY <1>2, <1>3, <1>4, VideoBoundAssumption DEF VideoInit, VideoTypeOK
  <1>6. \A p \in Part : row[p] = 0
    BY DEF VideoInit
  <1>7. RecordedOnDisk /\ FreshOnDisk
    BY <1>6 DEF RecordedOnDisk, FreshOnDisk, Fresh
  <1>8. UnlinkedUnrecorded /\ InHand
    BY DEF VideoInit, UnlinkedUnrecorded, InHand
  <1> QED
    BY <1>5, <1>7, <1>8 DEF VideoInv

(* The backend: a part that becomes current by being published is one      *)
(* whose file is of that version, or is noted as returned.                 *)
LEMMA PublishInv ==
    ASSUME VideoInv, NEW p \in Part, NEW etag \in Etags, Publish(p, etag) PROVE VideoInv'
  <1> USE DEF VideoInv, Publish
  <1>1. \A q \in Part : version'[q] = IF q = p THEN etag ELSE version[q]
    BY DEF VideoTypeOK
  <1>2. version' \in [Part -> Version] /\ left' \in [Part -> Nat]
    BY DEF VideoTypeOK, Version
  <1>3. returned' \subseteq Part /\ offered' \subseteq Part
    BY DEF VideoTypeOK
  <1>4. VideoTypeOK'
    BY <1>2, <1>3 DEF VideoTypeOK
  <1>5. ASSUME NEW q \in Part, Fresh(q)', q \notin returned'
        PROVE  file[q].v = row[q]
    <2>1. CASE q # p
      <3>1. Fresh(q) /\ q \notin returned
        BY <1>1, <1>5, <2>1 DEF Fresh
      <3> QED
        BY <3>1 DEF FreshOnDisk
    <2>2. CASE q = p /\ etag = version[p]
      <3>1. Fresh(q) /\ q \notin returned
        BY <1>1, <1>5, <2>2 DEF Fresh
      <3> QED
        BY <3>1 DEF FreshOnDisk
    <2>3. CASE q = p /\ etag # version[p]
      BY <1>1, <1>5, <2>3 DEF Fresh
    <2> QED
      BY <2>1, <2>2, <2>3
  <1>6. FreshOnDisk'
    BY <1>5 DEF FreshOnDisk
  <1>7. RecordedOnDisk' /\ InHand' /\ UnlinkedUnrecorded'
    BY DEF RecordedOnDisk, InHand, Opened, UnlinkedUnrecorded
  <1> QED
    BY <1>4, <1>6, <1>7

LEMMA WithdrawInv == ASSUME VideoInv, NEW p \in Part, Withdraw(p) PROVE VideoInv'
  <1> USE DEF VideoInv, Withdraw, local
  <1>1. left' \in [Part -> Nat]
    BY DEF VideoTypeOK
  <1>2. VideoTypeOK'
    BY <1>1 DEF VideoTypeOK
  <1>3. RecordedOnDisk' /\ FreshOnDisk' /\ InHand' /\ UnlinkedUnrecorded'
    BY DEF RecordedOnDisk, FreshOnDisk, InHand, Opened, UnlinkedUnrecorded, Fresh
  <1> QED
    BY <1>2, <1>3

(* The steps that touch neither rows nor files, and start no download.     *)
LEMMA NothingWrittenInv ==
    ASSUME VideoInv, UNCHANGED <<backend, local, part, unlinking>>,
           vpc' \in {"idle", "parts", "done"}, plan' \subseteq Part, todo' \subseteq Part
    PROVE  VideoInv'
  <1> USE DEF VideoInv, backend, local
  <1>1. VideoTypeOK'
    BY DEF VideoTypeOK
  <1>2. RecordedOnDisk' /\ FreshOnDisk'
    BY DEF RecordedOnDisk, FreshOnDisk, Fresh
  <1>3. InHand' /\ UnlinkedUnrecorded'
    BY DEF InHand, UnlinkedUnrecorded
  <1> QED
    BY <1>1, <1>2, <1>3

(* Deleting rows makes nothing current, and the files of those rows are    *)
(* the ones to unlink.                                                     *)
LEMMA DeleteRowsInv ==
    ASSUME VideoInv, NEW P \in SUBSET Part, DeleteRows(P), unlinking = {}, vpc = "parts",
           todo' \subseteq Part,
           UNCHANGED <<backend, file, spoiled, returned, videoFaults, vpc, plan, part>>
    PROVE  VideoInv'
  <1> USE DEF VideoInv, DeleteRows, backend
  <1>1. \A q \in Part : row'[q] = IF q \in P THEN 0 ELSE row[q]
    OBVIOUS
  <1>2. row' \in [Part -> Version]
    BY DEF VideoTypeOK, Version
  <1>3. unlinking' \subseteq Part
    OBVIOUS
  <1>4. VideoTypeOK'
    BY <1>2, <1>3 DEF VideoTypeOK
  <1>5. \A q \in Part : row'[q] # 0 => row'[q] = row[q]
    BY <1>1
  <1>6. RecordedOnDisk'
    BY <1>5 DEF RecordedOnDisk
  <1>7. FreshOnDisk'
    BY <1>5 DEF FreshOnDisk, Fresh
  <1>8. InHand' /\ UnlinkedUnrecorded'
    BY <1>1 DEF InHand, UnlinkedUnrecorded
  <1> QED
    BY <1>4, <1>6, <1>7, <1>8

(* The file of a part may be given a version its row does not have, when   *)
(* the row does not name the backend's or the part is noted as returned:   *)
(* no other part notices.                                                  *)
LEMMA FileInv ==
    ASSUME VideoInv, NEW p \in Part, Fresh(p) => p \in returned,
           NEW f \in [v : Version, size : {"none", "part", "whole"}],
           row[p] = 0 \/ f.v # row[p], file' = [file EXCEPT ![p] = f],
           spoiled' \subseteq Part, spoiled \ {p} \subseteq spoiled',
           UNCHANGED <<backend, row, returned>>
    PROVE  /\ file' \in [Part -> [v : Version, size : {"none", "part", "whole"}]]
           /\ RecordedOnDisk' /\ FreshOnDisk'
           /\ file'[p] = f
  <1> USE DEF VideoInv, backend
  <1>1. file' \in [Part -> [v : Version, size : {"none", "part", "whole"}]]
    BY DEF VideoTypeOK
  <1>2. \A q \in Part : file'[q] = IF q = p THEN f ELSE file[q]
    BY DEF VideoTypeOK
  <1>3. RecordedOnDisk'
    BY <1>2 DEF RecordedOnDisk
  <1>4. FreshOnDisk'
    BY <1>2 DEF FreshOnDisk, Fresh
  <1> QED
    BY <1>1, <1>2, <1>3, <1>4

LEMMA OpenInv == ASSUME VideoInv, NEW p \in Part, OpenFile(p) PROVE VideoInv'
  <1> DEFINE f == [v |-> version[p], size |-> "part"]
  <1>1. f \in [v : Version, size : {"none", "part", "whole"}]
    BY DEF VideoInv, VideoTypeOK
  <1>2. ~Fresh(p) /\ (row[p] = 0 \/ f.v # row[p]) /\ file' = [file EXCEPT ![p] = f]
    BY DEF OpenFile, Fresh
  <1>3. /\ spoiled' \subseteq Part /\ spoiled \ {p} \subseteq spoiled'
        /\ UNCHANGED <<backend, row, returned>>
    BY DEF OpenFile, VideoInv, VideoTypeOK
  <1>4. /\ file' \in [Part -> [v : Version, size : {"none", "part", "whole"}]]
        /\ RecordedOnDisk' /\ FreshOnDisk' /\ file'[p] = f
    BY <1>1, <1>2, <1>3, FileInv
  <1>5. VideoTypeOK'
    BY <1>4 DEF OpenFile, Turn, VideoInv, VideoTypeOK, backend
  <1>6. part' = p /\ UNCHANGED <<row, unlinking>> /\ unlinking = {} /\ vpc' = "body"
    BY DEF OpenFile, Turn
  <1>7. InHand'
    BY <1>2, <1>4, <1>6 DEF InHand, Opened
  <1>8. UnlinkedUnrecorded'
    BY DEF OpenFile, VideoInv, UnlinkedUnrecorded
  <1> QED
    BY <1>4, <1>5, <1>7, <1>8 DEF VideoInv

(* What the download writes into the file of the part in hand, and what it *)
(* removes there.                                                          *)
LEMMA WriteInv ==
    ASSUME VideoInv, vpc = "body",
           NEW f \in [v : Version, size : {"none", "part", "whole"}],
           f.v = file[part].v \/ f.v = 0, file' = [file EXCEPT ![part] = f],
           spoiled' \subseteq Part, spoiled \ {part} \subseteq spoiled',
           vpc' = "stored" => part' = part /\ f.v = file[part].v,
           vpc' = "stored" => f.size = "whole" \/ part \in spoiled',
           vpc' \in {"stored", "parts"}, part' \in Part \cup {NoPart},
           videoFaults' \in 0..MaxVideoFaults,
           UNCHANGED <<backend, row, returned, plan, todo, unlinking>>
    PROVE  VideoInv'
  <1>1. part \in Part /\ unlinking = {} /\ Opened(part)
    BY DEF VideoInv, InHand
  <1>2. PICK p \in Part : p = part
    BY <1>1
  <1>3. Fresh(p) => p \in returned
    BY <1>1, <1>2 DEF VideoInv, FreshOnDisk, Fresh, Opened
  <1>4. row[p] = 0 \/ f.v # row[p]
    BY <1>1, <1>2 DEF Opened
  <1>5. /\ file' \in [Part -> [v : Version, size : {"none", "part", "whole"}]]
        /\ RecordedOnDisk' /\ FreshOnDisk' /\ file'[p] = f
    BY <1>2, <1>3, <1>4, FileInv
  <1>6. VideoTypeOK'
    BY <1>5 DEF VideoInv, VideoTypeOK, backend
  <1>7. UnlinkedUnrecorded'
    BY DEF VideoInv, UnlinkedUnrecorded
  <1>8. InHand'
    BY <1>1, <1>2, <1>4, <1>5 DEF InHand, Opened
  <1> QED
    BY <1>5, <1>6, <1>7, <1>8 DEF VideoInv

LEMMA BodyInv ==
    ASSUME VideoInv, BodyComplete \/ BodyShort \/ BodyBreaks \/ BodyEmpty
    PROVE  VideoInv'
  <1>1. vpc = "body"
    BY DEF BodyComplete, BodyShort, BodyBreaks, BodyEmpty
  <1>2. part \in Part
    BY <1>1 DEF VideoInv, InHand
  <1>3. /\ file \in [Part -> [v : Version, size : {"none", "part", "whole"}]]
        /\ spoiled \subseteq Part /\ videoFaults \in 0..MaxVideoFaults
    BY DEF VideoInv, VideoTypeOK
  <1>4. file[part] \in [v : Version, size : {"none", "part", "whole"}]
    BY <1>2, <1>3
  <1>5. CASE BodyComplete
    <2> DEFINE f == [v |-> file[part].v, size |-> "whole"]
    <2>1. f \in [v : Version, size : {"none", "part", "whole"}]
      BY <1>4
    <2>2. [file[part] EXCEPT !.size = "whole"] = f
      BY <1>4
    <2>3. file' = [file EXCEPT ![part] = f]
      BY <1>2, <1>3, <1>5, <2>2 DEF BodyComplete
    <2>4. spoiled' \subseteq Part /\ spoiled \ {part} \subseteq spoiled'
      BY <1>3, <1>5 DEF BodyComplete
    <2>5. /\ vpc' = "stored" /\ part' = part /\ videoFaults' = videoFaults
          /\ UNCHANGED <<backend, row, returned, plan, todo, unlinking>>
      BY <1>5 DEF BodyComplete
    <2> QED
      BY <1>1, <1>2, <1>3, <2>1, <2>3, <2>4, <2>5, WriteInv
  <1>6. CASE BodyShort
    <2> DEFINE f == file[part]
    <2>1. file' = [file EXCEPT ![part] = f]
      BY <1>2, <1>3, <1>6 DEF BodyShort
    <2>2. f.v = file[part].v
      OBVIOUS
    <2>3. part \in spoiled' /\ spoiled' \subseteq Part /\ spoiled \ {part} \subseteq spoiled'
      BY <1>2, <1>3, <1>6 DEF BodyShort
    <2>4. videoFaults' \in 0..MaxVideoFaults
      BY <1>3, <1>6, VideoBoundAssumption DEF BodyShort
    <2>5. /\ vpc' = "stored" /\ part' = part
          /\ UNCHANGED <<backend, row, returned, plan, todo, unlinking>>
      BY <1>6 DEF BodyShort
    <2> QED
      BY <1>1, <1>2, <1>4, <2>1, <2>2, <2>3, <2>4, <2>5, WriteInv
  <1>7. CASE BodyBreaks
    <2>1. vpc' = "parts" /\ part' = NoPart /\ UNCHANGED <<backend, local, plan, todo, unlinking>>
      BY <1>7 DEF BodyBreaks, AfterCut
    <2>2. VideoTypeOK'
      BY <2>1 DEF backend, local, VideoInv, VideoTypeOK
    <2>3. RecordedOnDisk' /\ FreshOnDisk' /\ UnlinkedUnrecorded' /\ InHand'
      BY <2>1 DEF backend, local, VideoInv, RecordedOnDisk, FreshOnDisk, Fresh,
                  InHand, UnlinkedUnrecorded
    <2> QED
      BY <2>2, <2>3 DEF VideoInv
  <1>8. CASE BodyEmpty
    <2>1. NoFile \in [v : Version, size : {"none", "part", "whole"}] /\ NoFile.v = 0
      BY DEF NoFile, Version
    <2>2. /\ file' = [file EXCEPT ![part] = NoFile]
          /\ vpc' = "parts" /\ part' = NoPart /\ spoiled' = spoiled /\ videoFaults' = videoFaults
          /\ UNCHANGED <<backend, row, returned, plan, todo, unlinking>>
      BY <1>8 DEF BodyEmpty
    <2>3. spoiled' \subseteq Part /\ spoiled \ {part} \subseteq spoiled'
      BY <1>3, <2>2
    <2> QED
      BY <1>1, <1>3, <2>1, <2>2, <2>3, WriteInv
  <1> QED
    BY <1>5, <1>6, <1>7, <1>8

(* Only here does a part become current, and its file is whole.            *)
LEMMA RecordInv == ASSUME VideoInv, Record PROVE VideoInv'
  <1> USE DEF VideoInv, Record, backend
  <1>1. /\ part \in Part /\ unlinking = {}
        /\ file[part].size = "whole" \/ part \in spoiled
    BY DEF InHand
  <1>2. file[part] \in [v : Version, size : {"none", "part", "whole"}]
    BY <1>1 DEF VideoTypeOK
  <1>3. \A q \in Part : row'[q] = IF q = part THEN file[part].v ELSE row[q]
    BY <1>1 DEF VideoTypeOK
  <1>4. row' \in [Part -> Version] /\ returned' \subseteq Part
    BY <1>1, <1>2 DEF VideoTypeOK
  <1>5. VideoTypeOK'
    BY <1>4 DEF VideoTypeOK
  <1>6. RecordedOnDisk'
    BY <1>1, <1>3 DEF RecordedOnDisk
  <1>7. FreshOnDisk'
    BY <1>1, <1>3 DEF FreshOnDisk, Fresh
  <1> QED
    BY <1>1, <1>5, <1>6, <1>7 DEF InHand, UnlinkedUnrecorded

LEMMA UnlinkInv == ASSUME VideoInv, UnlinkFile PROVE VideoInv'
  <1>1. PICK p \in unlinking : file' = [file EXCEPT ![p] = NoFile] /\ unlinking' = unlinking \ {p}
    BY DEF UnlinkFile
  <1>2. p \in Part /\ row[p] = 0 /\ ~Fresh(p)
    BY <1>1 DEF VideoInv, VideoTypeOK, UnlinkedUnrecorded, Fresh
  <1>3. NoFile \in [v : Version, size : {"none", "part", "whole"}]
    BY DEF NoFile, Version
  <1>4. spoiled' \subseteq Part /\ spoiled \ {p} \subseteq spoiled'
    BY DEF UnlinkFile, VideoInv, VideoTypeOK
  <1>5. UNCHANGED <<backend, row, returned>>
    BY DEF UnlinkFile
  <1>6. /\ file' \in [Part -> [v : Version, size : {"none", "part", "whole"}]]
        /\ RecordedOnDisk' /\ FreshOnDisk'
    BY <1>1, <1>2, <1>3, <1>4, <1>5, FileInv
  <1>7. VideoTypeOK'
    BY <1>1, <1>6 DEF UnlinkFile, VideoInv, VideoTypeOK, backend
  <1>8. InHand' /\ UnlinkedUnrecorded'
    BY <1>1 DEF UnlinkFile, VideoInv, InHand, UnlinkedUnrecorded
  <1> QED
    BY <1>6, <1>7, <1>8 DEF VideoInv

LEMMA FetchInv == ASSUME VideoInv, FetchVideos PROVE VideoInv'
  <1>1. CASE ListVideos \/ ListFails \/ VideosDone
    <2>1. /\ vpc' \in {"idle", "parts", "done"} /\ plan' \subseteq Part /\ todo' \subseteq Part
          /\ UNCHANGED <<backend, local, part, unlinking>>
      BY <1>1 DEF ListVideos, ListFails, VideosDone, VideoInv, VideoTypeOK
    <2> QED
      BY <2>1, NothingWrittenInv
  <1>2. CASE \E p \in Part : GetFails(p) \/ NotModified(p)
    <2>1. /\ vpc' \in {"idle", "parts", "done"} /\ plan' \subseteq Part /\ todo' \subseteq Part
          /\ UNCHANGED <<backend, local, part, unlinking>>
      BY <1>2 DEF GetFails, NotModified, Turn, VideoInv, VideoTypeOK
    <2> QED
      BY <2>1, NothingWrittenInv
  <1>3. CASE \E p \in Part : PurgePart(p)
    <2>1. PICK p \in Part : PurgePart(p)
      BY <1>3
    <2>2. todo' \subseteq Part
      BY <2>1 DEF PurgePart, Turn, VideoInv, VideoTypeOK
    <2> QED
      BY <2>1, <2>2, DeleteRowsInv DEF PurgePart, Turn
  <1>4. CASE PurgeVideo
    <2>1. PICK v \in Unselected : DeleteRows(PartsOf(v))
      BY <1>4 DEF PurgeVideo
    <2>2. PartsOf(v) \in SUBSET Part
      BY DEF PartsOf
    <2>3. todo' \subseteq Part
      BY <1>4 DEF PurgeVideo, VideoInv, VideoTypeOK
    <2> QED
      BY <1>4, <2>1, <2>2, <2>3, DeleteRowsInv DEF PurgeVideo
  <1>5. CASE \E p \in Part : OpenFile(p)
    BY <1>5, OpenInv
  <1>6. CASE UnlinkFile
    BY <1>6, UnlinkInv
  <1>7. CASE Record
    BY <1>7, RecordInv
  <1>8. CASE BodyComplete \/ BodyShort \/ BodyBreaks \/ BodyEmpty
    BY <1>8, BodyInv
  <1> QED
    BY <1>1, <1>2, <1>3, <1>4, <1>5, <1>6, <1>7, <1>8 DEF FetchVideos

(* The tick ends anywhere; a power cut may also spoil a file.              *)
LEMMA AbandonInv ==
    ASSUME VideoInv, Abandon, UNCHANGED <<row, returned>>,
           Spoil \/ (UNCHANGED <<file, spoiled>> /\ videoFaults' \in 0..MaxVideoFaults)
    PROVE  VideoInv'
  <1> USE DEF VideoInv, Abandon, backend
  <1>1. UnlinkedUnrecorded' /\ InHand'
    BY DEF UnlinkedUnrecorded, InHand
  <1>2. CASE UNCHANGED <<file, spoiled>> /\ videoFaults' \in 0..MaxVideoFaults
    <2>1. VideoTypeOK'
      BY <1>2 DEF VideoTypeOK
    <2>2. RecordedOnDisk' /\ FreshOnDisk'
      BY <1>2 DEF RecordedOnDisk, FreshOnDisk, Fresh
    <2> QED
      BY <1>1, <2>1, <2>2
  <1>3. CASE Spoil
    <2>1. PICK p \in Part : file' = [file EXCEPT ![p].size = "part"] /\ spoiled' = spoiled \cup {p}
      BY <1>3 DEF Spoil
    <2>2. videoFaults' \in 0..MaxVideoFaults
      BY <1>3, VideoBoundAssumption DEF Spoil, VideoTypeOK
    <2>3. /\ \A q \in Part : q # p => file'[q] = file[q]
          /\ file'[p].v = file[p].v
          /\ file' \in [Part -> [v : Version, size : {"none", "part", "whole"}]]
      BY <2>1 DEF VideoTypeOK
    <2>4. VideoTypeOK'
      BY <2>1, <2>2, <2>3 DEF VideoTypeOK
    <2>5. RecordedOnDisk'
      BY <2>1, <2>3 DEF RecordedOnDisk
    <2>6. FreshOnDisk'
      BY <2>3 DEF FreshOnDisk, Fresh
    <2> QED
      BY <1>1, <2>4, <2>5, <2>6
  <1> QED
    BY <1>2, <1>3

LEMMA BackendInv == ASSUME VideoInv, ChangeVideos PROVE VideoInv'
  BY PublishInv, WithdrawInv DEF ChangeVideos

LEMMA VideoUnchanged == ASSUME VideoInv, UNCHANGED videoVars PROVE VideoInv'
  <1> USE DEF VideoInv, videoVars, backend, local
  <1>1. VideoTypeOK'
    BY DEF VideoTypeOK
  <1>2. RecordedOnDisk' /\ FreshOnDisk'
    BY DEF RecordedOnDisk, FreshOnDisk, Fresh
  <1>3. InHand' /\ UnlinkedUnrecorded'
    BY DEF InHand, Opened, UnlinkedUnrecorded
  <1> QED
    BY <1>1, <1>2, <1>3

-----------------------------------------------------------------------------
(* The tick: nothing but the flush touches a batch, so that outside the    *)
(* flush none is in flight.                                                *)
InPhase == phase \in {"sleep", "videos", "flush"} /\ (pc # "idle" => phase = "flush")

TickInv == IInv /\ VideoInv /\ InPhase

(* A step of the tick is one of the queue's, or leaves the queue alone.    *)
LEMMA TickStepsQueue == ASSUME [TickNext]_tickVars PROVE [Next]_vars
  <1>1. CASE FlushStep
    BY <1>1 DEF FlushStep, Next
  <1>2. CASE TickDies \/ PowerCut
    BY <1>2 DEF TickDies, PowerCut, Abandon, Next
  <1>3. CASE QueueEvent
    BY <1>3 DEF Next
  <1>4. CASE PullSucceeds \/ PullFails \/ VideoStep \/ AfterVideos \/ NothingQueued
    BY <1>4 DEF PullSucceeds, PullFails, VideoStep, AfterVideos, NothingQueued
  <1>5. CASE UNCHANGED tickVars \/ UNCHANGED vars
    BY <1>5 DEF tickVars
  <1> QED
    BY <1>1, <1>2, <1>3, <1>4, <1>5 DEF TickNext, TickStep, OtherProcesses

LEMMA TickStepsVideos == ASSUME VideoInv, [TickNext]_tickVars PROVE VideoInv'
  <1>1. CASE PullSucceeds
    <2>1. /\ vpc' \in {"idle", "parts", "done"} /\ plan' \subseteq Part /\ todo' \subseteq Part
          /\ UNCHANGED <<backend, local, part, unlinking>>
      BY <1>1 DEF PullSucceeds, VideoInv, VideoTypeOK
    <2> QED
      BY <2>1, NothingWrittenInv
  <1>2. CASE VideoStep
    BY <1>2, FetchInv DEF VideoStep
  <1>3. CASE TickDies
    <2>1. videoFaults' \in 0..MaxVideoFaults
      BY <1>3, VideoBoundAssumption DEF TickDies, VideoInv, VideoTypeOK
    <2> QED
      BY <1>3, <2>1, AbandonInv DEF TickDies
  <1>4. CASE PowerCut
    BY <1>4, AbandonInv DEF PowerCut
  <1>5. CASE ChangeVideos
    BY <1>5, BackendInv
  <1>6. CASE UNCHANGED videoVars \/ UNCHANGED tickVars
    BY <1>6, VideoUnchanged DEF tickVars
  <1> QED
    BY <1>1, <1>2, <1>3, <1>4, <1>5, <1>6
    DEF TickNext, TickStep, OtherProcesses, PullFails, AfterVideos, FlushStep, NothingQueued

LEMMA PhaseStep == ASSUME InPhase, [TickNext]_tickVars PROVE InPhase'
  <1>1. CASE FlushStep
    BY <1>1 DEF FlushStep, InPhase
  <1>2. CASE TickDies \/ PowerCut
    BY <1>2 DEF TickDies, PowerCut, Abandon, Crash, InPhase, vars
  <1>3. CASE PullSucceeds \/ PullFails \/ VideoStep \/ AfterVideos \/ NothingQueued \/ OtherProcesses
    BY <1>3 DEF PullSucceeds, PullFails, VideoStep, AfterVideos, NothingQueued, OtherProcesses,
                QueueEvent, InPhase, vars
  <1>4. CASE UNCHANGED tickVars
    BY <1>4 DEF tickVars, vars, InPhase
  <1> QED
    BY <1>1, <1>2, <1>3, <1>4 DEF TickNext, TickStep

LEMMA TickInvHolds == TickSpec => []TickInv
  <1>1. TickInit => TickInv
    <2> SUFFICES ASSUME TickInit PROVE TickInv
      OBVIOUS
    <2>1. IInv /\ VideoInv
      BY InitInv, VideoInitInv DEF TickInit
    <2>2. InPhase
      BY DEF TickInit, Init, InPhase
    <2> QED
      BY <2>1, <2>2 DEF TickInv
  <1>2. TickInv /\ [TickNext]_tickVars => TickInv'
    BY TickStepsQueue, NextInv, TickStepsVideos, PhaseStep DEF TickInv
  <1> QED
    BY <1>1, <1>2, PTL DEF TickSpec

-----------------------------------------------------------------------------
(* The sync client's tick, with its pulls, videos, exceptions and power    *)
(* cuts, is an event queue: whatever is true of every run of EventQueue is *)
(* true of every run of run_once.                                          *)
THEOREM TickRunsTheQueue == TickSpec => Spec
  <1>1. TickInit => Init
    BY DEF TickInit
  <1>2. [TickNext]_tickVars => [Next]_vars
    BY TickStepsQueue
  <1> QED
    BY <1>1, <1>2, PTL DEF TickSpec, Spec

(* The state of the tick, its queue and its videos keeps its types, and a  *)
(* batch is in flight only during the flush.                               *)
THEOREM TickTypeCorrect == TickSpec => []TickTypeOK
  <1>1. TickInv => TickTypeOK
    BY DEF TickInv, IInv, VideoInv, InPhase, TickTypeOK
  <1> QED
    BY <1>1, TickInvHolds, PTL

(* A queued event stays queued until the backend has it, although the same *)
(* process downloads videos, dies in the middle of one and loses power.    *)
THEOREM TickKeepsEvents == TickSpec => []NothingLost
  BY TickRunsTheQueue, EventsKept, PTL

(* Also in the tick only a lost reply or a crash sends an event twice.     *)
THEOREM TickDuplicatesPaid == TickSpec => []DuplicatesNeedFaults
  BY TickRunsTheQueue, DuplicatesPaid, PTL

(* The tick delivers at least once and in order: its steps are those of    *)
(* the abstract queue (the safety half of DeliverySpec).                   *)
THEOREM TickImplements == TickSpec => Delivery!Init /\ [][Delivery!Next]_<<nextId - 1, Got>>
  BY TickRunsTheQueue, Implements, PTL

(* A part that the next request would find unchanged is whole on the disk, *)
(* wherever fetch_background_video was interrupted; the exceptions are the *)
(* bodies cut short unnoticed, the files a power cut emptied, and a        *)
(* backend that went back to the recorded version after the file had been  *)
(* opened for another.                                                     *)
THEOREM RecordedIsWhole == TickSpec => []DamageIsRefetched
  <1>1. TickInv => DamageIsRefetched
    BY Refetched DEF TickInv
  <1> QED
    BY <1>1, TickInvHolds, PTL
=============================================================================
