------------------------------ MODULE ScsiData ------------------------------
(***************************************************************************)
(* The moves of frameworks/ddk/scsi/scsi_ddk_api.cpp in the shared memory  *)
(* map.  A map is [bytes, offset, bufferLength].                           *)
(***************************************************************************)
LOCAL INSTANCE Integers
LOCAL INSTANCE Sequences

ValidateMemMap(data) ==
  /\ data.offset <= Len(data.bytes)
  /\ data.bufferLength <= Len(data.bytes) - data.offset
  /\ data.bufferLength # 0

\* memmove of n bytes inside the map.
MoveBytes(bytes, to, from, n) ==
  [i \in DOMAIN bytes |-> IF to < i /\ i <= to + n THEN bytes[i - to + from] ELSE bytes[i]]

\* The service works on the front of the map: the used buffer is moved there before a call,
NormalizeMemMap(data) ==
  [data EXCEPT !.bytes = MoveBytes(@, 0, data.offset, data.bufferLength)]

\* Variant: the transferred bytes stay at the front.
RestoreNothing(data, transferredLength) == data

\* and what was transferred is moved back after a successful one.
RestoreMemMap(data, transferredLength) ==
  IF data.offset = 0 \/ transferredLength = 0 THEN data
  ELSE LET room == Len(data.bytes) - data.offset
           n == IF transferredLength < room THEN transferredLength ELSE room
       IN [data EXCEPT !.bytes = MoveBytes(@, data.offset, 0, n)]

UsedBuffer(data) == SubSeq(data.bytes, data.offset + 1, data.offset + data.bufferLength)
==============================================================================
