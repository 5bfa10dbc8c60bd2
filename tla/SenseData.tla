------------------------------ MODULE SenseData ------------------------------
(***************************************************************************)
(* The parser of SCSI sense data of frameworks/ddk/scsi/scsi_ddk_api.cpp.  *)
(* senseData[i] of the code is data[i + 1]; a multi-byte number stands for *)
(* itself as the sequence of its bytes.                                    *)
(***************************************************************************)
LOCAL INSTANCE Integers
LOCAL INSTANCE Sequences
LOCAL INSTANCE FiniteSets
LOCAL INSTANCE FiniteSetsExt
LOCAL INSTANCE SequencesExt

SCSIPERIPHERAL_MIN_DESCRIPTOR_FORMAT_SENSE == 8
SCSIPERIPHERAL_MIN_FIXED_FORMAT_SENSE == 18
VALID_BIT == 128

Bytes(data, start, n) == SubSeq(data, start + 1, start + n)
\* GetUint24(...) & MASK_SENSE_KEY_SPECIFIC: the bit the mask clears is the top one.
KeySpecific(data, start) == <<data[start + 1] % VALID_BIT>> \o Bytes(data, start + 1, 2)
BitSet(data, i) == data[i + 1] >= VALID_BIT

\* A structure the caller zeroed.
NoSenseInfo ==
  [responseCode |-> 0, valid |-> FALSE, information |-> <<>>, commandSpecific |-> <<>>,
   sksv |-> FALSE, senseKeySpecific |-> <<>>]

ParseFixedFormatSense(data, info) ==
  [info EXCEPT !.valid = BitSet(data, 0),
               !.information = IF BitSet(data, 0) THEN Bytes(data, 3, 4) ELSE @,
               !.commandSpecific = Bytes(data, 8, 4),
               !.sksv = BitSet(data, 15),
               !.senseKeySpecific = KeySpecific(data, 15)]

\* What one whole descriptor at idx adds.
WithDescriptor(data, idx, info) ==
  LET descType == data[idx + 1]
      descLen == data[idx + 2]
  IN CASE descType = 0 /\ descLen = 10 ->
            [info EXCEPT !.valid = BitSet(data, idx + 2),
                         !.information = Bytes(data, idx + 4, 8)]
       [] descType = 1 /\ descLen = 10 ->
            [info EXCEPT !.commandSpecific = Bytes(data, idx + 4, 8)]
       [] descType = 2 /\ descLen = 6 ->
            [info EXCEPT !.sksv = BitSet(data, idx + 4),
                         !.senseKeySpecific = KeySpecific(data, idx + 4)]
       [] OTHER -> info

\* Variant: the two bytes of the descriptor's header are forgotten.
DescriptorFitsBody(idx, descLen, senseDataLen) == idx + descLen <= senseDataLen

DescriptorFits(idx, descLen, senseDataLen) == idx + descLen + 2 <= senseDataLen

\* At the last byte the code still reads a length, one byte past the data: whatever it is,
\* the descriptor does not fit.
RECURSIVE SenseDescriptors(_, _, _, _)
SenseDescriptors(data, idx, senseDataLen, info) ==
  IF idx + 1 >= senseDataLen \/ ~DescriptorFits(idx, data[idx + 2], senseDataLen)
  THEN info
  ELSE SenseDescriptors(data, idx + data[idx + 2] + 2, senseDataLen,
                        WithDescriptor(data, idx, info))

ParseDescriptorFormatSense(data, senseDataLen, info) ==
  SenseDescriptors(data, 8, Min({senseDataLen, data[8] + 8}), info)

\* The information, or {} for INVALID_PARAMETER.
ParseBasicSenseInfo(data, senseDataLen) ==
  LET code == data[1] % VALID_BIT
      info == [NoSenseInfo EXCEPT !.responseCode = code]
  IN IF code \in {112, 113} /\ senseDataLen >= SCSIPERIPHERAL_MIN_FIXED_FORMAT_SENSE
     THEN {ParseFixedFormatSense(data, info)}
     ELSE IF code \in {114, 115} /\ senseDataLen >= SCSIPERIPHERAL_MIN_DESCRIPTOR_FORMAT_SENSE
     THEN {ParseDescriptorFormatSense(data, senseDataLen, info)}
     ELSE {}

------------------------------------------------------------------------------
(* The reference: sense data as a list of descriptors [type, body]. *)

SenseHeader(additional) == <<114, 0, 0, 0, 0, 0, 0, additional>>
EncodeSense(list, additional) ==
  SenseHeader(additional)
    \o FlattenSeq([i \in DOMAIN list |-> <<list[i].type, Len(list[i].body)>> \o list[i].body])

EndOf(list, i) == Len(EncodeSense(SubSeq(list, 1, i), 0))

\* The body of the last descriptor of a type and length that ends within the data, as a set.
LastBody(list, len, type, n) ==
  LET whole == {i \in DOMAIN list : /\ list[i].type = type
                                    /\ Len(list[i].body) = n
                                    /\ EndOf(list, i) <= len}
  IN IF whole = {} THEN {} ELSE {list[Max(whole)].body}
==============================================================================
