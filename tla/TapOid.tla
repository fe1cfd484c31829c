-------------------------------- MODULE TapOid --------------------------------
(***************************************************************************)
(* What the adapter answers to an OID query, as far as lengths go: NDIS    *)
(* asks with a buffer of some length and may ask again with a buffer of    *)
(* the length it was told is needed (tapQueryInformation).                 *)
(***************************************************************************)
EXTENDS Naturals

CONSTANTS
  Oids,            \* the OIDs that are asked for
  ULongOids,       \* those that are answered with a ULONG
  StructureOids,   \* OID_GEN_STATISTICS and OID_GEN_INTERRUPT_MODERATION
  FrameCountOids,  \* OID_GEN_XMIT_OK and OID_GEN_RCV_OK
  InfoSize,        \* the length of the answer to any other OID,
  StructureSize,   \* of the structure, as the headers declare it,
  RevisionSize,    \* and of its first revision
  BufferLengths    \* the lengths of the buffers NDIS asks with

SizeofULong == 4
SizeofULong64 == 8

Sizes == Nat \ {0}

ASSUME LengthsAssumption == BufferLengths \subseteq Nat

ASSUME OidsAssumption ==
  /\ ULongOids \subseteq Oids /\ StructureOids \subseteq Oids /\ FrameCountOids \subseteq Oids
  /\ FrameCountOids \cap StructureOids = {}
  /\ ULongOids \cap (StructureOids \cup FrameCountOids) = {}

\* C_ASSERT(sizeof(NDIS_STATISTICS_INFO) >= NDIS_SIZEOF_STATISTICS_INFO_REVISION_1)
ASSUME SizesAssumption ==
  /\ InfoSize \in [Oids -> Sizes]
  /\ StructureSize \in [StructureOids -> Sizes]
  /\ RevisionSize \in [StructureOids -> Sizes]
  /\ \A oid \in StructureOids : StructureSize[oid] >= RevisionSize[oid]

\* The frame counts are ULONG64, but a buffer that is shorter gets a ULONG.
FrameCountLength(length) ==
  IF length >= SizeofULong64 \/ length = 0 THEN SizeofULong64 ELSE SizeofULong

ulInfoLen(oid, length) ==
  IF oid \in FrameCountOids THEN FrameCountLength(length)
  ELSE IF oid \in StructureOids THEN RevisionSize[oid]
  ELSE IF oid \in ULongOids THEN SizeofULong
  ELSE InfoSize[oid]

\* A structure is only filled in if the whole of it fits, as the headers declare it.
TooShortForStructure(oid, length) == oid \in StructureOids /\ length < StructureSize[oid]

\* A frame count always reports that 8 bytes are needed, unless the buffer is too short
\* for it.
Needed(oid) == IF oid \in FrameCountOids THEN SizeofULong64 ELSE 0

Reply(oid, length) ==
  IF TooShortForStructure(oid, length)
    THEN [status |-> "invalidLength", needed |-> StructureSize[oid], written |-> 0]
  ELSE IF ulInfoLen(oid, length) <= length
    THEN [status |-> "success", needed |-> Needed(oid), written |-> ulInfoLen(oid, length)]
  ELSE [status |-> "bufferTooShort", needed |-> ulInfoLen(oid, length), written |-> 0]

-----------------------------------------------------------------------------
(* Correctness                                                             *)

\* A query whose buffer was too short succeeds when it is repeated with a buffer of the
\* length that the first answer asked for, and fills no more than that buffer, although
\* the length of some answers depends on the length of the buffer.
RetrySucceeds ==
  \A oid \in Oids, length \in BufferLengths :
    LET first == Reply(oid, length)
        second == Reply(oid, first.needed)
    IN  first.status # "success" => second.status = "success" /\ second.written <= first.needed
===============================================================================
