----------------------------- MODULE MCTapFilter -----------------------------
EXTENDS TapFilter, TapOid

Address(h, t) == [head |-> h, tail |-> t]
MCNull == Address("0", "0")
MCGroup == Address("33:33", "00:00:00:01")
MCOther == Address("33:33", "00:00:00:02")
MCCross == Address("01:00", "00:00:00:01")
MCAddresses == {MCGroup, MCOther, MCCross}

Frame(kind, tagged, length) == [kind |-> kind, to |-> MCGroup, tagged |-> tagged, length |-> length]

MCFrames ==
  {Frame("own", FALSE, 13), Frame("foreign", FALSE, 16), Frame("own", TRUE, 46),
   Frame("broadcast", TRUE, 64), Frame("multicast", FALSE, 95)}

MCFilters == {{"multicast", "broadcast"}, {"directed", "allMulticast"}, {"promiscuous"}}

MCLists == {<<MCGroup>>, <<MCCross, MCGroup>>, <<MCOther, MCCross, MCGroup>>}

MCInfoSize == [oid \in {"address", "filter", "statistics", "moderation", "rcvOk"} |->
  IF oid = "address" THEN 6 ELSE IF oid = "filter" THEN 4 ELSE 8]
MCStructureSize == [oid \in {"statistics", "moderation"} |-> IF oid = "statistics" THEN 24 ELSE 12]
MCRevisionSize == [oid \in {"statistics", "moderation"} |-> IF oid = "statistics" THEN 20 ELSE 12]
MCBufferLengths == 0 .. 25

\* What is proved of OID queries, evaluated here for a few of them.
ASSUME RetrySucceeds
=============================================================================
