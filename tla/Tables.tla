------------------------------- MODULE Tables --------------------------------
(* The tables, descriptors and messages of crates/chibitv_b10 (ISDB-T) and  *)
(* crates/chibitv_b60 (ISDB-S), each with the name of its struct.           *)
EXTENDS Layouts

-----------------------------------------------------------------------------
(* Descriptors of ISDB-T. *)

CaDescriptor == <<AtLeast(4), Fixed(4), Copied>>
NetworkNameDescriptor == <<Copied>>
ServiceListDescriptor == <<ToEnd(<<Fixed(3)>>)>>
ServiceDescriptor == <<Fixed(1), Data(Byte), Data(Byte)>>
ShortEventDescriptor == <<Fixed(3), Data(Byte), Data(Byte)>>
ExtendedEventItem == <<Checked(Byte, <<Copied>>), Checked(Byte, <<Copied>>)>>
ExtendedEventDescriptor ==
    <<AtLeast(5), Fixed(4), Checked(Byte, <<ToEnd(ExtendedEventItem)>>),
      Checked(Byte, <<Copied>>)>>

Descriptor ==
    <<OneOf(Byte,
            <<Tagged(\h09, <<Within(Byte, CaDescriptor)>>),
              Tagged(\h40, <<Within(Byte, NetworkNameDescriptor)>>),
              Tagged(\h41, <<Within(Byte, ServiceListDescriptor)>>),
              Tagged(\h48, <<Within(Byte, ServiceDescriptor)>>),
              Tagged(\h4D, <<Within(Byte, ShortEventDescriptor)>>),
              Tagged(\h4E, <<Within(Byte, ExtendedEventDescriptor)>>)>>,
            <<UpTo(255, <<Data(Byte)>>)>>)>>

\* read_descriptors().
Descriptors == Within(Low12, <<ToEnd(Descriptor)>>)

-----------------------------------------------------------------------------
(* Tables of ISDB-T.  A section begins with its length; behind the four     *)
(* bytes of id, version and numbers come `more` bytes of the table.         *)

Section(more) == <<Fixed(2), Fixed(5 + more)>>

Pat == Section(0) \o <<UntilCrc(<<Fixed(4)>>)>> \o Crc
Cat == Section(0) \o <<UntilCrc(Descriptor)>> \o Crc
ElementaryStreamInfo == <<Fixed(3), Descriptors>>
Pmt == Section(2) \o <<Descriptors, UntilCrc(ElementaryStreamInfo)>> \o Crc
TransportStreamInformation == <<Fixed(4), Descriptors>>
Nit == Section(0) \o <<Descriptors, Within(Low12, <<ToEnd(TransportStreamInformation)>>)>> \o Crc
Bat == Section(0) \o <<Descriptors, Within(Low12, <<ToEnd(TransportStreamInformation)>>)>> \o Crc
ServiceInformation == <<Fixed(3), Descriptors>>
Sdt == Section(3) \o <<UntilCrc(ServiceInformation)>> \o Crc
EventInformation == <<Fixed(2), Time, Fixed(3), Descriptors>>
Eit == Section(6) \o <<UntilCrc(EventInformation)>> \o Crc
Tdt == <<Fixed(2), Time>>
Tot == <<Fixed(2), Time, Descriptors>> \o Crc
Rst == <<Fixed(2), ToEnd(<<Fixed(9)>>)>>
St == <<Fixed(2), Copied>>
ContentSchedule == <<Time, Fixed(3)>>
ContentVersionInformation ==
    <<Fixed(4), Within(Low12, <<Within(Low12, <<ToEnd(ContentSchedule)>>), ToEnd(Descriptor)>>)>>
Pcat == Section(8) \o <<Counted(Byte, ContentVersionInformation)>> \o Crc
BroadcasterInformation == <<Fixed(1), Descriptors>>
Bit == Section(0) \o <<Descriptors, UntilCrc(BroadcasterInformation)>> \o Crc
NetworkBoardInformation == <<Fixed(4), Counted(Byte, <<Fixed(2)>>), Descriptors>>
Nbit == Section(0) \o <<UntilCrc(NetworkBoardInformation)>> \o Crc
LinkedDescription == <<Fixed(3), Descriptors>>
Ldt == Section(4) \o <<UntilCrc(LinkedDescription)>> \o Crc
LocalEventInformation == <<Fixed(2), Descriptors>>
Lit == Section(6) \o <<UntilCrc(LocalEventInformation)>> \o Crc
EventRelationNode == <<Fixed(6), Descriptors>>
Ert == Section(3) \o <<UntilCrc(EventRelationNode)>> \o Crc
Itt == Section(0) \o <<Descriptors>> \o Crc

\* Two addresses with their masks, of IPv4 or, by the top bit, of IPv6.
AddressMapService ==
    <<Fixed(2), ByFlag(Format(2, 32768, 2),
                       <<Tagged(0, <<Within(Low10, <<Fixed(10), Copied>>)>>),
                         Tagged(1, <<Within(Low10, <<Fixed(34), Copied>>)>>)>>)>>
Amt == Section(0) \o <<Counted(High10, AddressMapService)>> \o Crc
IpMacPlatformInformation == <<Descriptors, Descriptors>>
IpMacNotification == Section(4) \o <<Descriptors, UntilCrc(IpMacPlatformInformation)>> \o Crc

B10Tables ==
    <<Pat, Cat, Pmt, Nit, Bat, Sdt, Eit, Tdt, Tot, Rst, St, Pcat, Bit, Nbit, Ldt, Lit,
      Ert, Itt, Amt, IpMacNotification>>

-----------------------------------------------------------------------------
(* Descriptors of ISDB-S. *)

MpuTimestampDescriptor == <<ToEnd(<<Fixed(12)>>)>>

\* The offsets of an access unit: pts_offset is there, has a default, or is
\* unwrapped and not there.
MpuTimestampOffset(type) ==
    CASE type = 1 -> <<Fixed(2)>> [] type = 2 -> <<Fixed(4)>> [] OTHER -> <<Fixed(2), Panic>>

\* By pts_offset_type and timescale_flag.
MpuExtendedTimestampDescriptor ==
    LET type(head) == head \div 2
        timescale(head) == IF head % 2 = 1 THEN <<Fixed(4)>> ELSE << >>
        default(head) == IF type(head) = 1 THEN <<Fixed(2)>> ELSE << >>
        timestamps(head) ==
            <<ToEnd(<<Fixed(7), Counted(Byte, MpuTimestampOffset(type(head)))>>)>>
    IN  <<OneOf(Format(1, 1, 8),
                [i \in 1 .. 8 |-> Tagged(i - 1, timescale(i - 1) \o default(i - 1)
                                                   \o timestamps(i - 1))],
                << >>)>>

MhShortEventDescriptor == <<Fixed(3), Data(Byte), Data(Byte)>>
MhExtendedEventItem == <<Data(Byte), Data(Word)>>
MhExtendedEventDescriptor ==
    <<Fixed(4), Within(Word, <<ToEnd(MhExtendedEventItem)>>), Data(Word)>>
MhBroadcasterNameDescriptor == <<Copied>>
MhServiceDescriptor == <<Fixed(1), Data(Byte), Data(Byte)>>
MhBroadcastIdDescriptor == <<Fixed(7)>>

\* The width of the length goes by the tag.
MhDescriptor ==
    <<OneOf(Word,
            <<Tagged(\h0001, <<Within(Byte, MpuTimestampDescriptor)>>),
              Tagged(\h8018, <<Within(Byte, MhBroadcasterNameDescriptor)>>),
              Tagged(\h8019, <<Within(Byte, MhServiceDescriptor)>>),
              Tagged(\h8026, <<Within(Byte, MpuExtendedTimestampDescriptor)>>),
              Tagged(\hF001, <<Within(Word, MhShortEventDescriptor)>>),
              Tagged(\hF002, <<Within(Word, MhExtendedEventDescriptor)>>),
              Tagged(\hF005, <<Within(Word, MhBroadcastIdDescriptor)>>)>>,
            <<UpTo(\h3FFF, <<Data(Byte)>>), UpTo(\h6FFF, <<Data(Word)>>),
              UpTo(\h7FFF, <<Data(Long)>>), UpTo(\hEFFF, <<Data(Byte)>>),
              UpTo(\hFFFF, <<Data(Word)>>)>>)>>

MhDescriptors(format) == Within(format, <<ToEnd(MhDescriptor)>>)

-----------------------------------------------------------------------------
(* Tables of ISDB-S. *)

NoLocation == <<UpTo(255, <<Error>>)>>

MmtGeneralLocation ==
    OneOf(Byte,
          <<Tagged(0, <<Fixed(2)>>), Tagged(1, <<Fixed(12)>>), Tagged(2, <<Fixed(36)>>),
            Tagged(3, <<Fixed(6)>>), Tagged(4, <<Fixed(36)>>), Tagged(5, <<Data(Byte)>>)>>,
          NoLocation)

\* Types that have no place here are unreachable!().
IpDeliveryLocation ==
    OneOf(Byte,
          <<Tagged(1, <<Fixed(10)>>), Tagged(2, <<Fixed(34)>>), Tagged(5, <<Data(Byte)>>),
            Tagged(0, <<Panic>>), Tagged(3, <<Panic>>), Tagged(4, <<Panic>>)>>,
          NoLocation)

\* descriptor_loop_length is taken for a number of descriptors.
MmtIpDelivery == <<Fixed(4), IpDeliveryLocation, Miscounted(Word, MhDescriptor)>>
Plt ==
    <<Fixed(3), Counted(Byte, <<Data(Byte), MmtGeneralLocation>>),
      Counted(Byte, MmtIpDelivery)>>
MmtAsset ==
    <<Fixed(5), Data(Byte), Fixed(5), Counted(Byte, <<MmtGeneralLocation>>),
      MhDescriptors(Word)>>
Mpt ==
    <<Fixed(1), Exact(Word), Mode, Fixed(1), Data(Byte), Data(Word), Counted(Byte, MmtAsset)>>
MhEventInformation == <<Fixed(2), Time, Fixed(3), Status, MhDescriptors(Low12)>>
MhEit == Section(6) \o <<UntilCrc(MhEventInformation)>> \o Crc
MhBroadcasterInformation == <<Fixed(1), MhDescriptors(Low12)>>
MhBit == Section(0) \o <<MhDescriptors(Low12), UntilCrc(MhBroadcasterInformation)>> \o Crc
MhServiceInformation == <<Fixed(3), MhDescriptors(Low12)>>
MhSdt == Section(3) \o <<UntilCrc(MhServiceInformation)>> \o Crc
SelectionInformation == <<Fixed(2), MhDescriptors(Low12)>>
MhSit == Section(0) \o <<MhDescriptors(Low12), UntilCrc(SelectionInformation)>> \o Crc

B60Tables == <<Plt, Mpt, MhEit, MhBit, MhSdt, MhSit>>

\* Table::read(), with the schedule and the other SDT.  Of a table that is not
\* known only the table_id is taken; what is copied behind it nobody uses.
Table ==
    <<OneOf(Byte,
            <<Tagged(\h20, Mpt), Tagged(\h80, Plt), Tagged(\h8B, MhEit),
              Tagged(\h9D, MhBit), Tagged(\h9F, MhSdt), Tagged(\hA8, MhSit),
              Tagged(\hA0, MhSdt)>>
                \o [i \in 1 .. 16 |-> Tagged(\h8B + i, MhEit)],
            <<UpTo(255, << >>)>>)>>

\* The ids, versions and lengths a PA message begins with are not used.
PaMessage == <<Fixed(1), Checked(Long, <<Counted(Byte, <<Fixed(4)>>), ToEnd(Table)>>)>>
M2SectionMessage == <<Fixed(1), Checked(Word, Table)>>
=============================================================================
