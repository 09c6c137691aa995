------------------------------ MODULE PcapFiles ------------------------------
(***************************************************************************)
(* PcapWriter, PcapReader and PcapngWriter.                                *)
(*                                                                         *)
(* A packet is its kind (all that a test looks at), its size in bytes and  *)
(* its time in nanoseconds.  A PCAP file is the header, the records after  *)
(* it and whether the last one is cut off, as a full disk leaves it.  A    *)
(* PCAPNG file is a sequence of blocks, each with the length it declares   *)
(* and the bytes that follow.                                              *)
(***************************************************************************)
EXTENDS Integers, Sequences

\* MAX_FRAME_SIZE * 10
ReaderLimit == 15220

\* PcapWriterOptions
DefaultSnaplen == 65535

Smaller(a, b) == IF a < b THEN a ELSE b

------------------------------------------------------------------------------
(* PcapWriter *)

\* PcapWriter::create
NewFile(nanosecond) ==
    [header |-> [known |-> TRUE, nanosecond |-> nanosecond, snaplen |-> DefaultSnaplen],
     records |-> <<>>, cut |-> FALSE]

\* A record of write_packet, cut to the snapshot length; the fraction of the
\* second is written in the unit of the file.
Record(header, p) ==
    [kind |-> p.kind, incl |-> Smaller(p.size, header.snaplen), orig |-> p.size,
     fraction |-> IF header.nanosecond THEN p.time ELSE p.time \div 1000]

\* PcapWriter::write_packet: what follows a failed write on the stream, which
\* stays in its failed state, is not written either.
WriteAll(file, packets, written) ==
    [file EXCEPT
        !.records = @ \o [i \in 1..Smaller(written, Len(packets)) |->
                             Record(file.header, packets[i])],
        !.cut = written < Len(packets)]

------------------------------------------------------------------------------
(* PcapReader *)

\* PcapReader::read_header: the magic number and the version are known.
Opens(file) == file.header.known

\* A reader that takes the fraction for nanoseconds, whatever the file.
UnpackNano(header, r) == [kind |-> r.kind, size |-> r.incl, time |-> r.fraction]

\* The packet of a record.
Unpack(header, r) ==
    [kind |-> r.kind, size |-> r.incl,
     time |-> IF header.nanosecond THEN r.fraction ELSE r.fraction * 1000]

\* The sanity check of next_packet.
Refused(header, r) == r.incl > header.snaplen \/ r.incl > ReaderLimit

\* PcapReader::next_packet until the end: a record that is refused ends the
\* file as its end does.
ReadAll(file) ==
    LET refused == {i \in DOMAIN file.records : Refused(file.header, file.records[i])}
        last == IF refused = {} THEN Len(file.records)
                ELSE (CHOOSE i \in refused : \A j \in refused : i <= j) - 1
    IN [i \in 1..last |-> Unpack(file.header, file.records[i])]

------------------------------------------------------------------------------
(* PcapngWriter *)

\* pcapng_padding
Padding(length) == (4 - (length % 4)) % 4

\* The bytes write_options writes for values of these lengths.
OptionBytes(lengths) ==
    LET bytes[n \in 0..Len(lengths)] ==
            IF n = 0 THEN 4 ELSE bytes[n - 1] + 4 + lengths[n] + Padding(lengths[n])
    IN bytes[Len(lengths)]

\* Declared length and bytes written of write_section_header,
\* write_interface_block, write_statistics and write_enhanced_packet_block.
SectionBlock(options) ==
    [type |-> "section", declared |-> 24 + OptionBytes(options) + 4,
     written |-> 4 + 4 + 4 + 2 + 2 + 8 + OptionBytes(options) + 4, interface |-> 0]

InterfaceBlock(options) ==
    [type |-> "interface", declared |-> 16 + OptionBytes(options) + 4,
     written |-> 4 + 4 + 2 + 2 + 4 + OptionBytes(options) + 4, interface |-> 0]

StatisticsBlock(id) ==
    [type |-> "statistics", declared |-> 20 + OptionBytes(<<8, 8>>) + 4,
     written |-> 5 * 4 + OptionBytes(<<8, 8>>) + 4, interface |-> id]

\* A length without the padding of the data.
PacketBlockUnpadded(p, id, options) ==
    [type |-> "packet",
     declared |-> 28 + Smaller(p.size, DefaultSnaplen) + OptionBytes(options) + 4,
     written |-> 7 * 4 + Smaller(p.size, DefaultSnaplen)
                 + Padding(Smaller(p.size, DefaultSnaplen)) + OptionBytes(options) + 4,
     interface |-> id]

PacketBlock(p, id, options) ==
    LET captured == Smaller(p.size, DefaultSnaplen)
    IN [type |-> "packet",
        declared |-> 28 + captured + Padding(captured) + OptionBytes(options) + 4,
        written |-> 7 * 4 + captured + Padding(captured) + OptionBytes(options) + 4,
        interface |-> id]

==============================================================================
