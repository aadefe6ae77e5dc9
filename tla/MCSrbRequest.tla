---------------------------- MODULE MCSrbRequest ------------------------------
(* A small instance of SrbRequest for TLC: one extension gets every kind of    *)
(* request, the other one those that hold memory while the controller works.   *)
EXTENDS SrbRequest, TLC

CONSTANTS e1, e2

AllExts == {e1, e2}

Rw(op, lba, blocks, buf, len) ==
    [func |-> "EXECUTE_SCSI", lun |-> 0, op |-> op, lba |-> lba, blocks |-> blocks,
     buf |-> buf, len |-> len]
Scsi(op, len) == [func |-> "EXECUTE_SCSI", lun |-> 0, op |-> op, len |-> len]

\* Reads of every length up to the longest transfer, at every offset in a page.
Aligned == {Rw("READ16", 0, n, o, n * BlockSize) : n \in {0, 1, 2, 3, 4, 6, 8}, o \in 0 .. PageSize - 1}

\* Reads and writes round the ends of the address ranges; 0 blocks are 4 in READ (6).
Edges ==
    {Rw(op, lba, n, 0, n * BlockSize) : op \in {"WRITE16", "READ12"},
                                        lba \in {0, 1, 14, 15}, n \in {0, 1, 2}}
    \cup {Rw("WRITE16", lba, n, 0, n * BlockSize) : lba \in {16, 17, 30, 31}, n \in {1, 2}}
    \cup {Rw("READ", 1, n, 1, n * BlockSize) : n \in {0, 7}}
    \cup {Rw(op, 1, n, 0, (IF n = 0 THEN Word8 ELSE n) * BlockSize) : op \in {"READ6", "WRITE6"}, n \in 0 .. 3}
    \cup {[Rw("WRITE", 0, 1, 0, BlockSize) EXCEPT !.lun = 1], Rw("WRITE12", 3, 1, 0, BlockSize)}

Inquiries ==
    {Scsi("INQUIRY", len) @@ [evpd |-> evpd, page |-> page] :
        evpd \in BOOLEAN, len \in {0, 9, 36, 64, 260},
        page \in {"STANDARD", "SUPPORTED_PAGES", "SERIAL_NUMBER", "DEVICE_IDENTIFIERS",
                  "BLOCK_LIMITS", "BLOCK_DEVICE_CHARACTERISTICS"}}
Capacities == {Scsi(op, len) : op \in {"READ_CAPACITY", "READ_CAPACITY16"}, len \in {7, 8, 11, 12}}
Senses ==
    {Scsi("MODE_SENSE", len) @@ [page |-> page] :
        len \in {3, 4, 7, 16, 24, 48, 64},
        page \in {"CACHING", "CONTROL", "FAULT_REPORTING", "RETURN_ALL", "OTHER"}}

Caching(rcd, wce, end) == [code |-> "CACHING", length |-> 18, end |-> end, rcd |-> rcd, wce |-> wce]
Other(length, end)     == [code |-> "OTHER", length |-> length, end |-> end, rcd |-> 0, wce |-> 0]
Select(pf, bdl, len, pages) ==
    Scsi("MODE_SELECT", len) @@ [pf |-> pf, bdl |-> bdl, pages |-> pages]
Selects ==
    {Select(TRUE, 0, 24, <<Caching(rcd, wce, 24)>>) : rcd \in {0, 1}, wce \in {0, 1}}
    \cup {Select(TRUE, 8, 52, <<Caching(1, 1, 32), Caching(0, 0, 52)>>),
          Select(TRUE, 0, 36, <<Other(10, 16), Caching(0, 1, 36)>>),
          Select(TRUE, 0, 26, <<Caching(1, 0, 24), Other(0, 26)>>),
          Select(TRUE, 0, 26, <<Other(0, 6), Caching(1, 1, 26)>>),
          Select(TRUE, 0, 10, <<Other(10, 16)>>),
          Select(TRUE, 0, 4, <<>>),
          Select(FALSE, 0, 24, <<Caching(1, 1, 24)>>)}

Firmware(offset, room) ==
    [func |-> "IO_CONTROL", code |-> "MINIPORT_FIRMWARE", signature |-> "FIRMWARE", short |-> FALSE,
     function |-> "GET_INFO", offset |-> offset, room |-> room]
Firmwares == {Firmware(0, "v2"), Firmware(64, "none"), Firmware(64, "v1"), Firmware(64, "v2")}
Ioctls ==
    {[Firmware(64, "v2") EXCEPT !.code = "OTHER"], [Firmware(64, "v2") EXCEPT !.signature = "OTHER"],
     [Firmware(64, "v2") EXCEPT !.short = TRUE], [Firmware(64, "v2") EXCEPT !.function = "DOWNLOAD"]}
Pnps == {[func |-> "PNP", adapter |-> a, action |-> x] :
            a \in BOOLEAN, x \in {"QueryCapabilities", "RemoveDevice", "StartDevice"}}
Refusals == {Scsi(op, 0) : op \in {"VERIFY6", "VERIFY", "MODE_SENSE10", "REPORT_LUNS", "SYNCHRONIZE_CACHE"}}
                \cup {[func |-> "RESET_BUS"], [func |-> "POWER"]}

\* A write of three pages and a firmware request hold memory.
Big  == Rw("WRITE16", 0, 6, 2, 6 * BlockSize)
Slots == Firmware(64, "v2")

Both(first, second) == (e1 :> first) @@ (e2 :> second)
Loads ==
    [transfers |-> Both(Aligned, {Big}),
     ranges    |-> Both(Edges, {}),
     replies   |-> Both(Inquiries \cup Capacities \cup Refusals, {}),
     caches    |-> Both(Selects, Senses),
     control   |-> Both(Firmwares \cup Ioctls \cup Pnps, {Big, Slots})]

\* Physical pages in another order than virtual ones; page 0 is nobody's.
Frames == [p \in 0 .. 15 |-> ((p * 7) % 16) + 1]
PoolAddr == [b \in Blocks |-> (10 + b) * PageSize]
Sizes == {15, 31}
Statuses == {<<0, 0>>, <<0, 128>>, <<1, 9>>}
=============================================================================
