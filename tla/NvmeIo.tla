-------------------------------- MODULE NvmeIo --------------------------------
(****************************************************************************)
(* From the CDB of a read or a write to an NVMe command: the parsers of     *)
(* ScsiHandler_InlineUtils.h, the range check of CNvmeDevice and            *)
(* BuiildCmd_ReadWrite (NvmeCmdBuilder.cpp under src/src/SpcNvme).          *)
(****************************************************************************)
EXTENDS NvmePrp, Widths

CONSTANTS BlockSize,         \* bytes of a block: 1 << LBADS
          MinPageSize, MDTS  \* CAP.MPSMIN in bytes, CtrlIdent.MDTS

\* MaxTxSize; Storport issues no transfer longer than that.
UpdateMaxTxSize == 2^MDTS * MinPageSize

\* The source bounds neither MDTS nor MaxTxSize: the list page holds the entries of the
\* longest transfer, and NLB its blocks, only for the controllers named here.
ASSUME IoAssumption ==
    /\ {BlockSize, MinPageSize} \subseteq Nat \ {0} /\ MDTS \in Nat
    /\ UpdateMaxTxSize \in Nat
    /\ UpdateMaxTxSize <= ListEntries * PageSize
    /\ UpdateMaxTxSize <= Word16 * BlockSize

WriteOps == {"WRITE6", "WRITE", "WRITE12", "WRITE16"}
ReadOps  == {"READ6", "READ", "READ12", "READ16"}

\* The fields of a CDB are no wider than this.
CdbFits(r) ==
    CASE r.op \in {"READ6", "WRITE6"}   -> r.lba < Word21 /\ r.blocks < Word8
      [] r.op \in {"READ", "WRITE"}     -> r.lba < Word32 /\ r.blocks < Word16
      [] r.op \in {"READ12", "WRITE12"} -> r.lba < Word32 /\ r.blocks < Word32
      [] r.op \in {"READ16", "WRITE16"} -> r.lba < Word64 /\ r.blocks < Word32

\* The byte order is turned, so the numbers are those of the CDB; a length of 0 means
\* 256 in the 6-byte commands.
ParseReadWriteOffsetAndLen(r) ==
    [offset |-> r.lba,
     len    |-> IF r.op \in {"READ6", "WRITE6"} /\ r.blocks = 0 THEN Word8 ELSE r.blocks]

\* Mutant of IsInValidIoRange: the number of blocks is taken for the last one.
InRangeOffByOne(nsid, total, offset, len) ==
    nsid # 0 /\ (offset + len - 1) % Word64 <= total % Word64

\* Both sides are ULONG64; one namespace is in use.
IsInValidIoRange(nsid, total, offset, len) ==
    nsid # 0 /\ (offset + len - 1) % Word64 <= (total - 1) % Word64

\* Mutant of BuiildCmd_ReadWrite: NLB gets the number of blocks less one, uncut.
NlbUncut(r, offset, blocks, listPa) ==
    [q |-> "io", write |-> r.op \in WriteOps, nsid |-> r.lun + 1, lba |-> offset,
     nlb |-> blocks - 1, prp |-> BuildPrp(r.buf, r.len, listPa)]

\* NLB counts from 0 in 16 bits; the PRP entries describe the data buffer of the SRB.
BuiildCmd_ReadWrite(r, offset, blocks, listPa) ==
    [q |-> "io", write |-> r.op \in WriteOps, nsid |-> r.lun + 1, lba |-> offset,
     nlb |-> (blocks - 1) % Word16, prp |-> BuildPrp(r.buf, r.len, listPa)]
=============================================================================
