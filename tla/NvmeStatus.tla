------------------------------ MODULE NvmeStatus ------------------------------
(****************************************************************************)
(* From the status of an NVMe completion to the status of an SRB            *)
(* (src/src/SpcNvme/Srb_Utils.cpp and SrbStatus_Translator.cpp).  A status  *)
(* is <<SCT, SC>>, the two numbers of the completion entry.                 *)
(****************************************************************************)
EXTENDS Integers

NvmeSuccess == <<0, 0>>

\* SCT has three bits: no bit is set both in it and in SC.
NoCommonBit(sct, sc) ==
    \A bit \in {1, 2, 4} : (sct \div bit) % 2 = 0 \/ (sc \div bit) % 2 = 0

\* SRB statuses of generic command statuses; every other one is an ERROR.
NvmeGenericToSrbStatus(sc) ==
    CASE sc = 1                        -> "INVALID_REQUEST"
      [] sc \in {2, 3}                 -> "INVALID_PARAMETER"
      [] sc \in {4, 6, 28, 30, 112, 113, 128, 129, 131} \cup (11 .. 26)
                                       -> "INTERNAL_ERROR"
      [] sc = 5                        -> "NOT_POWERED"
      [] sc \in (7 .. 10) \cup {27}    -> "ABORTED"
      [] sc \in {29, 132}              -> "BUSY"
      [] sc = 130                      -> "INVALID_LUN"
      [] OTHER                         -> "ERROR"

NvmeToSrbStatus(status) ==
    LET sct == status[1]
        sc  == status[2]
    IN  IF NoCommonBit(sct, sc) THEN "SUCCESS"
        ELSE CASE sct = 0         -> NvmeGenericToSrbStatus(sc)
               [] sct \in {1, 2}  -> "ERROR"
               [] OTHER           -> "INTERNAL_ERROR"

\* Statuses that report a failure and are translated to SUCCESS.
Masked(status) == status # NvmeSuccess /\ NoCommonBit(status[1], status[2])

\* The SCSI status that goes with an SRB status; only these three set one.
ScsiStatus(srbStatus, senseBuffer) ==
    CASE srbStatus = "SUCCESS"               -> "GOOD"
      [] srbStatus = "BUSY"                  -> "BUSY"
      [] srbStatus = "ERROR" /\ senseBuffer  -> "CHECK_CONDITION"
      [] srbStatus = "ERROR" /\ ~senseBuffer -> "CONDITION_MET"
      [] OTHER                               -> "unset"

\* The firmware status of a completed log page command (NvmeStatus2FirmwareStatus).
FirmwareStatus(status) ==
    CASE status = NvmeSuccess                  -> "SUCCESS"
      [] status = <<1, 9>>                     -> "ILLEGAL_REQUEST"
      [] status[1] = 1 /\ status # <<1, 9>>    -> "ERROR"
      [] OTHER                                 -> "CONTROLLER_ERROR"
=============================================================================
