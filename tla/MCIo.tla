-------------------------------- MODULE MCIo ---------------------------------
(***************************************************************************)
(* The drivers on a small instance each.  A behaviour is one of the command *)
(* line on a serial port, of an XMODEM download over it (the console that  *)
(* runs the command is not pumped meanwhile), of the SD card, of a flash   *)
(* or of a virtio disk.                                                    *)
(***************************************************************************)
EXTENDS Console, XModem, SdMmc, Flash, Virtio

VARIABLE part       \* "console", "download", "sd", "flash" or "virtio"

vars == <<part, conVars, xmVars, sdVars, flVars, viVars>>

Init ==
    /\ ConInit /\ XmInit /\ SdInit /\ FlashInit /\ VirtioInit
    /\ part \in {"console", "download", "sd", "flash", "virtio"}
    /\ part # "console" => phase = "run"
    /\ part # "download" => ~ again
    /\ part # "sd" => card.kind.hc /\ card.kind.has23
    /\ part # "virtio" => vdev.qmax = 0 /\ vdev.capacity = 0

ConsoleDoes(A) == part = "console" /\ A /\ UNCHANGED <<part, xmVars, sdVars, flVars, viVars>>
DownloadDoes(A) == part = "download" /\ A /\ UNCHANGED <<part, conVars, sdVars, flVars, viVars>>
SdDoes(A) == part = "sd" /\ A /\ UNCHANGED <<part, conVars, xmVars, flVars, viVars>>
FlashDoes(A) == part = "flash" /\ A /\ UNCHANGED <<part, conVars, xmVars, sdVars, viVars>>
VirtioDoes(A) == part = "virtio" /\ A /\ UNCHANGED <<part, conVars, xmVars, sdVars, flVars>>

Next ==
    \/ ConsoleDoes(ConNext) \/ DownloadDoes(XmNext)
    \/ SdDoes(SdNext) \/ FlashDoes(FlashNext) \/ VirtioDoes(VirtioNext)

Spec ==
    /\ Init /\ [][Next]_vars
    /\ \A p \in Ports : WF_vars(ConsoleDoes(console_pump_console(p)))
    /\ WF_vars(DownloadDoes(Receiver))
    /\ WF_vars(DownloadDoes(SenderReads)) /\ WF_vars(DownloadDoes(SenderTimeout))
    /\ WF_vars(SdDoes(DriverStep)) /\ WF_vars(SdDoes(HardwareStep))
    /\ WF_vars(FlashDoes(DriverRuns)) /\ WF_vars(FlashDoes(FifoFill)) /\ WF_vars(FlashDoes(ChipReady))
    /\ WF_vars(VirtioDoes(DriverGoesOn)) /\ WF_vars(VirtioDoes(DeviceGoesOn))

\* What the drivers write stays inside what they were asked to write: blocks of
\* a card, sectors of a flash (bm_sd_write, mmc_erase_blocks,
\* spi_flash_program).
MediaKept == [][OnlyBlocksAskedFor /\ ProgramStays]_<<sdVars, flVars>>

\* Whatever was begun ends: an entered line is run, a download ends, calls of
\* the card, the flash and the disk return.  Each part names the waits of the
\* code that have no bound as its exceptions.
IoCompletes ==
    /\ EnteredLineRuns
    /\ part = "download" => TransferEnds
    /\ CallsReturn /\ FlashJobsEnd /\ RequestsReturn

OnePort == <<"s0">>
TwoCommands == {<<"1">>, <<"A">>}
Exit == <<"A">>

SomeReads == {0, 3, 14, 16, 46} \X {0, 1, 3, 4, 8, 11, 16, 19}
\* Whole pages; a last page that is no whole words, and one that is less than a
\* FIFO; a base inside a sector.
SomePrograms ==
    ({0, 16, 32} \X {<<1>>, <<1, 2>>, <<1, 1>>, <<1, 2, 1>>} \X {0})
      \cup ({0, 32} \X {<<1>>, <<1, 2>>, <<1, 1>>} \X {1, 6})
      \cup {<<8, <<1>>, 0>>}
==============================================================================
