------------------------------- MODULE Xmodem -------------------------------
(***************************************************************************)
(* The upgrade of the Zigbee chip (Zigbee/fota.c): zigbee_fota_task        *)
(* downloads an image into a file and sends it to the bootloader of the    *)
(* chip, one XMODEM packet at a time, spinning on the flag xmodem_ack that *)
(* uart_rx_task (Zigbee/uart.c) sets when it reads the byte ACK alone.     *)
(*                                                                         *)
(* The two tasks have the same priority and are sliced at any point; the   *)
(* build (-Og) reads the flag anew in each turn of the spin.  The wire     *)
(* holds one packet: sending another one before it is handled overruns it. *)
(* The bootloader and the wires are external.  One upgrade runs at a time. *)
(***************************************************************************)
EXTENDS Integers, Sequences, FiniteSets

CONSTANTS
  XMODEM_SIZE,          \* bytes of content in a packet: 128
  BufBlocks,            \* packets that fill the buffer of the task: 128
  PacketMod,            \* packetno is an unsigned char: 256
  MaxLength,            \* bound on the size of an image
  MaxUpgrades,          \* bound on the upgrades
  MaxPolls,             \* bound on the "C" polls of the bootloader
  MaxNoise,             \* bound on damaged packets and stray bytes
  FlashMayFail          \* TRUE: fwrite may write less, fread may fail

ASSUME SizeAssumption ==
  /\ XMODEM_SIZE \in Nat \ {0}
  /\ BufBlocks \in Nat \ {0}
  /\ PacketMod \in Nat \ {0, 1}
  /\ {MaxLength, MaxUpgrades, MaxPolls, MaxNoise} \subseteq Nat
  /\ FlashMayFail \in BOOLEAN

\* Bytes of the buffer of the task: 16384.
ZIGBEE_OTA_BUF_SIZE == BufBlocks * XMODEM_SIZE

VARIABLES
  pc,              \* where zigbee_fota_task is
  content_length,  \* size of the image on the server
  remaining,       \* image_data_remaining
  stored,          \* size of the file
  fpos,            \* position in the file of the buffer's first byte
  data_read,       \* bytes in the buffer
  data_send,       \* bytes of the buffer that were sent and acknowledged
  packetno,        \* static, number of the next packet
  xmodem_ack,      \* the flag
  wire,            \* the packet on the way to the bootloader, or NoPacket
  back,            \* the bytes on the way back
  rcv,             \* bootloader: "app" (not running), "menu", "upload", "done"
  expected,        \* bootloader: number of the next packet
  received,        \* bootloader: offset in the file it has stored up to
  polls, noise, upgrades,  \* counters of the bounded events
  swallowed,       \* an ACK was read together with other bytes
  flashError       \* the flash failed

file == <<content_length, stored, flashError>>
buffer == <<remaining, fpos, data_read, data_send, packetno>>
bootloader == <<rcv, expected, received>>
counters == <<polls, noise, upgrades>>
vars == <<pc, file, buffer, xmodem_ack, wire, back, bootloader, counters,
          swallowed>>

NoPacket == [header |-> "none", no |-> 0, from |-> 0]
Packet == [header : {"none", "SOH", "EOT"}, no : 0 .. PacketMod - 1,
           from : Nat]
Byte == {"ACK", "NAK", "C"}
Location == {"idle", "request", "download", "load", "transmit", "await",
             "acked", "end"}

Smaller(x, y) == IF x < y THEN x ELSE y

Init ==
  /\ pc = "idle"
  /\ content_length = 0 /\ remaining = 0 /\ stored = 0
  /\ fpos = 0 /\ data_read = 0 /\ data_send = 0
  /\ packetno = 1 /\ xmodem_ack = FALSE
  /\ wire = NoPacket /\ back = <<>>
  /\ rcv = "app" /\ expected = 1 /\ received = 0
  /\ polls = 0 /\ noise = 0 /\ upgrades = 0
  /\ swallowed = FALSE /\ flashError = FALSE

-----------------------------------------------------------------------------
(* zigbee_fota_task: the download *)

\* MQTT "zigbee_upgrade": the chip is reset into its bootloader, the task
\* starts.
Upgrade ==
  /\ pc = "idle" /\ upgrades < MaxUpgrades
  /\ pc' = "request" /\ upgrades' = upgrades + 1
  /\ rcv' = "menu"
  /\ UNCHANGED <<file, buffer, xmodem_ack, wire, back, expected, received,
                 polls, noise, swallowed>>

\* No connection, no content, no file, an error while reading, or no file to
\* read from.  (Returning from the task function ends in a restart as well.)
GiveUp ==
  /\ pc \in {"request", "download"}
  /\ pc' = "end"
  /\ UNCHANGED <<file, buffer, xmodem_ack, wire, back, bootloader, counters,
                 swallowed>>

Connected ==
  /\ pc = "request"
  /\ pc' = "download"
  /\ content_length' \in 1 .. MaxLength
  /\ remaining' = content_length'
  /\ UNCHANGED <<stored, flashError, fpos, data_read, data_send, packetno,
                 xmodem_ack, wire, back, bootloader, counters, swallowed>>

\* A read that returns no data is tried again: nothing changes.
DownloadSome ==
  /\ pc = "download" /\ remaining # 0
  /\ \E n \in 1 .. Smaller(remaining, ZIGBEE_OTA_BUF_SIZE) :
       /\ remaining' = remaining - n
       /\ \E w \in (IF FlashMayFail THEN 0 .. n ELSE {n}) :
            /\ stored' = stored + w
            /\ flashError' = (flashError \/ w # n)
  /\ UNCHANGED <<pc, content_length, fpos, data_read, data_send, packetno,
                 xmodem_ack, wire, back, bootloader, counters, swallowed>>

\* The file is opened again, and the menu of the bootloader is told to take
\* an upload; in a noisy moment it does not hear it.
StartUpload ==
  /\ pc = "download" /\ remaining = 0
  /\ pc' = "load"
  /\ remaining' = content_length
  /\ \/ /\ rcv' = "upload" /\ expected' = 1 /\ received' = 0
        /\ UNCHANGED noise
     \/ /\ noise < MaxNoise /\ noise' = noise + 1
        /\ UNCHANGED bootloader
  /\ UNCHANGED <<file, fpos, data_read, data_send, packetno, xmodem_ack, wire,
                 back, polls, upgrades, swallowed>>

-----------------------------------------------------------------------------
(* zigbee_fota_task: the upload *)

\* Mutant: every packet has the same number.
XmodemTransmitSameNo(header, from) ==
  /\ wire' = [header |-> header, no |-> packetno, from |-> from]
  /\ UNCHANGED packetno

\* XmodemTransmit: the packet takes the next number; the content of an EOT
\* packet is nothing.
XmodemTransmit(header, from) ==
  /\ wire' = [header |-> header, no |-> packetno, from |-> from]
  /\ packetno' = (packetno + 1) % PacketMod

LoadBuffer ==
  /\ pc = "load" /\ remaining # 0 /\ fpos < stored
  /\ data_read' = Smaller(ZIGBEE_OTA_BUF_SIZE, stored - fpos)
  /\ data_send' = 0
  /\ pc' = "transmit"
  /\ UNCHANGED <<file, remaining, fpos, packetno, xmodem_ack, wire, back,
                 bootloader, counters, swallowed>>

\* fread fails: as far as the task can tell, the file ends here.
LoadFails ==
  /\ pc = "load" /\ remaining # 0 /\ FlashMayFail
  /\ stored' = Smaller(stored, fpos) /\ flashError' = TRUE
  /\ UNCHANGED <<pc, content_length, buffer, xmodem_ack, wire, back,
                 bootloader, counters, swallowed>>

SendBlock ==
  /\ pc = "transmit"
  /\ XmodemTransmit("SOH", fpos + data_send)
  /\ pc' = "await"
  /\ UNCHANGED <<file, remaining, fpos, data_read, data_send, xmodem_ack,
                 back, bootloader, counters, swallowed>>

\* while(!xmodem_ack);
SeeAck ==
  /\ pc = "await" /\ xmodem_ack
  /\ pc' = "acked"
  /\ UNCHANGED <<file, buffer, xmodem_ack, wire, back, bootloader, counters,
                 swallowed>>

\* Mutants: one empty packet too many, one packet too few.
LastOfBufferLate == ~ (data_send <= data_read - XMODEM_SIZE)
LastOfBufferEarly == ~ (data_send + XMODEM_SIZE < data_read - XMODEM_SIZE)

LastOfBuffer == ~ (data_send < data_read - XMODEM_SIZE)

ClearAck ==
  /\ pc = "acked"
  /\ xmodem_ack' = FALSE
  /\ IF LastOfBuffer
     THEN /\ remaining' = remaining - data_read
          /\ fpos' = fpos + data_read
          /\ pc' = "load"
          /\ UNCHANGED data_send
     ELSE /\ data_send' = data_send + XMODEM_SIZE
          /\ pc' = "transmit"
          /\ UNCHANGED <<remaining, fpos>>
  /\ UNCHANGED <<file, data_read, packetno, wire, back, bootloader, counters,
                 swallowed>>

SendEot ==
  /\ pc = "load" /\ (remaining = 0 \/ fpos >= stored)
  /\ XmodemTransmit("EOT", 0)
  /\ pc' = "end"
  /\ UNCHANGED <<file, remaining, fpos, data_read, data_send, xmodem_ack,
                 back, bootloader, counters, swallowed>>

\* zigbee_reset and a restart: after END, or of the gateway at any time; a
\* booting gateway resets the chip and removes the file.
Restart ==
  /\ pc # "idle"
  /\ pc' = "idle"
  /\ remaining' = 0 /\ stored' = 0 /\ fpos' = 0
  /\ data_read' = 0 /\ data_send' = 0
  /\ packetno' = 1 /\ xmodem_ack' = FALSE
  /\ wire' = NoPacket /\ back' = <<>>
  /\ rcv' = "app"
  /\ polls' = 0 /\ swallowed' = FALSE /\ flashError' = FALSE
  /\ UNCHANGED <<content_length, expected, received, noise, upgrades>>

-----------------------------------------------------------------------------
(* uart_rx_task *)

\* Mutants: a poll is taken for an ACK; the length of the read is off by one.
AckOrPollAfter(bytes) ==
  IF Len(bytes) = 1 THEN bytes[1] # "NAK" ELSE xmodem_ack
AckOfTwoAfter(bytes) ==
  IF Len(bytes) = 2 THEN bytes[1] = "ACK" ELSE xmodem_ack

\* Only an ACK that is read alone counts; bytes that are read together leave
\* the flag as it is, and any other lone byte clears it.
AckAfter(bytes) ==
  IF Len(bytes) = 1 THEN bytes[1] = "ACK" ELSE xmodem_ack

UartRead ==
  /\ \E n \in 1 .. Len(back) :
       LET bytes == SubSeq(back, 1, n) IN
       /\ xmodem_ack' = AckAfter(bytes)
       /\ back' = SubSeq(back, n + 1, Len(back))
       /\ swallowed' = (swallowed \/ \E x \in 1 .. n : n > 1 /\ bytes[x] = "ACK")
  /\ UNCHANGED <<pc, file, buffer, wire, bootloader, counters>>

-----------------------------------------------------------------------------
(* The bootloader of the chip, and the wires *)

Poll ==
  /\ rcv = "upload" /\ received = 0 /\ wire = NoPacket
  /\ polls < MaxPolls /\ polls' = polls + 1
  /\ back' = Append(back, "C")
  /\ UNCHANGED <<pc, file, buffer, xmodem_ack, wire, bootloader, noise,
                 upgrades, swallowed>>

\* A packet with the expected number is stored, its repetition only
\* acknowledged, any other one refused.
HandleBlock ==
  /\ rcv = "upload" /\ wire.header = "SOH"
  /\ wire' = NoPacket
  /\ IF wire.no = expected
     THEN /\ received' = wire.from + XMODEM_SIZE
          /\ expected' = (expected + 1) % PacketMod
     ELSE UNCHANGED <<received, expected>>
  /\ back' = Append(back, IF wire.no = expected
                             \/ (wire.no + 1) % PacketMod = expected
                          THEN "ACK" ELSE "NAK")
  /\ UNCHANGED <<pc, file, buffer, xmodem_ack, rcv, counters, swallowed>>

HandleEot ==
  /\ rcv = "upload" /\ wire.header = "EOT"
  /\ wire' = NoPacket
  /\ rcv' = "done"
  /\ back' = Append(back, "ACK")
  /\ UNCHANGED <<pc, file, buffer, xmodem_ack, expected, received, counters,
                 swallowed>>

\* A packet is damaged on the wire, and refused or not noticed at all.
Damage ==
  /\ wire # NoPacket /\ wire' = NoPacket
  /\ noise < MaxNoise /\ noise' = noise + 1
  /\ back' \in {back, Append(back, "NAK")}
  /\ UNCHANGED <<pc, file, buffer, xmodem_ack, bootloader, polls, upgrades,
                 swallowed>>

\* Another task of the gateway writes to the same UART (MQTT commands, linked
\* buttons): the bootloader refuses what it does not understand.
OtherWrite ==
  /\ rcv = "upload"
  /\ noise < MaxNoise /\ noise' = noise + 1
  /\ back' = Append(back, "NAK")
  /\ UNCHANGED <<pc, file, buffer, xmodem_ack, wire, bootloader, polls,
                 upgrades, swallowed>>

FotaTask ==
  Connected \/ DownloadSome \/ StartUpload \/ LoadBuffer \/ SendBlock
  \/ SeeAck \/ ClearAck \/ SendEot

Next ==
  \/ Upgrade \/ GiveUp \/ FotaTask \/ LoadFails \/ Restart
  \/ UartRead
  \/ Poll \/ HandleBlock \/ HandleEot \/ Damage \/ OtherWrite

Spec == Init /\ [][Next]_vars

\* The tasks are time-sliced, the bootloader answers, the server delivers,
\* and the last lines of the task restart the gateway.
Fairness ==
  /\ WF_vars(FotaTask) /\ WF_vars(UartRead)
  /\ WF_vars(HandleBlock \/ HandleEot)
  /\ WF_vars(pc = "end" /\ Restart)

FairSpec == Spec /\ Fairness

-----------------------------------------------------------------------------
(* Properties *)

TypeOK ==
  /\ pc \in Location
  /\ content_length \in 0 .. MaxLength
  /\ remaining \in 0 .. MaxLength /\ stored \in 0 .. MaxLength
  /\ fpos \in 0 .. MaxLength
  /\ data_read \in 0 .. ZIGBEE_OTA_BUF_SIZE
  /\ data_send \in 0 .. ZIGBEE_OTA_BUF_SIZE - 1
  /\ packetno \in 0 .. PacketMod - 1 /\ expected \in 0 .. PacketMod - 1
  /\ xmodem_ack \in BOOLEAN
  /\ wire \in Packet /\ back \in Seq(Byte)
  /\ rcv \in {"app", "menu", "upload", "done"}
  /\ received \in Nat
  /\ polls \in 0 .. MaxPolls /\ noise \in 0 .. MaxNoise
  /\ upgrades \in 0 .. MaxUpgrades
  /\ swallowed \in BOOLEAN /\ flashError \in BOOLEAN

\* When the task hands the next block to the UART, the bootloader has stored
\* everything before it and nothing is left on the wire: a flag left over
\* from an earlier block never lets the task run ahead.
StopAndWait ==
  pc = "transmit" =>
    /\ wire = NoPacket /\ ~ xmodem_ack
    /\ rcv = "upload" /\ fpos + data_send > 0 => received = fpos + data_send

\* The bootloader gets an EOT, and takes the image for complete, only when it
\* has all of it; unless the flash failed, which the task does not notice.
CommitComplete ==
  rcv = "done" /\ ~ flashError => received >= content_length

\* The upload as the bootloader sees it: in order, without gaps, committed
\* only at the end of the file.
Upload == INSTANCE XmodemUpload WITH
  BlockSize <- XMODEM_SIZE,
  size <- stored,
  outcome <- CASE rcv = "upload" -> "running"
               [] rcv = "done" -> "committed"
               [] OTHER -> "idle"

UploadRefined == Upload!Spec

\* An upgrade comes to an end, unless a packet was damaged, another task
\* wrote to the UART, or an ACK was read together with other bytes: for
\* these the code has no timeout and no repetition.
UploadEnds ==
  pc = "request" ~> (pc = "idle" \/ noise > 0 \/ swallowed)
=============================================================================
