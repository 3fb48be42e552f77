---------------------------- MODULE Xmodem_proofs ----------------------------
(***************************************************************************)
(* Proofs about the upload of the Zigbee firmware, for every size of image,*)
(* packet and buffer and every bound of Xmodem.                            *)
(*                                                                         *)
(* StopAndWait is not inductive.  Why the flag cannot be left over needs   *)
(* where the only ACK of the block is (AckInv), that the numbers of the    *)
(* two sides agree and the bootloader is where the task believes it to be  *)
(* (BootInv), and that a buffer which is not the last one is a whole number*)
(* of packets, so that no padding lands inside the image (BufferInv).      *)
(***************************************************************************)
EXTENDS Xmodem, TLAPS

Uploading == {"load", "transmit", "await", "acked"}

NoAckIn(b) == \A x \in 1 .. Len(b) : b[x] # "ACK"
OneAckIn(b) == \A x, y \in 1 .. Len(b) : b[x] = "ACK" /\ b[y] = "ACK" => x = y
AckFree == ~ xmodem_ack /\ NoAckIn(back)

\* The file holds what was downloaded; fpos counts what was taken off
\* remaining.
FileInv ==
  /\ stored <= content_length
  /\ pc \in {"idle", "request"} => stored = 0
  /\ pc = "download" => /\ stored + remaining <= content_length
                        /\ ~ flashError => stored + remaining = content_length
  /\ pc \in Uploading => /\ remaining = content_length - fpos
                         /\ fpos <= stored
  /\ pc \in Uploading \/ (pc = "end" /\ rcv # "menu")
       => (~ flashError => stored = content_length)
  /\ pc \in {"idle", "request", "download"} => fpos = 0

\* The buffer holds the next part of the file, sent up to data_send.
BufferInv ==
  pc \in {"transmit", "await", "acked"} =>
    /\ data_read = Smaller(ZIGBEE_OTA_BUF_SIZE, stored - fpos)
    /\ data_send < data_read
    /\ \E q \in Nat : data_send = q * XMODEM_SIZE

\* The one packet, and the one ACK for it.
AckInv ==
  /\ pc \in {"idle", "request", "download"} => back = <<>> /\ packetno = 1
  /\ pc \notin {"await", "acked", "end"} => wire = NoPacket /\ AckFree
  /\ pc = "await" => /\ wire # NoPacket => /\ wire.header = "SOH" /\ AckFree
                                           /\ wire.from = fpos + data_send
                     /\ xmodem_ack => NoAckIn(back)
                     /\ OneAckIn(back)
  /\ pc = "acked" => wire = NoPacket /\ NoAckIn(back)
  /\ pc = "end" => wire = NoPacket \/ wire.header = "EOT"

\* A block that was sent but not stored, or one that was stored.
Pending == /\ wire # NoPacket
           /\ wire.no = expected /\ packetno = (expected + 1) % PacketMod
           /\ received = fpos + data_send
Stored == /\ wire = NoPacket
          /\ packetno = expected
          /\ received = fpos + data_send + XMODEM_SIZE
Damaged == wire = NoPacket /\ AckFree

\* The bootloader is where the task believes it to be.
BootInv ==
  /\ pc = "idle" <=> rcv = "app"
  /\ pc \in {"request", "download"} => rcv = "menu"
  /\ rcv = "menu" => /\ pc # "acked" /\ AckFree
                     /\ pc \in Uploading => fpos = 0
                     /\ pc \in {"transmit", "await"} => data_send = 0
  /\ rcv = "upload" =>
       /\ pc = "load" => /\ packetno = expected
                         /\ fpos <= received
                         /\ fpos < stored => received = fpos
       /\ pc = "transmit" => packetno = expected /\ received = fpos + data_send
       /\ pc = "await" => Pending \/ Stored \/ Damaged
       /\ pc = "acked" => Stored
  /\ rcv \in {"upload", "done"} /\ pc = "end" => stored <= received
  /\ rcv = "done" => pc = "end"

Inv == TypeOK /\ FileInv /\ BufferInv /\ AckInv /\ BootInv

-----------------------------------------------------------------------------
(* Arithmetic of the buffer, and sequences of bytes *)

LEMMA BufferSize ==
  /\ ZIGBEE_OTA_BUF_SIZE \in Nat
  /\ XMODEM_SIZE <= ZIGBEE_OTA_BUF_SIZE /\ XMODEM_SIZE > 0
<1>1. BufBlocks * XMODEM_SIZE >= 1 * XMODEM_SIZE
  BY SizeAssumption
<1> QED BY <1>1, SizeAssumption DEF ZIGBEE_OTA_BUF_SIZE

\* The last packet of a full buffer ends where the buffer ends.
LEMMA LastPacketFull ==
  ASSUME NEW q \in Nat,
         q * XMODEM_SIZE < ZIGBEE_OTA_BUF_SIZE,
         ~ (q * XMODEM_SIZE < ZIGBEE_OTA_BUF_SIZE - XMODEM_SIZE)
  PROVE  q * XMODEM_SIZE + XMODEM_SIZE = ZIGBEE_OTA_BUF_SIZE
<1> DEFINE B == BufBlocks
<1>1. q < B
  <2>1. CASE q >= B
    <3>1. q * XMODEM_SIZE >= B * XMODEM_SIZE
      BY <2>1, SizeAssumption
    <3> QED BY <3>1, SizeAssumption DEF ZIGBEE_OTA_BUF_SIZE
  <2> QED BY <2>1, SizeAssumption
<1>2. q >= B - 1
  <2>1. CASE q + 1 < B
    <3>1. (q + 1) * XMODEM_SIZE < B * XMODEM_SIZE
      BY <2>1, SizeAssumption
    <3>2. (q + 1) * XMODEM_SIZE = q * XMODEM_SIZE + XMODEM_SIZE
      BY SizeAssumption
    <3> QED BY <3>1, <3>2, SizeAssumption DEF ZIGBEE_OTA_BUF_SIZE
  <2> QED BY <2>1, SizeAssumption
<1>3. B = q + 1
  BY <1>1, <1>2, SizeAssumption
<1>4. (q + 1) * XMODEM_SIZE = q * XMODEM_SIZE + XMODEM_SIZE
  BY SizeAssumption
<1> QED BY <1>3, <1>4 DEF ZIGBEE_OTA_BUF_SIZE

LEMMA AppendByte ==
  ASSUME NEW b \in Seq(Byte), NEW x \in Byte
  PROVE  /\ Append(b, x) \in Seq(Byte)
         /\ NoAckIn(b) => OneAckIn(Append(b, x))
         /\ x # "ACK" /\ NoAckIn(b) => NoAckIn(Append(b, x))
         /\ x # "ACK" /\ OneAckIn(b) => OneAckIn(Append(b, x))
<1>1. /\ Len(Append(b, x)) = Len(b) + 1 /\ Len(b) \in Nat
      /\ \A y \in 1 .. Len(b) : Append(b, x)[y] = b[y]
      /\ Append(b, x)[Len(b) + 1] = x
  OBVIOUS
<1>2. \A y \in 1 .. Len(b) + 1 : y \in 1 .. Len(b) \/ y = Len(b) + 1
  BY <1>1
<1> QED BY <1>1, <1>2 DEF NoAckIn, OneAckIn

LEMMA DropBytes ==
  ASSUME NEW b \in Seq(Byte), NEW n \in 1 .. Len(b)
  PROVE  LET rest == SubSeq(b, n + 1, Len(b)) IN
         /\ rest \in Seq(Byte)
         /\ NoAckIn(b) => NoAckIn(rest)
         /\ OneAckIn(b) => OneAckIn(rest)
         /\ OneAckIn(b) /\ b[1] = "ACK" => NoAckIn(rest)
<1> DEFINE rest == SubSeq(b, n + 1, Len(b))
<1>1. /\ rest \in Seq(Byte)
      /\ Len(rest) = Len(b) - n
      /\ \A y \in 1 .. Len(rest) : rest[y] = b[y + n]
  OBVIOUS
<1>2. \A y \in 1 .. Len(rest) : y + n \in 1 .. Len(b) /\ y + n # 1
  BY <1>1
<1> QED BY <1>1, <1>2 DEF NoAckIn, OneAckIn

-----------------------------------------------------------------------------
(* Every action keeps the invariant *)

LEMMA UpgradeKeeps ==
  ASSUME Inv, Upgrade
  PROVE  Inv'
<1>1. TypeOK'
  BY SMTT(30), SizeAssumption, BufferSize DEF Inv, TypeOK, Location, Byte, Packet,
     Upgrade, file, buffer
<1>2. FileInv'
  BY DEF Inv, FileInv, Uploading, Upgrade, file, buffer
<1>3. BufferInv'
  BY DEF Inv, BufferInv, Upgrade, file, buffer
<1>4. AckInv'
  BY DEF Inv, AckInv, AckFree, NoAckIn, OneAckIn, Uploading, Upgrade, file,
     buffer
<1>5. BootInv'
  BY SizeAssumption, BufferSize DEF Inv, BootInv, TypeOK, FileInv, BufferInv,
     AckInv, Location, Uploading, AckFree, NoAckIn, OneAckIn, Pending,
     Stored, Damaged, NoPacket, Smaller, Upgrade, file, buffer
<1> QED BY <1>1, <1>2, <1>3, <1>4, <1>5 DEF Inv

LEMMA GiveUpKeeps ==
  ASSUME Inv, GiveUp
  PROVE  Inv'
<1>1. TypeOK'
  BY SizeAssumption, BufferSize DEF Inv, TypeOK, Location, Byte, Packet,
     GiveUp, file, buffer, bootloader, counters
<1>2. FileInv'
  BY SizeAssumption, BufferSize DEF Inv, FileInv, TypeOK, BufferInv, AckInv,
     BootInv, Location, Uploading, AckFree, NoAckIn, OneAckIn, Pending,
     Stored, Damaged, NoPacket, Smaller, GiveUp, file, buffer, bootloader,
     counters
<1>3. BufferInv'
  BY DEF Inv, BufferInv, GiveUp, file, buffer, bootloader, counters
<1>4. AckInv'
  BY DEF Inv, AckInv, AckFree, NoAckIn, OneAckIn, Uploading, GiveUp, file,
     buffer, bootloader, counters
<1>5. BootInv'
  BY DEF Inv, BootInv, AckFree, NoAckIn, Pending, Stored, Damaged, Uploading,
     GiveUp, file, buffer, bootloader, counters
<1> QED BY <1>1, <1>2, <1>3, <1>4, <1>5 DEF Inv

LEMMA ConnectedKeeps ==
  ASSUME Inv, Connected
  PROVE  Inv'
<1>1. TypeOK'
  BY SizeAssumption, BufferSize DEF Inv, TypeOK, Location, Byte, Packet,
     Connected, bootloader, counters
<1>2. FileInv'
  <2>1. stored' = 0 /\ fpos' = 0 /\ pc' = "download"
    BY DEF Inv, FileInv, Connected
  <2>2. remaining' = content_length' /\ content_length' \in Nat
    BY SizeAssumption DEF Connected
  <2>3. ASSUME NEW c \in Nat
        PROVE  0 + c = c /\ 0 <= c
    OBVIOUS
  <2>4. stored' + remaining' = content_length' /\ stored' <= content_length'
    BY <2>1, <2>2, <2>3
  <2>5. stored' + remaining' <= content_length'
    BY <2>2, <2>4
  <2> QED BY <2>1, <2>4, <2>5 DEF FileInv, Uploading
<1>3. BufferInv'
  BY DEF Inv, BufferInv, Connected, bootloader, counters
<1>4. AckInv'
  BY DEF Inv, AckInv, AckFree, NoAckIn, OneAckIn, Uploading, Connected,
     bootloader, counters
<1>5. BootInv'
  BY DEF Inv, BootInv, AckFree, NoAckIn, Pending, Stored, Damaged, Uploading,
     Connected, bootloader, counters
<1> QED BY <1>1, <1>2, <1>3, <1>4, <1>5 DEF Inv

LEMMA DownloadSomeKeeps ==
  ASSUME Inv, DownloadSome
  PROVE  Inv'
<1>1. TypeOK'
  BY SMTT(30), SizeAssumption, BufferSize DEF Inv, TypeOK, FileInv, BufferInv, AckInv,
     BootInv, Location, Uploading, AckFree, NoAckIn, OneAckIn, Pending,
     Stored, Damaged, Byte, Packet, NoPacket, Smaller, DownloadSome,
     bootloader, counters
<1>2. FileInv'
  BY SizeAssumption, BufferSize DEF Inv, FileInv, TypeOK, Uploading,
     Location, DownloadSome, bootloader, counters, Smaller
<1>3. BufferInv'
  BY DEF Inv, BufferInv, DownloadSome, bootloader, counters, Smaller
<1>4. AckInv'
  BY DEF Inv, AckInv, AckFree, NoAckIn, OneAckIn, Uploading, DownloadSome,
     bootloader, counters, Smaller
<1>5. BootInv'
  BY DEF Inv, BootInv, AckFree, NoAckIn, Pending, Stored, Damaged, Uploading,
     DownloadSome, bootloader, counters, Smaller
<1> QED BY <1>1, <1>2, <1>3, <1>4, <1>5 DEF Inv

LEMMA StartUploadKeeps ==
  ASSUME Inv, StartUpload
  PROVE  Inv'
<1>1. TypeOK'
  BY SMTT(30), SizeAssumption, BufferSize DEF Inv, TypeOK, FileInv, BufferInv, AckInv,
     BootInv, Location, Uploading, AckFree, NoAckIn, OneAckIn, Pending,
     Stored, Damaged, Byte, Packet, NoPacket, Smaller, StartUpload, file,
     bootloader
<1>2. FileInv'
  BY SizeAssumption, BufferSize DEF Inv, FileInv, TypeOK, Uploading,
     Location, StartUpload, file, bootloader
<1>3. BufferInv'
  BY DEF Inv, BufferInv, StartUpload, file, bootloader
<1>4. AckInv'
  BY DEF Inv, AckInv, AckFree, NoAckIn, OneAckIn, Uploading, StartUpload,
     file, bootloader
<1>5. BootInv'
  BY SizeAssumption, BufferSize DEF Inv, BootInv, TypeOK, FileInv, BufferInv,
     AckInv, Location, Uploading, AckFree, NoAckIn, OneAckIn, Pending,
     Stored, Damaged, NoPacket, Smaller, StartUpload, file, bootloader
<1> QED BY <1>1, <1>2, <1>3, <1>4, <1>5 DEF Inv

LEMMA LoadBufferKeeps ==
  ASSUME Inv, LoadBuffer
  PROVE  Inv'
<1>1. TypeOK'
  <2>1. /\ data_read' \in 0 .. ZIGBEE_OTA_BUF_SIZE
        /\ data_send' \in 0 .. ZIGBEE_OTA_BUF_SIZE - 1
    BY SizeAssumption, BufferSize DEF Inv, TypeOK, LoadBuffer, Smaller
  <2> QED BY <2>1 DEF Inv, TypeOK, Location, LoadBuffer, file, bootloader,
             counters
<1>2. FileInv'
  BY DEF Inv, FileInv, Uploading, LoadBuffer, file, bootloader, counters,
     Smaller
<1>3. BufferInv'
  BY SizeAssumption, BufferSize DEF Inv, BufferInv, TypeOK, FileInv, AckInv,
     BootInv, Location, Uploading, AckFree, NoAckIn, OneAckIn, Pending,
     Stored, Damaged, NoPacket, Smaller, LoadBuffer, file, bootloader,
     counters
<1>4. AckInv'
  BY DEF Inv, AckInv, AckFree, NoAckIn, OneAckIn, Uploading, LoadBuffer,
     file, bootloader, counters, Smaller
<1>5. BootInv'
  BY SizeAssumption, BufferSize DEF Inv, BootInv, TypeOK, AckFree, NoAckIn,
     Pending, Stored, Damaged, Uploading, Location, LoadBuffer, file,
     bootloader, counters, Smaller
<1> QED BY <1>1, <1>2, <1>3, <1>4, <1>5 DEF Inv

LEMMA LoadFailsKeeps ==
  ASSUME Inv, LoadFails
  PROVE  Inv'
<1>1. TypeOK'
  BY SizeAssumption, BufferSize DEF Inv, TypeOK, Location, Byte, Packet,
     LoadFails, buffer, bootloader, counters, Smaller
<1>2. FileInv'
  BY SizeAssumption, BufferSize DEF Inv, FileInv, TypeOK, Uploading,
     Location, LoadFails, buffer, bootloader, counters, Smaller
<1>3. BufferInv'
  BY DEF Inv, BufferInv, LoadFails, buffer, bootloader, counters, Smaller
<1>4. AckInv'
  BY DEF Inv, AckInv, AckFree, NoAckIn, OneAckIn, Uploading, LoadFails,
     buffer, bootloader, counters, Smaller
<1>5. BootInv'
  BY SizeAssumption, BufferSize DEF Inv, BootInv, TypeOK, AckFree, NoAckIn,
     Pending, Stored, Damaged, Uploading, Location, LoadFails, buffer,
     bootloader, counters, Smaller
<1> QED BY <1>1, <1>2, <1>3, <1>4, <1>5 DEF Inv

LEMMA SendBlockKeeps ==
  ASSUME Inv, SendBlock
  PROVE  Inv'
<1>1. TypeOK'
  <2>1. packetno' \in 0 .. PacketMod - 1
    BY SMTT(30), SizeAssumption DEF Inv, TypeOK, SendBlock, XmodemTransmit
  <2>2. fpos + data_send \in Nat
    BY SizeAssumption, BufferSize DEF Inv, TypeOK
  <2>3. wire' \in Packet
    BY <2>2 DEF Inv, TypeOK, Packet, SendBlock, XmodemTransmit
  <2> QED BY <2>1, <2>3 DEF Inv, TypeOK, Location, SendBlock, file,
             bootloader, counters
<1>2. FileInv'
  BY DEF Inv, FileInv, Uploading, SendBlock, file, bootloader, counters,
     XmodemTransmit
<1>3. BufferInv'
  BY DEF Inv, BufferInv, SendBlock, file, bootloader, counters,
     XmodemTransmit
<1>4. AckInv'
  BY DEF Inv, AckInv, AckFree, NoAckIn, OneAckIn, Uploading, NoPacket,
     SendBlock, file, bootloader, counters, XmodemTransmit
<1>5. BootInv'
  BY DEF Inv, BootInv, AckFree, NoAckIn, Pending, Stored, Damaged, Uploading,
     NoPacket, SendBlock, file, bootloader, counters, XmodemTransmit
<1> QED BY <1>1, <1>2, <1>3, <1>4, <1>5 DEF Inv

LEMMA SeeAckKeeps ==
  ASSUME Inv, SeeAck
  PROVE  Inv'
<1>1. TypeOK'
  BY SizeAssumption, BufferSize DEF Inv, TypeOK, Location, Byte, Packet,
     SeeAck, file, buffer, bootloader, counters
<1>2. FileInv'
  BY DEF Inv, FileInv, Uploading, SeeAck, file, buffer, bootloader, counters
<1>3. BufferInv'
  BY DEF Inv, BufferInv, SeeAck, file, buffer, bootloader, counters
<1>4. AckInv'
  BY DEF Inv, AckInv, AckFree, NoAckIn, OneAckIn, Uploading, SeeAck, file,
     buffer, bootloader, counters
<1>5. BootInv'
  BY SizeAssumption, BufferSize DEF Inv, BootInv, TypeOK, FileInv, BufferInv,
     AckInv, Location, Uploading, AckFree, NoAckIn, OneAckIn, Pending,
     Stored, Damaged, NoPacket, Smaller, SeeAck, file, buffer, bootloader,
     counters
<1> QED BY <1>1, <1>2, <1>3, <1>4, <1>5 DEF Inv

LEMMA ClearAckKeeps ==
  ASSUME Inv, ClearAck
  PROVE  Inv'
<1>0. /\ pc = "acked"
      /\ data_read = Smaller(ZIGBEE_OTA_BUF_SIZE, stored - fpos)
      /\ data_send < data_read
      /\ \E q \in Nat : data_send = q * XMODEM_SIZE
      /\ fpos + data_read <= stored /\ stored <= content_length
      /\ remaining = content_length - fpos
  BY BufferSize DEF Inv, TypeOK, FileInv, BufferInv, Uploading, Smaller, ClearAck
<1>1. TypeOK'
  <2>1. CASE LastOfBuffer
    <3>1. /\ data_read \in Nat /\ remaining - data_read \in 0 .. MaxLength
          /\ fpos + data_read \in 0 .. MaxLength
      <4>1. /\ data_read \in Nat /\ remaining \in Nat /\ stored \in Nat
            /\ fpos \in Nat /\ content_length \in Nat /\ MaxLength \in Nat
            /\ content_length <= MaxLength
        BY SizeAssumption, BufferSize DEF Inv, TypeOK
      <4>2. data_read <= remaining
        BY <1>0, <4>1
      <4> QED BY <1>0, <4>1, <4>2
    <3> QED BY <2>1, <3>1 DEF Inv, TypeOK, ClearAck, file, bootloader, counters,
               Location
  <2>2. CASE ~ LastOfBuffer
    <3>1. data_send + XMODEM_SIZE \in 0 .. ZIGBEE_OTA_BUF_SIZE - 1
      BY <2>2, SizeAssumption, BufferSize DEF Inv, TypeOK, LastOfBuffer
    <3> QED BY <2>2, <3>1 DEF Inv, TypeOK, ClearAck, file, bootloader, counters,
               Location
  <2> QED BY <2>1, <2>2
<1>2. FileInv'
  <2>1. CASE LastOfBuffer
    <3>1. /\ remaining' = content_length - (fpos + data_read)
          /\ fpos' = fpos + data_read /\ pc' = "load"
      BY SMTT(30), <1>0, <2>1, BufferSize DEF Inv, TypeOK, ClearAck
    <3> QED BY <1>0, <3>1 DEF Inv, FileInv, Uploading, ClearAck, file
  <2>2. CASE ~ LastOfBuffer
    BY <1>0, <2>2 DEF Inv, FileInv, Uploading, ClearAck, file
  <2> QED BY <2>1, <2>2
<1>3. BufferInv'
  <2>1. CASE LastOfBuffer
    BY <2>1 DEF ClearAck, BufferInv
  <2>2. CASE ~ LastOfBuffer
    <3>1. PICK q \in Nat : data_send = q * XMODEM_SIZE
      BY <1>0
    <3>2. (q + 1) * XMODEM_SIZE = q * XMODEM_SIZE + XMODEM_SIZE
      BY SizeAssumption
    <3>3. /\ data_send' = (q + 1) * XMODEM_SIZE /\ q + 1 \in Nat
          /\ data_send' = data_send + XMODEM_SIZE
      BY <2>2, <3>1, <3>2 DEF ClearAck
    <3>4. data_send' < data_read
      BY <2>2, <3>3, SizeAssumption, BufferSize DEF LastOfBuffer, Inv, TypeOK
    <3>5. /\ UNCHANGED <<fpos, data_read, stored>>
      BY <2>2 DEF ClearAck, file
    <3> QED BY <1>0, <3>3, <3>4, <3>5 DEF BufferInv, Smaller
  <2> QED BY <2>1, <2>2
<1>4. AckInv'
  BY DEF Inv, AckInv, AckFree, NoAckIn, OneAckIn, Uploading, ClearAck, file,
     bootloader, counters, LastOfBuffer
<1>5. BootInv'
  <2>1. CASE rcv = "upload" /\ LastOfBuffer
    <3>1. received = fpos + data_send + XMODEM_SIZE /\ packetno = expected
      BY <2>1 DEF Inv, BootInv, Stored, ClearAck
    <3>2. fpos + data_read <= received
      BY <2>1, <3>1, SizeAssumption, BufferSize DEF Inv, TypeOK, LastOfBuffer
    <3>3. ASSUME fpos + data_read < stored
          PROVE  received = fpos + data_read
      <4>1. data_read = ZIGBEE_OTA_BUF_SIZE
        BY <1>0, <3>3, BufferSize DEF Smaller, Inv, TypeOK
      <4>2. PICK q \in Nat : data_send = q * XMODEM_SIZE
        BY <1>0
      <4>3. q * XMODEM_SIZE + XMODEM_SIZE = ZIGBEE_OTA_BUF_SIZE
        BY <1>0, <2>1, <4>1, <4>2, LastPacketFull DEF LastOfBuffer
      <4> QED BY <3>1, <4>1, <4>2, <4>3, SizeAssumption, BufferSize
               DEF Inv, TypeOK
    <3>4. /\ pc' = "load" /\ fpos' = fpos + data_read
          /\ UNCHANGED <<packetno, expected, received, stored, rcv>>
      BY <2>1 DEF ClearAck, file, bootloader
    <3> QED BY <2>1, <3>1, <3>2, <3>3, <3>4 DEF BootInv
  <2>2. CASE rcv = "upload" /\ ~ LastOfBuffer
    <3>1. received = fpos + data_send + XMODEM_SIZE /\ packetno = expected
      BY <2>2 DEF Inv, BootInv, Stored, ClearAck
    <3>2. /\ pc' = "transmit" /\ data_send' = data_send + XMODEM_SIZE
          /\ UNCHANGED <<fpos, packetno, expected, received, rcv>>
      BY <2>2 DEF ClearAck, bootloader
    <3>3. received' = fpos' + data_send'
      BY <3>1, <3>2, SizeAssumption, BufferSize DEF Inv, TypeOK
    <3> QED BY <2>2, <3>1, <3>2, <3>3 DEF BootInv
  <2>3. rcv = "upload"
    BY DEF Inv, BootInv, TypeOK, ClearAck
  <2> QED BY <2>1, <2>2, <2>3
<1> QED BY <1>1, <1>2, <1>3, <1>4, <1>5 DEF Inv

LEMMA SendEotKeeps ==
  ASSUME Inv, SendEot
  PROVE  Inv'
<1>1. TypeOK'
  BY SMTT(30), SizeAssumption, BufferSize DEF Inv, TypeOK, Location, Byte, Packet,
     NoPacket, SendEot, file, bootloader, counters, XmodemTransmit
<1>2. FileInv'
  BY DEF Inv, FileInv, Uploading, SendEot, file, bootloader, counters,
     XmodemTransmit
<1>3. BufferInv'
  BY DEF Inv, BufferInv, SendEot, file, bootloader, counters, XmodemTransmit
<1>4. AckInv'
  BY DEF Inv, AckInv, AckFree, NoAckIn, OneAckIn, Uploading, NoPacket,
     SendEot, file, bootloader, counters, XmodemTransmit
<1>5. BootInv'
  BY SizeAssumption, BufferSize DEF Inv, BootInv, TypeOK, FileInv, BufferInv,
     AckInv, Location, Uploading, AckFree, NoAckIn, OneAckIn, Pending,
     Stored, Damaged, NoPacket, Smaller, SendEot, file, bootloader, counters,
     XmodemTransmit
<1> QED BY <1>1, <1>2, <1>3, <1>4, <1>5 DEF Inv

LEMMA RestartKeeps ==
  ASSUME Inv, Restart
  PROVE  Inv'
<1>1. TypeOK'
  <2>1. /\ 0 \in 0 .. ZIGBEE_OTA_BUF_SIZE /\ 0 \in 0 .. ZIGBEE_OTA_BUF_SIZE - 1
        /\ 1 \in 0 .. PacketMod - 1 /\ 0 \in 0 .. MaxLength /\ 0 \in 0 .. MaxPolls
    BY SizeAssumption, BufferSize
  <2>2. NoPacket \in Packet /\ <<>> \in Seq(Byte)
    BY SizeAssumption DEF NoPacket, Packet
  <2> QED BY <2>1, <2>2 DEF Inv, TypeOK, Restart, Location
<1>2. FileInv'
  BY SizeAssumption, BufferSize DEF Inv, FileInv, TypeOK, Uploading,
     Location, Restart
<1>3. BufferInv'
  BY DEF Inv, BufferInv, Restart
<1>4. AckInv'
  BY DEF Inv, AckInv, AckFree, NoAckIn, OneAckIn, Uploading, NoPacket,
     Restart
<1>5. BootInv'
  BY DEF Inv, BootInv, AckFree, NoAckIn, Pending, Stored, Damaged, Uploading,
     NoPacket, Restart
<1> QED BY <1>1, <1>2, <1>3, <1>4, <1>5 DEF Inv

LEMMA UartReadKeeps ==
  ASSUME Inv, UartRead
  PROVE  Inv'
<1>0. /\ back' \in Seq(Byte) /\ xmodem_ack' \in BOOLEAN
      /\ NoAckIn(back) => NoAckIn(back')
      /\ OneAckIn(back) => OneAckIn(back')
      /\ xmodem_ack' => xmodem_ack \/ ~ NoAckIn(back)
      /\ OneAckIn(back) /\ xmodem_ack' => xmodem_ack \/ NoAckIn(back')
  <2>1. PICK n \in 1 .. Len(back) :
          /\ xmodem_ack' = AckAfter(SubSeq(back, 1, n))
          /\ back' = SubSeq(back, n + 1, Len(back))
    BY DEF UartRead
  <2>2. back \in Seq(Byte) /\ xmodem_ack \in BOOLEAN
    BY DEF Inv, TypeOK
  <2>3. /\ Len(SubSeq(back, 1, n)) = n
        /\ n = 1 => SubSeq(back, 1, n)[1] = back[1]
    BY <2>2
  <2>4. xmodem_ack' = IF n = 1 THEN back[1] = "ACK" ELSE xmodem_ack
    BY <2>1, <2>3 DEF AckAfter
  <2>5. /\ back' \in Seq(Byte)
        /\ NoAckIn(back) => NoAckIn(back')
        /\ OneAckIn(back) => OneAckIn(back')
        /\ OneAckIn(back) /\ back[1] = "ACK" => NoAckIn(back')
    BY <2>1, <2>2, DropBytes
  <2>6. xmodem_ack' \in BOOLEAN
    BY <2>2, <2>4
  <2>7. back[1] = "ACK" => ~ NoAckIn(back)
    BY <2>2 DEF NoAckIn
  <2> QED BY <2>4, <2>5, <2>6, <2>7
<1>1. TypeOK'
  <2>1. swallowed' \in BOOLEAN
    BY DEF UartRead, Inv, TypeOK
  <2> QED BY <1>0, <2>1 DEF Inv, TypeOK, UartRead, file, buffer, bootloader,
             counters
<1>2. FileInv'
  BY DEF Inv, FileInv, Uploading, UartRead, file, buffer, bootloader,
     counters
<1>3. BufferInv'
  BY DEF Inv, BufferInv, UartRead, file, buffer, bootloader, counters
<1>4. AckInv'
  <2>1. AckFree => AckFree'
    BY <1>0 DEF AckFree
  <2>2. pc \notin {"idle", "request", "download"}
    BY DEF Inv, AckInv, UartRead
  <2>3. pc = "await" => (xmodem_ack' => NoAckIn(back')) /\ OneAckIn(back')
    BY <1>0 DEF Inv, AckInv
  <2> QED BY <1>0, <2>1, <2>2, <2>3 DEF Inv, AckInv, UartRead, file, buffer,
             bootloader, counters
<1>5. BootInv'
  <2>1. AckFree => AckFree'
    BY <1>0 DEF AckFree
  <2> QED BY <2>1 DEF Inv, BootInv, Pending, Stored, Damaged, UartRead, file,
             buffer, bootloader, counters
<1> QED BY <1>1, <1>2, <1>3, <1>4, <1>5 DEF Inv

LEMMA PollKeeps ==
  ASSUME Inv, Poll
  PROVE  Inv'
<1>1. TypeOK'
  BY SizeAssumption, BufferSize DEF Inv, TypeOK, Location, Byte, Packet,
     NoPacket, Poll, file, buffer, bootloader
<1>2. FileInv'
  BY DEF Inv, FileInv, Uploading, Poll, file, buffer, bootloader
<1>3. BufferInv'
  BY DEF Inv, BufferInv, Poll, file, buffer, bootloader
<1>4. AckInv'
  BY SMTT(30), SizeAssumption, BufferSize DEF Inv, AckInv, TypeOK, FileInv, BufferInv,
     BootInv, Location, Uploading, AckFree, NoAckIn, OneAckIn, Pending,
     Stored, Damaged, NoPacket, Smaller, Poll, file, buffer, bootloader
<1>5. BootInv'
  BY DEF Inv, BootInv, AckFree, NoAckIn, Pending, Stored, Damaged, Uploading,
     NoPacket, Poll, file, buffer, bootloader
<1> QED BY <1>1, <1>2, <1>3, <1>4, <1>5 DEF Inv

LEMMA HandleBlockKeeps ==
  ASSUME Inv, HandleBlock
  PROVE  Inv'
<1>1. TypeOK'
  <2>1. wire' \in Packet /\ back' \in Seq(Byte)
    BY SizeAssumption, AppendByte DEF Inv, TypeOK, HandleBlock, NoPacket, Packet,
       Byte
  <2>2. received' \in Nat /\ expected' \in 0 .. PacketMod - 1
    <3>1. wire.from \in Nat
      BY DEF Inv, TypeOK, Packet
    <3>2. wire.from + XMODEM_SIZE \in Nat
      BY <3>1, SizeAssumption
    <3>3. (expected + 1) % PacketMod \in 0 .. PacketMod - 1
      BY SMTT(30), SizeAssumption DEF Inv, TypeOK
    <3> QED BY <3>2, <3>3 DEF Inv, TypeOK, HandleBlock
  <2> QED BY <2>1, <2>2 DEF Inv, TypeOK, HandleBlock, file, buffer, counters
<1>2. FileInv'
  BY DEF Inv, FileInv, Uploading, HandleBlock, file, buffer, counters
<1>3. BufferInv'
  BY DEF Inv, BufferInv, HandleBlock, file, buffer, counters
<1>4. AckInv'
  BY DEF Inv, AckInv, AckFree, NoAckIn, OneAckIn, Uploading, NoPacket,
     HandleBlock, file, buffer, counters
<1>5. BootInv'
  <2>1. rcv = "upload" /\ wire # NoPacket
    BY DEF HandleBlock, NoPacket
  <2>2. pc = "await" /\ wire.from = fpos + data_send
    BY <2>1 DEF Inv, AckInv, HandleBlock
  <2>3. Pending
    BY <2>1, <2>2 DEF Inv, BootInv, Stored, Damaged
  <2>4. Stored'
    BY <2>2, <2>3 DEF Pending, Stored, HandleBlock, file, buffer
  <2> QED BY <2>1, <2>2, <2>4 DEF BootInv, HandleBlock
<1> QED BY <1>1, <1>2, <1>3, <1>4, <1>5 DEF Inv

LEMMA HandleEotKeeps ==
  ASSUME Inv, HandleEot
  PROVE  Inv'
<1>1. TypeOK'
  <2>1. wire' \in Packet /\ back' \in Seq(Byte)
    BY SizeAssumption, AppendByte DEF Inv, TypeOK, HandleEot, NoPacket,
       Packet, Byte
  <2> QED BY <2>1 DEF Inv, TypeOK, HandleEot, file, buffer, counters
<1>2. FileInv'
  BY DEF Inv, FileInv, Uploading, HandleEot, file, buffer, counters
<1>3. BufferInv'
  BY DEF Inv, BufferInv, HandleEot, file, buffer, counters
<1>4. AckInv'
  BY DEF Inv, AckInv, AckFree, NoAckIn, OneAckIn, Uploading, NoPacket,
     HandleEot, file, buffer, counters
<1>5. BootInv'
  <2>1. pc = "end" /\ stored <= received
    BY DEF Inv, TypeOK, AckInv, BootInv, HandleEot, NoPacket, Location
  <2> QED BY <2>1 DEF BootInv, HandleEot, file, buffer, counters
<1> QED BY <1>1, <1>2, <1>3, <1>4, <1>5 DEF Inv

LEMMA DamageKeeps ==
  ASSUME Inv, Damage
  PROVE  Inv'
<1>1. TypeOK'
  <2>1. wire' \in Packet /\ back' \in Seq(Byte)
    <3>1. "NAK" \in Byte /\ back \in Seq(Byte)
      BY DEF Byte, Inv, TypeOK
    <3>2. Append(back, "NAK") \in Seq(Byte)
      BY <3>1, AppendByte
    <3>3. NoPacket \in Packet
      BY SizeAssumption DEF NoPacket, Packet
    <3> QED BY <3>1, <3>2, <3>3 DEF Damage
  <2>2. noise' \in 0 .. MaxNoise
    BY SMTT(30), SizeAssumption DEF Inv, TypeOK, Damage
  <2> QED BY <2>1, <2>2 DEF Inv, TypeOK, Damage, file, buffer, bootloader
<1>2. FileInv'
  BY DEF Inv, FileInv, Uploading, Damage, file, buffer, bootloader
<1>3. BufferInv'
  BY DEF Inv, BufferInv, Damage, file, buffer, bootloader
<1>4. AckInv'
  BY DEF Inv, AckInv, AckFree, NoAckIn, OneAckIn, Uploading, NoPacket,
     Damage, file, buffer, bootloader
<1>5. BootInv'
  <2>1. "NAK" \in Byte /\ back \in Seq(Byte)
    BY DEF Byte, Inv, TypeOK
  <2>2. NoAckIn(back) => NoAckIn(back')
    BY <2>1, AppendByte DEF Damage
  <2>3. AckFree => AckFree'
    BY <2>2 DEF AckFree, Damage
  <2>4. pc \in {"await", "end"} /\ (pc = "await" => AckFree)
    BY DEF Inv, TypeOK, AckInv, Damage, Location
  <2> QED BY <2>3, <2>4 DEF Inv, BootInv, Damaged, Uploading, Damage, file,
             buffer, bootloader
<1> QED BY <1>1, <1>2, <1>3, <1>4, <1>5 DEF Inv

LEMMA OtherWriteKeeps ==
  ASSUME Inv, OtherWrite
  PROVE  Inv'
<1>1. TypeOK'
  <2>1. back' \in Seq(Byte)
    BY AppendByte DEF Inv, TypeOK, Byte, OtherWrite
  <2>2. noise' \in 0 .. MaxNoise
    BY SMTT(30), SizeAssumption DEF Inv, TypeOK, OtherWrite
  <2> QED BY <2>1, <2>2 DEF Inv, TypeOK, OtherWrite, file, buffer, bootloader
<1>2. FileInv'
  BY DEF Inv, FileInv, Uploading, OtherWrite, file, buffer, bootloader
<1>3. BufferInv'
  BY DEF Inv, BufferInv, OtherWrite, file, buffer, bootloader
<1>4. AckInv'
  <2>1. "NAK" \in Byte /\ back \in Seq(Byte)
    BY DEF Byte, Inv, TypeOK
  <2>2. /\ NoAckIn(back) => NoAckIn(back')
        /\ OneAckIn(back) => OneAckIn(back')
    BY <2>1, AppendByte DEF OtherWrite
  <2>3. AckFree => AckFree'
    BY <2>2 DEF AckFree, OtherWrite
  <2>4. pc \notin {"idle", "request", "download"}
    BY DEF Inv, BootInv, OtherWrite
  <2> QED BY <2>2, <2>3, <2>4 DEF Inv, AckInv, OtherWrite, file, buffer,
             bootloader
<1>5. BootInv'
  BY DEF Inv, BootInv, AckFree, NoAckIn, Pending, Stored, Damaged, Uploading,
     OtherWrite, file, buffer, bootloader
<1> QED BY <1>1, <1>2, <1>3, <1>4, <1>5 DEF Inv

-----------------------------------------------------------------------------
(* The theorems *)

LEMMA InitInv == Init => Inv
<1> SUFFICES ASSUME Init PROVE Inv
  OBVIOUS
<1>1. TypeOK
  <2>1. NoPacket \in Packet /\ <<>> \in Seq(Byte)
    BY SizeAssumption DEF NoPacket, Packet
  <2>2. /\ 0 \in 0 .. ZIGBEE_OTA_BUF_SIZE /\ 0 \in 0 .. ZIGBEE_OTA_BUF_SIZE - 1
        /\ 1 \in 0 .. PacketMod - 1 /\ 0 \in 0 .. MaxLength /\ 0 \in 0 .. MaxPolls
        /\ 0 \in 0 .. MaxNoise /\ 0 \in 0 .. MaxUpgrades
    BY SizeAssumption, BufferSize
  <2> QED BY <2>1, <2>2 DEF Init, TypeOK, Location
<1>2. FileInv
  BY DEF Init, FileInv, Uploading
<1>3. BufferInv /\ AckInv /\ BootInv
  BY DEF Init, BufferInv, AckInv, BootInv, AckFree, NoAckIn, Uploading
<1> QED BY <1>1, <1>2, <1>3 DEF Inv

LEMMA NextKeeps == Inv /\ [Next]_vars => Inv'
<1> SUFFICES ASSUME Inv, [Next]_vars PROVE Inv'
  OBVIOUS
<1>1. CASE UNCHANGED vars
  BY <1>1 DEF vars, file, buffer, bootloader, counters, Inv, TypeOK, FileInv,
     BufferInv, AckInv, AckFree, BootInv, Pending, Stored, Damaged
<1>2. CASE Upgrade
  BY <1>2, UpgradeKeeps
<1>3. CASE GiveUp
  BY <1>3, GiveUpKeeps
<1>4. CASE Connected
  BY <1>4, ConnectedKeeps
<1>5. CASE DownloadSome
  BY <1>5, DownloadSomeKeeps
<1>6. CASE StartUpload
  BY <1>6, StartUploadKeeps
<1>7. CASE LoadBuffer
  BY <1>7, LoadBufferKeeps
<1>8. CASE LoadFails
  BY <1>8, LoadFailsKeeps
<1>9. CASE SendBlock
  BY <1>9, SendBlockKeeps
<1>10. CASE SeeAck
  BY <1>10, SeeAckKeeps
<1>11. CASE ClearAck
  BY <1>11, ClearAckKeeps
<1>12. CASE SendEot
  BY <1>12, SendEotKeeps
<1>13. CASE Restart
  BY <1>13, RestartKeeps
<1>14. CASE UartRead
  BY <1>14, UartReadKeeps
<1>15. CASE Poll
  BY <1>15, PollKeeps
<1>16. CASE HandleBlock
  BY <1>16, HandleBlockKeeps
<1>17. CASE HandleEot
  BY <1>17, HandleEotKeeps
<1>18. CASE Damage
  BY <1>18, DamageKeeps
<1>19. CASE OtherWrite
  BY <1>19, OtherWriteKeeps
<1> QED
  BY <1>1, <1>2, <1>3, <1>4, <1>5, <1>6, <1>7, <1>8, <1>9, <1>10,
     <1>11, <1>12, <1>13, <1>14, <1>15, <1>16, <1>17, <1>18, <1>19 DEF Next, FotaTask

LEMMA InvHolds == Spec => []Inv
<1> QED BY InitInv, NextKeeps, PTL DEF Spec

\* Every variable keeps its type; in particular data_send never leaves the
\* buffer and image_data_remaining never becomes negative.
THEOREM TypeCorrect == Spec => []TypeOK
<1>1. Inv => TypeOK
  BY DEF Inv
<1> QED BY <1>1, InvHolds, PTL

\* zigbee_fota_task never hands a block to the UART before the bootloader has
\* stored all the blocks before it.
THEOREM NeverRunsAhead == Spec => []StopAndWait
<1>1. Inv => StopAndWait
  BY DEF Inv, AckInv, AckFree, BootInv, StopAndWait
<1> QED BY <1>1, InvHolds, PTL

\* The bootloader never takes a part of an image for the whole of it, unless
\* the flash failed.
THEOREM CommitsAreComplete == Spec => []CommitComplete
<1>1. Inv => CommitComplete
  BY DEF Inv, TypeOK, FileInv, BootInv, CommitComplete
<1> QED BY <1>1, InvHolds, PTL

-----------------------------------------------------------------------------
(* The refinement of XmodemUpload *)

\* A block that is stored is the next one.
LEMMA BlockIsReceived ==
  ASSUME Inv, HandleBlock
  PROVE  Upload!Receive
<1>1. pc = "await" /\ wire # NoPacket
  BY DEF Inv, TypeOK, Location, AckInv, HandleBlock, NoPacket
<1>2. /\ wire.no = expected /\ received = fpos + data_send
      /\ wire.from = fpos + data_send
  BY <1>1 DEF Inv, BootInv, AckInv, Pending, Stored, Damaged, HandleBlock
<1>3. received < stored
  BY <1>1, <1>2, BufferSize DEF Inv, TypeOK, FileInv, BufferInv, Uploading,
     Smaller
<1>4. /\ rcv = "upload" /\ rcv' = "upload" /\ stored' = stored
      /\ received' = received + XMODEM_SIZE
  BY <1>2 DEF HandleBlock, file
<1> QED BY <1>3, <1>4 DEF Upload!Receive

LEMMA EotIsCommit ==
  ASSUME Inv, HandleEot
  PROVE  Upload!Commit
<1>1. pc = "end" /\ stored <= received
  BY DEF Inv, TypeOK, Location, AckInv, BootInv, HandleEot, NoPacket
<1>2. /\ rcv = "upload" /\ rcv' = "done"
      /\ UNCHANGED <<stored, received>>
  BY DEF HandleEot, file
<1> QED BY <1>1, <1>2 DEF Upload!Commit, Inv, TypeOK

LEMMA FailureIsShortening ==
  ASSUME Inv, LoadFails
  PROVE  Upload!Shorten \/ Upload!Prepare
<1>1. /\ stored' = fpos /\ fpos \in 0 .. stored /\ stored' \in Nat
      /\ UNCHANGED <<rcv, received>> /\ pc = "load"
  BY DEF Inv, TypeOK, FileInv, Uploading, LoadFails, Smaller, bootloader
<1>2. CASE rcv = "upload"
  BY <1>1, <1>2 DEF Inv, BootInv, Upload!Shorten
<1>3. CASE rcv # "upload"
  <2>1. rcv # "done"
    BY <1>1 DEF Inv, BootInv
  <2> QED BY <1>1, <1>3, <2>1 DEF Upload!Prepare
<1> QED BY <1>2, <1>3

\* What the bootloader has is the image in order and without gaps, and it is
\* committed only at its end: the upload implements XmodemUpload.
THEOREM UploadImplemented == Spec => UploadRefined
<1>1. Init => Upload!Init
  BY DEF Init, Upload!Init
<1>2. Inv /\ [Next]_vars => [Upload!Next]_(Upload!uploadVars)
  <2> SUFFICES ASSUME Inv, [Next]_vars
               PROVE  Upload!Next \/ UNCHANGED Upload!uploadVars
    OBVIOUS
  <2>1. CASE HandleBlock
    BY <2>1, BlockIsReceived DEF Upload!Next
  <2>2. CASE HandleEot
    BY <2>2, EotIsCommit DEF Upload!Next
  <2>3. CASE LoadFails
    BY <2>3, FailureIsShortening DEF Upload!Next
  <2>4. CASE DownloadSome
    <3>1. pc = "download" /\ pc' = "download"
      BY <2>4 DEF DownloadSome
    <3>2. Inv' /\ UNCHANGED <<rcv, received>>
      BY <2>4, NextKeeps DEF Next, FotaTask, DownloadSome, bootloader
    <3>3. rcv = "menu" /\ stored' \in Nat
      BY <3>1, <3>2 DEF Inv, TypeOK, BootInv
    <3> QED BY <3>2, <3>3 DEF Upload!Prepare, Upload!Next
  <2>5. CASE StartUpload
    <3>1. rcv = "menu" /\ stored' = stored
      BY <2>5 DEF Inv, BootInv, StartUpload, file
    <3>2. CASE rcv' = "upload" /\ received' = 0
      BY <3>1, <3>2 DEF Upload!Start, Upload!Next
    <3>3. CASE UNCHANGED bootloader
      BY <3>1, <3>3 DEF bootloader, Upload!uploadVars
    <3> QED BY <2>5, <3>2, <3>3 DEF StartUpload
  <2>6. CASE Restart
    BY <2>6 DEF Restart, Upload!Leave, Upload!Next
  <2>7. CASE Upgrade
    <3>1. rcv = "app" /\ rcv' = "menu" /\ UNCHANGED <<stored, received>>
      BY <2>7 DEF Inv, BootInv, Upgrade, file
    <3> QED BY <3>1 DEF Upload!uploadVars
  <2>8. CASE \/ GiveUp \/ Connected \/ LoadBuffer \/ SendBlock \/ SeeAck
             \/ ClearAck \/ SendEot \/ UartRead \/ Poll \/ Damage
             \/ OtherWrite \/ UNCHANGED vars
    <3>1. UNCHANGED <<rcv, received, stored>>
      BY <2>8 DEF GiveUp, Connected, LoadBuffer, SendBlock, SeeAck, ClearAck,
         SendEot, UartRead, Poll, Damage, OtherWrite, vars, file, bootloader
    <3> QED BY <3>1 DEF Upload!uploadVars
  <2> QED BY <2>1, <2>2, <2>3, <2>4, <2>5, <2>6, <2>7, <2>8 DEF Next, FotaTask
<1> QED BY <1>1, <1>2, InvHolds, PTL DEF Spec, UploadRefined, Upload!Spec
=============================================================================
