----------------------------- MODULE VoicePack ------------------------------
(***************************************************************************)
(* How U200Client.change_language gets a language's voice pack and cuts it *)
(* into the writes of the transfer: the cloud's list, the choice of a row, *)
(* the download (aqara_ble/voice_ota.py) and the frames (aqara_ble/        *)
(* ota_language.py).  What paces the writes is module VoicePackOta.  Pure: *)
(* module Library evaluates it.                                            *)
(*                                                                         *)
(* A row of the list is [files, lang, name, code, file, md5]: the form of  *)
(* its fileInfo, the language's code and name, the segment between _ _ of  *)
(* its file's name, the file and its md5 (the content stands for its md5;  *)
(* NoMd5 when the row has none).                                           *)
(***************************************************************************)
EXTENDS Integers, Sequences, FiniteSetsExt, Bytes

CONSTANTS
  BlockSize,    \* OTA_BLOCK_SIZE, 1024
  MtuPayload,   \* OTA_DATA_MTU_PAYLOAD, 243
  SeqSize       \* numbers in the byte of a block's marker, 256

ASSUME PackConstantsOK ==
  /\ BlockSize \in Nat \ {0} /\ MtuPayload \in Nat \ {0} /\ SeqSize \in 1 .. 256

Failed(why) == [ok |-> FALSE, why |-> why]
Got(what)   == [ok |-> TRUE, what |-> what]

NoMd5 == <<"no md5">>
-----------------------------------------------------------------------------
(* The list and the choice.                                                *)

\* A row whose fileInfo is a list, the text of one or a wrapped one.
Readable(row) == row.files \in {"list", "text", "wrapped"}

\* parse_voice_list: the places of the rows it keeps.  Code 0 or none, but not the
\* text "0"; the rows bare or under one of five keys, and any other result is an
\* empty list.
ParseVoiceList(payload) ==
    IF payload.code \notin {"0", "none"} THEN Failed("code")
    ELSE IF payload.result \in {"bare", "keyed"}
    THEN Got({ i \in DOMAIN payload.rows : Readable(payload.rows[i]) })
    ELSE Got({})

Answers(row, language) == language \in {row.lang, row.name, row.code}

\* select_voice_pack: the first row of the language, of one file only.
SelectVoicePack(rows, kept, language) ==
    LET hits == { i \in kept : Answers(rows[i], language) } IN
    IF hits = {} THEN Failed("no pack")
    ELSE IF \E i, j \in hits : rows[i].file # rows[j].file THEN Failed("ambiguous")
    ELSE Got(rows[Min(hits)])

\* download_voice_pack, given what the CDN serves.
Download(row, served, verify) ==
    IF verify /\ row.md5 # NoMd5 /\ row.md5 # served
    THEN Failed("md5")
    ELSE Got(served)
-----------------------------------------------------------------------------
(* The frames.                                                             *)

\* crc16_xmodem, a bit at a time.
CrcBit(crc) == IF crc >= 32768 THEN Xor((2 * crc) % 65536, \h1021) ELSE 2 * crc

CrcByte(crc, byte) ==
    LET Two(c) == CrcBit(CrcBit(c)) IN Two(Two(Two(Two(Xor(crc, byte * 256)))))

\* The checksum after each byte of the data, and after the last one.
CrcAfter(data) ==
    LET crc[n \in 0 .. Len(data)] == IF n = 0 THEN 0 ELSE CrcByte(crc[n - 1], data[n]) IN crc

Crc16Xmodem(data) == CrcAfter(data)[Len(data)]

\* frame_data_block, before it is cut into writes.
FrameDataBlock(seq, block) ==
    <<2, seq % SeqSize, (SeqSize - 1 - seq) % SeqSize>> \o block \o BigEndian(Crc16Xmodem(block))

\* Variant of Padded that leaves the last block short.
NotPadded(block) == block

Padded(block) == block \o [i \in 1 .. (BlockSize - Len(block)) |-> \h1a]

\* The consecutive pieces of a sequence, the last one perhaps shorter.
Pieces(s, size) ==
    [n \in 1 .. ((Len(s) + size - 1) \div size) |->
        SubSeq(s, size * (n - 1) + 1, IF size * n < Len(s) THEN size * n ELSE Len(s))]

\* iter_data_frames
DataFrames(blob) ==
    LET blocks == Pieces(blob, BlockSize) IN
    [n \in DOMAIN blocks |-> FrameDataBlock(n, Padded(blocks[n]))]

\* build_ota_data_plan: the size the manifest and the init frame declare, and
\* for each block its writes on ff91, every one behind the data prefix.
DataPlan(blob) ==
    LET frames == DataFrames(blob) IN
    [size   |-> Len(blob),
     groups |-> [n \in DOMAIN frames |->
                    LET cut == Pieces(frames[n], MtuPayload) IN
                    [w \in DOMAIN cut |-> <<\h11>> \o cut[w]]]]
-----------------------------------------------------------------------------
\* change_language up to the transfer: its plan, or why there is none.
Prepare(payload, language, served, verify) ==
    LET listed == ParseVoiceList(payload) IN
    IF ~listed.ok THEN listed ELSE
    LET picked == SelectVoicePack(payload.rows, listed.what, language) IN
    IF ~picked.ok THEN picked ELSE
    LET blob == Download(picked.what, served, verify) IN
    IF ~blob.ok THEN blob ELSE
    Got([file |-> picked.what.file, plan |-> DataPlan(blob.what)])
=============================================================================
